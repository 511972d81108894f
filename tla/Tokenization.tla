---------------------------- MODULE Tokenization ----------------------------
(***************************************************************************)
(* What the lexer promises about a text, without a word on how it reads    *)
(* it: what is a token, what stands between tokens, where a character is.  *)
(***************************************************************************)
EXTENDS Lexer, FiniteSets

(* As much of it as there is. *)
Part(s, i, j) == SubSeq(s, i, IF j <= Len(s) THEN j ELSE Len(s))
Char(s, i)    == IF i \in DOMAIN s THEN s[i] ELSE NoCharacter
AllIn(s, from, set) == \A i \in from .. Len(s) : s[i] \in set

(* The text with every line end as a line feed: a carriage return before   *)
(* one is left out, any other one is one.                                  *)
UnixText(s) ==
  LET from[i \in 1 .. Len(s) + 1] ==
        IF i = Len(s) + 1 THEN <<>>
        ELSE IF s[i] = CR /\ Char(s, i + 1) = LF THEN from[i + 1]
        ELSE <<IF s[i] = CR THEN LF ELSE s[i]>> \o from[i + 1]
  IN  from[1]

(* Line and column of the i-th character, counted from 1. *)
PositionOf(s, i) ==
  LET ends == {j \in 1 .. i - 1 : s[j] = LF}
      last == IF ends = {} THEN 0 ELSE CHOOSE j \in ends : \A k \in ends : k <= j
  IN  Position(1 + Cardinality(ends), i - last)

-----------------------------------------------------------------------------
(* Tokens. *)
IsWord(s)   == Char(s, 1) \in WordStart /\ AllIn(s, 2, WordCharacter)
IsNumber(s) == s = <<"0">> \/ (Char(s, 1) \in Digits \ {"0"} /\ AllIn(s, 2, Digits))

(* Behind an odd number of backslashes. *)
IsEscaped(s, i) ==
  Cardinality({j \in 1 .. i - 1 : \A k \in j .. i - 1 : s[k] = "\\"}) % 2 = 1

IsEscape(s, i) ==
  \/ Char(s, i) \in PlainEscapes \union OctalDigits
  \/ Char(s, i) = "x" /\ Char(s, i + 1) \in HexDigits

IsQuoted(s) ==
  /\ Char(s, 1) \in Quotes
  /\ Len(s) >= (IF Char(s, 1) = "'" THEN 3 ELSE 2)
  /\ \A i \in 2 .. Len(s) : (Char(s, i) = Char(s, 1) /\ ~IsEscaped(s, i)) <=> i = Len(s)
  /\ \A i \in 2 .. Len(s) : IsEscaped(s, i) => IsEscape(s, i)
  /\ \A i \in 2 .. Len(s) : Char(s, i) # LF

IsToken(s) == s # <<>> /\ (s \in Punctuators \/ IsWord(s) \/ IsNumber(s) \/ IsQuoted(s))

(* Blanks and comments. *)
StartsComment(s, i) == Char(s, i) = "/" /\ Char(s, i + 1) \in {"/", "*"}

CommentEnds(s, i) ==
  {j \in i .. Len(s) :
     IF Char(s, i + 1) = "/" THEN s[j] = LF \/ j = Len(s)
     ELSE j >= i + 3 /\ s[j - 1] = "*" /\ s[j] = "/"}

CommentEnd(s, i) == CHOOSE j \in CommentEnds(s, i) : \A k \in CommentEnds(s, i) : j <= k

IsBlankText(s) ==
  LET blank[i \in 1 .. Len(s) + 1] ==
        \/ i = Len(s) + 1
        \/ Char(s, i) \in Blanks /\ blank[i + 1]
        \/ /\ StartsComment(s, i) /\ CommentEnds(s, i) # {}
           /\ blank[CommentEnd(s, i) + 1]
  IN  blank[1]

(* No token and no comment can be read at i. *)
IllegalAt(s, i) ==
  /\ i <= Len(s) /\ Char(s, i) \notin Blanks
  /\ IF StartsComment(s, i) THEN CommentEnds(s, i) = {}
     ELSE \/ \A j \in i .. Len(s) : ~IsToken(SubSeq(s, i, j))
          \/ \E j \in i .. Len(s) - 1 : /\ IsNumber(SubSeq(s, i, j))
                                        /\ Char(s, j + 1) \in Letters
=============================================================================
