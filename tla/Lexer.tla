------------------------------- MODULE Lexer -------------------------------
(***************************************************************************)
(* The lexer of lexer.cc on one file.  `getNextToken' is a choice between  *)
(* loops over characters; `at' says in which loop it is, and one step is   *)
(* one iteration.  `partial', `notDoneYet' and `tmpPos' are static in the  *)
(* code: they outlive the lexer of a file.                                 *)
(***************************************************************************)
EXTENDS FileTracker

CONSTANT MaxWord   \* bound: characters of a token; only a loop that never
                   \* ends reaches it

Punctuators ==
  {<<c>> : c \in {"[", "]", "(", ")", "{", "}", ".", "&", "*", "+", "-", "~",
                  "!", "/", "%", "<", ">", "^", "|", "?", ":", ";", "=", ",",
                  "#"}}
  \union
  {<<"-", ">">>, <<"+", "+">>, <<"-", "-">>, <<"<", "<">>, <<">", ">">>,
   <<"<", "=">>, <<">", "=">>, <<"=", "=">>, <<"!", "=">>, <<"&", "&">>,
   <<"|", "|">>, <<".", ".", ".">>, <<"*", "=">>, <<"/", "=">>, <<"%", "=">>,
   <<"+", "=">>, <<"-", "=">>, <<"<", "<", "=">>, <<">", ">", "=">>,
   <<"&", "=">>, <<"^", "=">>, <<"|", "=">>, <<"#", "#">>, <<"<", ":">>,
   <<":", ">">>, <<"<", "%">>, <<"%", ">">>, <<"%", ":">>,
   <<"%", ":", "%", ":">>}

(* Of the keywords those that the files use. *)
Keywords == {<<"d", "o">>, <<"i", "f">>}

OctalDigits   == {"0", "1", "2", "3", "4", "5", "6", "7"}
Digits        == OctalDigits \union {"8", "9"}
HexLetters    == {"a", "b", "c", "d", "e", "f", "A", "B", "C", "D", "E", "F"}
HexDigits     == Digits \union HexLetters
Letters       == HexLetters \union
  {"g", "h", "i", "j", "k", "l", "m", "n", "o", "p", "q", "r", "s", "t", "u", "v",
   "w", "x", "y", "z", "G", "H", "I", "J", "K", "L", "M", "N", "O", "P", "Q", "R",
   "S", "T", "U", "V", "W", "X", "Y", "Z"}
WordStart     == Letters \union {"_"}
WordCharacter == WordStart \union Digits
Blanks        == {" ", "\t", "\f", LF}   \* but for the vertical tab
Quotes        == {"'", "\""}
PlainEscapes  == Quotes \union {"?", "\\", "a", "b", "f", "n", "r", "t", "v"}

VARIABLES
  tracker,      \* the FileTracker
  curword,      \* characters of the token so far
  at,           \* the loop getNextToken is in, or "idle", "end", "failed"
  partial,      \* what may become a punctuator
  notDoneYet,   \* partial holds the start of the next token
  tmpPos,       \* position of that start, or of a comment
  tokens        \* history: the tokens returned for this file

statics   == <<partial, notDoneYet, tmpPos>>
lexerVars == <<tracker, curword, at, statics, tokens>>

NewLexer(text) ==
  /\ tracker' = NewTracker(text)
  /\ curword' = <<>>
  /\ at' = "idle"
  /\ tokens' = <<>>

-----------------------------------------------------------------------------
(* Steps common to all loops. *)
Goto(loop, t) == at' = loop /\ tracker' = t

Throw == at' = "failed" /\ UNCHANGED <<tracker, curword, statics, tokens>>

StoreToken(type, word, t) ==
  /\ tokens' = Append(tokens, [type |-> type, value |-> word, pos |-> t.stored])
  /\ curword' = <<>>
  /\ Goto("idle", t)

(* Append to the token and stay in or enter a loop. *)
Extend(word, loop, t) ==
  /\ Len(curword) < MaxWord
  /\ curword' = curword \o word
  /\ Goto(loop, t)
  /\ UNCHANGED <<statics, tokens>>

(* Leave characters out of the token. *)
Skip(loop, t) == Goto(loop, t) /\ UNCHANGED <<curword, statics, tokens>>

-----------------------------------------------------------------------------
(* The start of getNextToken, up to the first character that is neither    *)
(* blank nor in a comment.                                                 *)
Starting == at = "skipping" \/ (at = "idle" /\ ~notDoneYet)

ReachEnd ==
  /\ Starting /\ AtEnd(tracker)
  /\ Goto("end", StorePosition(tracker, tracker.position))
  /\ UNCHANGED <<curword, statics, tokens>>

StartBlank ==
  LET t == Advance(tracker) IN
  /\ Starting /\ ~AtEnd(tracker)
  /\ t.current \in Blanks
  /\ Skip("blank", t)

(* Mutant: the character that ends the white space is lost. *)
ConsumeWhitespace_NoRewind ==
  LET t == Advance(tracker) IN
  /\ at = "blank"
  /\ IF AtEnd(tracker) \/ t.current \notin Blanks
     THEN Skip("skipping", t)
     ELSE Skip("blank", t)

ConsumeWhitespace ==
  LET t == Advance(tracker) IN
  /\ at = "blank"
  /\ IF AtEnd(tracker) THEN Skip("skipping", t)
     ELSE IF t.current \in Blanks THEN Skip("blank", t)
     ELSE Skip("skipping", Rewind(t))

(* consumeComment notes where it was called, comment or not. *)
StartComment ==
  LET t == Advance(tracker)
      u == Advance(t)
  IN
  /\ Starting /\ ~AtEnd(tracker)
  /\ t.current = "/" /\ ~AtEnd(t) /\ u.current \in {"*", "/"}
  /\ tmpPos' = t.position
  /\ Goto(IF u.current = "*" THEN "block" ELSE "line", u)
  /\ UNCHANGED <<curword, partial, notDoneYet, tokens>>

(* Until the end of the line or of the file. *)
ConsumeLineComment ==
  LET t == Advance(tracker) IN
  /\ at = "line"
  /\ Skip(IF AtEnd(tracker) \/ t.current = LF THEN "skipping" ELSE "line", t)

(* Mutant: the character after a star is not read again. *)
ConsumeBlockComment_NoRewind ==
  LET t == Advance(tracker)
      u == Advance(t)
  IN
  /\ at = "block"
  /\ IF AtEnd(tracker) THEN Throw
     ELSE IF t.current # "*" \/ AtEnd(t) THEN Skip("block", t)
     ELSE Skip(IF u.current = "/" THEN "skipping" ELSE "block", u)

ConsumeBlockComment ==
  LET t == Advance(tracker)
      u == Advance(t)
  IN
  /\ at = "block"
  /\ IF AtEnd(tracker) THEN Throw
     ELSE IF t.current # "*" \/ AtEnd(t) THEN Skip("block", t)
     ELSE IF u.current = "/" THEN Skip("skipping", u)
     ELSE Skip("block", Rewind(u))

(* A slash that starts no comment has been looked behind and rewound.      *)
AfterCommentTest(t) ==
  IF t.current = "/" /\ ~AtEnd(t) THEN Rewind(Advance(t)) ELSE t

(* A character that starts a token: its position is stored.  consumeQuoted *)
(* is tried first, then words and constants, then punctuators.             *)
StartToken ==
  LET s == Advance(tracker)
      t == StorePosition(AfterCommentTest(s), s.position)
      c == s.current
      next == Advance(t)
  IN
  /\ Starting /\ ~AtEnd(tracker)
  /\ c \notin Blanks
  /\ ~(c = "/" /\ ~AtEnd(s) /\ Advance(s).current \in {"*", "/"})
  /\ tmpPos' = s.position
  /\ notDoneYet' = notDoneYet
  /\ \/ /\ c \in Quotes
        /\ curword' = <<c>> /\ Goto("quoted", t)
        /\ UNCHANGED <<partial, tokens>>
     \/ /\ c = "0"
        /\ IF ~AtEnd(t) /\ next.current \in Letters
           THEN at' = "failed" /\ UNCHANGED <<tracker, curword, tokens>>
           ELSE StoreToken("NULLPOINTER", <<"0">>,
                           IF AtEnd(t) THEN t ELSE Rewind(next))
        /\ UNCHANGED partial
     \/ /\ c \in WordStart \union (Digits \ {"0"})
        /\ curword' = <<c>> /\ Goto(IF c \in WordStart THEN "ident" ELSE "decimal", t)
        /\ UNCHANGED <<partial, tokens>>
     \/ /\ c \notin Quotes \union WordCharacter
        /\ partial' = <<c>>
        /\ Goto(IF <<c>> \in Punctuators THEN "punctuator" ELSE "failed", t)
        /\ UNCHANGED <<curword, tokens>>

-----------------------------------------------------------------------------
(* A word that the file ends with is an identifier whatever it is. *)
ConsumeIdent ==
  LET t == Advance(tracker)
      type == IF curword \in Keywords THEN "KEYWORD" ELSE "IDENTIFIER"
  IN
  /\ at = "ident"
  /\ IF AtEnd(tracker)
     THEN StoreToken("IDENTIFIER", curword, tracker) /\ UNCHANGED statics
     ELSE IF t.current \in WordCharacter THEN Extend(<<t.current>>, "ident", t)
     ELSE StoreToken(type, curword, Rewind(t)) /\ UNCHANGED statics

ConsumeDecimal ==
  LET t == Advance(tracker) IN
  /\ at = "decimal"
  /\ IF ~AtEnd(tracker) /\ t.current \in Digits
     THEN Extend(<<t.current>>, "decimal", t)
     ELSE IF ~AtEnd(tracker) /\ t.current \in Letters THEN Throw
     ELSE /\ StoreToken("INT", curword, IF AtEnd(tracker) THEN t ELSE Rewind(t))
          /\ UNCHANGED statics

-----------------------------------------------------------------------------
(* consumeQuoted.  An escape sequence is read ahead; the loops over        *)
(* hexadecimal and octal digits do not ask whether advance succeeded.      *)
ConsumeEscape(t) ==
  LET e == t.current
      h == Advance(t)
  IN
  \/ e \in PlainEscapes /\ Extend(<<"\\", e>>, "quoted", t)
  \/ e = "x" /\ h.current \in HexDigits /\ Extend(<<"\\", "x", h.current>>, "hex", Advance(h))
  \/ e \in OctalDigits /\ Extend(<<"\\", e>>, "octal", t)
  \/ e = "x" /\ h.current \notin HexDigits /\ Throw
  \/ e \notin PlainEscapes \union OctalDigits \union {"x"} /\ Throw

CloseQuote(t) ==
  LET character == t.current = "'"
      word == Append(curword, t.current)
  IN
  IF character /\ Len(word) <= 2 THEN Throw
  ELSE /\ StoreToken(IF character THEN "CHAR" ELSE "STRINGLITERAL", word, t)
       /\ UNCHANGED statics

ConsumeQuoted ==
  LET t == Advance(tracker)
      c == t.current
      quote == Head(curword)
  IN
  /\ at = "quoted"
  /\ IF AtEnd(tracker) \/ c = LF \/ (c = "\\" /\ AtEnd(t)) THEN Throw
     ELSE IF c = "\\" THEN ConsumeEscape(Advance(t))
     ELSE IF c = quote THEN CloseQuote(t)
     ELSE Extend(<<c>>, "quoted", t)

ConsumeHex ==
  /\ at = "hex"
  /\ IF tracker.current \in HexDigits
     THEN Extend(<<tracker.current>>, "hex", Advance(tracker))
     ELSE Skip("quoted", Rewind(tracker))

(* Mutant: the loop keeps reading its first digit. *)
ConsumeOctal_Stuck ==
  /\ at = "octal"
  /\ IF tracker.current \in OctalDigits
     THEN Extend(<<tracker.current>>, "octal", tracker)
     ELSE Skip("quoted", Rewind(tracker))

ConsumeOctal ==
  LET t == Advance(tracker) IN
  /\ at = "octal"
  /\ IF t.current \in OctalDigits
     THEN Extend(<<t.current>>, "octal", t)
     ELSE Skip("quoted", Rewind(t))

-----------------------------------------------------------------------------
(* consumePunctuator.  After the first character `partial' has matched.    *)
ResumePunctuator ==
  /\ at = "idle" /\ notDoneYet
  /\ notDoneYet' = FALSE
  /\ Goto("punctuator", StorePosition(tracker, tmpPos))
  /\ UNCHANGED <<curword, partial, tmpPos, tokens>>

MatchPunctuator ==
  LET t == Advance(tracker) IN
  /\ at = "punctuator" /\ partial \in Punctuators
  /\ IF AtEnd(tracker)
     THEN StoreToken("PUNCTUATOR", curword \o partial, tracker) /\ UNCHANGED statics
     ELSE /\ partial' = Append(partial, t.current)
          /\ Goto("punctuator", t)
          /\ UNCHANGED <<curword, notDoneYet, tmpPos, tokens>>

(* Mutant: `%:%' and `..' are no different from other failures. *)
OpenEnded_None == {}

(* No punctuators themselves, but starts of one. *)
OpenEnded == {<<"%", ":", "%">>, <<".", ".">>}

(* Either the longer punctuator follows, or the shorter one is returned    *)
(* and the rest kept for the next call.                                    *)
ReadAhead ==
  LET t == Advance(tracker)
      longer == IF AtEnd(tracker) THEN partial ELSE Append(partial, t.current)
      taken  == IF Head(partial) = "." THEN <<".">> ELSE <<"%", ":">>
  IN
  /\ at = "punctuator" /\ partial \in OpenEnded
  /\ tmpPos' = tracker.position
  /\ IF longer \in Punctuators
     THEN /\ StoreToken("PUNCTUATOR", longer, t)
          /\ partial' = longer /\ UNCHANGED notDoneYet
     ELSE /\ StoreToken("PUNCTUATOR", taken, t)
          /\ partial' = SubSeq(longer, Len(taken) + 1, Len(longer))
          /\ notDoneYet' = TRUE

GiveBack ==
  LET shorter == SubSeq(partial, 1, Len(partial) - 1) IN
  /\ at = "punctuator" /\ partial \notin Punctuators \union OpenEnded
  /\ partial' = shorter
  /\ StoreToken("PUNCTUATOR", curword \o shorter, Rewind(tracker))
  /\ UNCHANGED <<notDoneYet, tmpPos>>

-----------------------------------------------------------------------------
SkipText ==
  ReachEnd \/ StartBlank \/ ConsumeWhitespace \/ StartComment
    \/ ConsumeLineComment \/ ConsumeBlockComment

ReadWord   == ConsumeIdent \/ ConsumeDecimal
ReadQuoted == ConsumeQuoted \/ ConsumeHex \/ ConsumeOctal
ReadPunctuator ==
  ResumePunctuator \/ MatchPunctuator \/ ReadAhead \/ GiveBack

LexerStep == SkipText \/ StartToken \/ ReadWord \/ ReadQuoted \/ ReadPunctuator
=============================================================================
