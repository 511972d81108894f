---------------------------- MODULE FileTracker ----------------------------
(***************************************************************************)
(* FileTracker of lexer.cc: the character just read, what is left of the   *)
(* file behind it, and the position.  A tracker is a record, `advance' and *)
(* `rewind' are functions of it; advance fails at the end of the file and  *)
(* leaves everything as it is.  A text is a sequence of characters.        *)
(***************************************************************************)
EXTENDS Integers, Sequences

CONSTANT Characters   \* what files consist of

LF == "\n"
CR == "\r"

NoCharacter == ""

ASSUME CharactersAssumption == LF \in Characters /\ NoCharacter \notin Characters

Position(line, column) == [line |-> line, column |-> column]

NewTracker(text) ==
  [stream |-> text, current |-> NoCharacter, lastChar |-> NoCharacter,
   lastColumn |-> 0, position |-> Position(1, 0), stored |-> Position(0, 0)]

AtEnd(t) == t.stream = <<>>

(* What advance takes from the stream: all three line ends are one         *)
(* character, and that is a line feed.                                     *)
IsWindowsEnd(s) == Head(s) = CR /\ Len(s) > 1 /\ Head(Tail(s)) = LF

(* Mutant: the line feed of a Windows line end is left in the stream. *)
Remainder_CrOnly(s) == Tail(s)

Remainder(s)    == IF IsWindowsEnd(s) THEN Tail(Tail(s)) ELSE Tail(s)
Character(s)    == IF Head(s) = CR THEN LF ELSE Head(s)

Read(t) ==
  LET c == Character(t.stream) IN
  [t EXCEPT !.stream = Remainder(@), !.current = c, !.lastChar = t.current,
            !.lastColumn = t.position.column,
            !.position = IF c = LF THEN Position(@.line + 1, 0)
                                   ELSE Position(@.line, @.column + 1)]

Advance(t) == IF AtEnd(t) THEN t ELSE Read(t)

(* The character goes back to the stream; the stream takes any number.     *)
Rewind(t) ==
  [t EXCEPT !.stream = <<t.current>> \o @, !.current = t.lastChar,
            !.position = IF t.current = LF
                         THEN Position(@.line - 1, t.lastColumn)
                         ELSE Position(@.line, @.column - 1)]

StorePosition(t, pos) == [t EXCEPT !.stored = pos]
=============================================================================
