------------------------------ MODULE MCDriver ------------------------------
(***************************************************************************)
(* The texts are all words up to a length over small alphabets, each of    *)
(* which brings together the characters that one part of the lexer tells   *)
(* apart.                                                                  *)
(***************************************************************************)
EXTENDS Driver

MCCharacters == {".", "%", ":", "=", "/", "*", "'", "\"", "\\", "+", "_", " ", LF, CR,
                 "0", "7", "9", "a", "d", "o", "x"}

Words(alphabet, length) == UNION {[1 .. n -> alphabet] : n \in 0 .. length}

PunctuatorTexts == Words({".", "%", ":", "=", "a"}, 5)
CommentTexts    == Words({"/", "*", LF, CR, "a"}, 5)
QuotedTexts     == {<<q>> \o w : q \in Quotes, w \in Words({"'", "\"", "\\", "x", "7", LF}, 4)}
WordTexts       == Words({"d", "o", "_", "0", "9", " "}, 4)
LineTexts       == Words({CR, LF, " ", "+", "\""}, 5)

(* The end of the file in the digits of an escape, see README. *)
EndsInDigits(s) ==
  \E i \in 1 .. Len(s) :
    /\ Char(s, i) = "\\" /\ ~IsEscaped(s, i) /\ i < Len(s)
    /\ \/ AllIn(s, i + 1, OctalDigits)
       \/ Char(s, i + 1) = "x" /\ AllIn(s, i + 2, HexDigits)

Texts == {s \in PunctuatorTexts \union CommentTexts \union QuotedTexts
                  \union WordTexts \union LineTexts : ~EndsInDigits(s)}

File(s) == [text |-> s, opens |-> TRUE]
NoFile  == [text |-> <<>>, opens |-> FALSE]

CommandLine(mode, unknown, files) ==
  [mode |-> mode, unknown |-> unknown, files |-> files]

OneFile   == {CommandLine("tokenize", 0, <<File(s)>>) : s \in Texts}
SomeFiles == {NoFile} \union {File(s) : s \in
  {<<"a", ".", ".", "a">>, <<"%", ":", "%">>, <<"'">>, <<".", " ", ".">>}}
ManyFiles ==
  {CommandLine(m, n, fs) : m \in {"tokenize", "parse"}, n \in {0, 1},
     fs \in {<<>>} \union {<<f>> : f \in SomeFiles} \union SomeFiles \X SomeFiles
              \union {<<f, g, NoFile>> : f \in SomeFiles, g \in SomeFiles}}

MCCommandLines == OneFile \union ManyFiles
=============================================================================
