------------------------------- MODULE Driver -------------------------------
(***************************************************************************)
(* main.cc and diagnostic.cc: the options, then one file after the other.  *)
(* With --tokenize a file is read by the lexer until its end; otherwise by *)
(* the parser, which uses the lexer and may refuse what it has read at any *)
(* token (or, at the end, the code generator may).  The handler of         *)
(* exceptions is outside the loop over the files.                          *)
(***************************************************************************)
EXTENDS Tokenization

CONSTANTS
  CommandLines   \* [mode, unknown, files]: number of unknown options and
                 \* the files; a file has a text and may not open

ASSUME CommandLinesAssumption ==
  CommandLines \subseteq
    [mode : {"tokenize", "parse"}, unknown : Nat,
     files : Seq([text : Seq(Characters), opens : BOOLEAN])]

VARIABLES
  command,     \* the command line
  stage,       \* "options", "files", "reading", "summary", "exited"
  text,        \* history: the file being read, with Unix line ends
  file,        \* number of files taken from the command line
  outcomes,    \* history: what became of each of them
  nErrors,     \* diagnostic.cc
  newErrors,
  exitStatus

driverVars == <<command, stage, text, file, outcomes, nErrors, newErrors, exitStatus>>
vars == <<lexerVars, driverVars>>

NoExit == 2

DriverInit ==
  /\ command \in CommandLines
  /\ stage = "options" /\ text = <<>> /\ file = 0 /\ outcomes = <<>>
  /\ nErrors = 0 /\ newErrors = FALSE /\ exitStatus = NoExit
  /\ tracker = NewTracker(<<>>) /\ curword = <<>> /\ at = "idle" /\ tokens = <<>>
  /\ partial = <<>> /\ notDoneYet = FALSE /\ tmpPos = Position(0, 0)

(* errorf, called n times. *)
Report(n) == nErrors' = nErrors + n

(* Every unknown option is reported, and a missing file; hasNewErrors      *)
(* tells of them and forgets them.                                         *)
ReadOptions ==
  LET errors == command.unknown + (IF command.files = <<>> THEN 1 ELSE 0) IN
  /\ stage = "options"
  /\ Report(errors)
  /\ newErrors' = FALSE
  /\ stage' = IF errors = 0 THEN "files" ELSE "summary"
  /\ UNCHANGED <<lexerVars, command, text, file, outcomes, exitStatus>>

NextFile == command.files[file + 1]
FilesLeft == stage = "files" /\ file < Len(command.files)

OpenFails ==
  /\ FilesLeft /\ ~NextFile.opens
  /\ Report(1)
  /\ newErrors' = FALSE
  /\ file' = file + 1
  /\ outcomes' = Append(outcomes, "unopened")
  /\ UNCHANGED <<lexerVars, command, stage, text, exitStatus>>

OpenFile ==
  /\ FilesLeft /\ NextFile.opens
  /\ NewLexer(NextFile.text)
  /\ text' = UnixText(NextFile.text)
  /\ file' = file + 1
  /\ stage' = "reading"
  /\ UNCHANGED <<statics, command, outcomes, nErrors, newErrors, exitStatus>>

ReadFile == stage = "reading" /\ LexerStep /\ UNCHANGED driverVars

CloseFile ==
  /\ stage = "reading" /\ at = "end"
  /\ outcomes' = Append(outcomes, "read")
  /\ stage' = "files"
  /\ UNCHANGED <<lexerVars, command, text, file, nErrors, newErrors, exitStatus>>

Failing ==
  \/ at = "failed"
  \/ command.mode # "tokenize" /\ (at = "end" \/ (at = "idle" /\ tokens # <<>>))

(* Mutant: the handler is inside the loop. *)
Catch_InLoop ==
  /\ stage = "reading" /\ Failing
  /\ Report(1)
  /\ newErrors' = TRUE
  /\ outcomes' = Append(outcomes, "refused")
  /\ stage' = "files"
  /\ UNCHANGED <<lexerVars, command, text, file, exitStatus>>

(* Mutant: the exception is printed without errorf. *)
Catch_Unreported ==
  /\ stage = "reading" /\ Failing
  /\ outcomes' = Append(outcomes, "refused")
  /\ stage' = "summary"
  /\ UNCHANGED <<lexerVars, command, text, file, nErrors, newErrors, exitStatus>>

Catch ==
  /\ stage = "reading" /\ Failing
  /\ Report(1)
  /\ newErrors' = TRUE
  /\ outcomes' = Append(outcomes, "refused")
  /\ stage' = "summary"
  /\ UNCHANGED <<lexerVars, command, text, file, exitStatus>>

AllFilesTaken ==
  /\ stage = "files" /\ file = Len(command.files)
  /\ stage' = "summary"
  /\ UNCHANGED <<lexerVars, command, text, file, outcomes, nErrors, newErrors, exitStatus>>

PrintDiagnosticSummary ==
  /\ stage = "summary"
  /\ exitStatus' = IF nErrors # 0 THEN 1 ELSE 0
  /\ stage' = "exited"
  /\ UNCHANGED <<lexerVars, command, text, file, outcomes, nErrors, newErrors>>

DriverNext ==
  ReadOptions \/ OpenFails \/ OpenFile \/ ReadFile \/ CloseFile \/ Catch
    \/ AllFilesTaken \/ PrintDiagnosticSummary

(* One thread: the program takes its next step. *)
DriverSpec == DriverInit /\ [][DriverNext]_vars /\ WF_vars(DriverNext)

-----------------------------------------------------------------------------
(* The tokens as parts of the text. *)
Starts(token)  == {i \in 1 .. Len(text) : PositionOf(text, i) = token.pos}
StartOf(token) == CHOOSE i \in Starts(token) : TRUE
EndOf(token)   == StartOf(token) + Len(token.value) - 1
EndOfTokens    == IF tokens = <<>> THEN 0 ELSE EndOf(tokens[Len(tokens)])

(* Every token stands in the file where its position says, whatever was    *)
(* read ahead and given back, over line ends of any kind: one pushed-back  *)
(* character, the previous column and a stored position have to agree      *)
(* (FileTracker::advance and rewind).                                      *)
TokensStandWhereTheySay ==
  \A k \in DOMAIN tokens :
    /\ Starts(tokens[k]) # {}
    /\ Part(text, StartOf(tokens[k]), EndOf(tokens[k])) = tokens[k].value

(* No token could have been longer, although `%:%:' and `...' cannot be    *)
(* reached through punctuators only and half a token may be kept between   *)
(* two calls (consumePunctuator).                                          *)
MaximalMunch ==
  \A k \in DOMAIN tokens :
    LET i == StartOf(tokens[k]) IN
    /\ IsToken(tokens[k].value) /\ ~StartsComment(text, i)
    /\ \A j \in EndOf(tokens[k]) + 1 .. Len(text) : ~IsToken(SubSeq(text, i, j))

(* Between two tokens, before the first and, at the end, behind the last   *)
(* there are only white space and comments: no character gets lost in a    *)
(* read-ahead (consumeWhitespace, consumeComment, rewind).                 *)
OnlyBlanksSkipped ==
  /\ \A k \in DOMAIN tokens :
       IsBlankText(SubSeq(text, (IF k = 1 THEN 0 ELSE EndOf(tokens[k - 1])) + 1,
                          StartOf(tokens[k]) - 1))
  /\ at = "end" => IsBlankText(SubSeq(text, EndOfTokens + 1, Len(text)))

(* The lexer refuses a file only where no token can be read: a loop that   *)
(* leaves too early or too late would refuse legal text (every throw of    *)
(* lexer.cc).                                                              *)
RefusedTextIsIllegal ==
  at = "failed" =>
    \E i \in EndOfTokens + 1 .. Len(text) :
      /\ IsBlankText(SubSeq(text, EndOfTokens + 1, i - 1))
      /\ IllegalAt(text, i)

(* The half token that is kept in static variables never reaches the next  *)
(* file, although a parser may stop at any token (lexer.cc:15, main.cc:126).*)
NothingKeptBetweenFiles == stage = "files" => ~notDoneYet

(* The exit status is 0 only if every file was read to its end, and never  *)
(* 1 for that: of the ways an error is reported (errorf, exceptions) none  *)
(* is forgotten, although newErrors is reset and the files behind a        *)
(* refused one are not looked at (main.cc:126, diagnostic.cc:34).          *)
ExitStatusTellsFailure ==
  stage = "exited" =>
    (exitStatus = 0 <=>
       /\ command.unknown = 0 /\ command.files # <<>>
       /\ Len(outcomes) = Len(command.files)
       /\ \A k \in DOMAIN outcomes : outcomes[k] = "read")

(* The compiler ends, whatever the files hold: each loop over characters   *)
(* takes notice of the end of the file, except for those over the digits   *)
(* of an escape (lexer.cc:216, :240).                                      *)
ProgramEnds == <>(stage = "exited")
=============================================================================
