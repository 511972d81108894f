---------------------------- MODULE DriverProofs ----------------------------
(***************************************************************************)
(* What the driver and the lexer promise for every command line and all    *)
(* files: the exit status, that no half token is carried from one file to  *)
(* the next, and that the tokens of a file are what its text says.         *)
(*                                                                         *)
(* The last four theorems rest on LexInv: the tracker has given the first  *)
(* n characters of the text (Tracked), each token stands where it says, is *)
(* as long as can be and follows the one before it over white space and    *)
(* comments only (TokensIn), and each loop of the lexer is in the middle   *)
(* of something that starts where the last token and such a gap end        *)
(* (Place).  The lemmas before it say how the texts, the positions and the *)
(* tokens behave from one character to the next.                           *)
(***************************************************************************)
EXTENDS Driver, WellFoundedInduction, FiniteSetTheorems, TLAPS

Outcomes == {"read", "refused", "unopened"}
Failed   == \E k \in DOMAIN outcomes : outcomes[k] # "read"

(* While files are read nothing is wrong with the command line, and there  *)
(* is an outcome for each file taken, except for the one being read.       *)
Bookkeeping ==
  /\ command \in CommandLines
  /\ nErrors \in Nat
  /\ outcomes \in Seq(Outcomes)
  /\ file \in 0 .. Len(command.files)
  /\ stage = "options" => nErrors = 0 /\ outcomes = <<>> /\ file = 0
  /\ stage \in {"files", "reading"} => command.unknown = 0 /\ command.files # <<>>
  /\ stage = "files" => Len(outcomes) = file
  /\ stage = "reading" => Len(outcomes) + 1 = file

(* There is an error just if something failed. *)
ErrorsCounted ==
  /\ nErrors # 0 => command.unknown # 0 \/ command.files = <<>> \/ Failed
  /\ nErrors = 0 => ~Failed
  /\ stage \in {"summary", "exited"} /\ nErrors = 0 =>
       /\ command.unknown = 0 /\ command.files # <<>>
       /\ Len(outcomes) = Len(command.files)
  /\ stage = "exited" => exitStatus = IF nErrors # 0 THEN 1 ELSE 0

CountInv == Bookkeeping /\ ErrorsCounted

(* The invariant holds at the start ... *)
LEMMA CountInit == DriverInit => CountInv
  <1> SUFFICES ASSUME DriverInit PROVE CountInv
    OBVIOUS
  <1>1. /\ command \in CommandLines /\ stage = "options" /\ nErrors = 0
        /\ outcomes = <<>> /\ file = 0
    BY DEF DriverInit
  <1>2. Len(command.files) \in Nat
    BY <1>1, CommandLinesAssumption
  <1>3. ~Failed
    BY <1>1 DEF Failed
  <1> QED
    BY <1>1, <1>2, <1>3 DEF CountInv, Bookkeeping, ErrorsCounted

(* ... reading the options counts each unknown one, and a missing file ... *)
LEMMA OptionsCount == CountInv /\ ReadOptions => CountInv'
  <1> SUFFICES ASSUME CountInv, ReadOptions PROVE CountInv'
    OBVIOUS
  <1>1. command.unknown \in Nat /\ command \in CommandLines
    BY CommandLinesAssumption DEF CountInv, Bookkeeping
  <1>2. /\ nErrors' = command.unknown + (IF command.files = <<>> THEN 1 ELSE 0)
        /\ UNCHANGED <<command, outcomes, file>>
        /\ stage' = IF nErrors' = 0 THEN "files" ELSE "summary"
        /\ outcomes = <<>> /\ file = 0 /\ Len(command.files) \in Nat
    BY <1>1, CommandLinesAssumption DEF CountInv, Bookkeeping, ReadOptions, Report
  <1> QED
    BY <1>1, <1>2 DEF CountInv, Bookkeeping, ErrorsCounted, Failed

(* What is appended to the outcomes, and what fails then. *)
LEMMA OutcomeAppended ==
  ASSUME NEW s \in Seq(Outcomes), NEW o \in Outcomes
  PROVE  /\ Append(s, o) \in Seq(Outcomes)
         /\ Len(Append(s, o)) = Len(s) + 1
         /\ (\E k \in DOMAIN Append(s, o) : Append(s, o)[k] # "read")
              <=> o # "read" \/ \E k \in DOMAIN s : s[k] # "read"
  <1>1. /\ DOMAIN Append(s, o) = 1 .. Len(s) + 1 /\ DOMAIN s = 1 .. Len(s)
        /\ Len(s) \in Nat /\ Append(s, o)[Len(s) + 1] = o
        /\ \A k \in 1 .. Len(s) : Append(s, o)[k] = s[k]
    OBVIOUS
  <1>2. \A k \in 1 .. Len(s) + 1 : k \in 1 .. Len(s) \/ k = Len(s) + 1
    BY <1>1
  <1> QED
    BY <1>1, <1>2

(* ... opening, closing and failing to read a file leave one outcome for it *)
(* ...                                                                      *)
LEMMA FilesCount ==
  CountInv /\ (OpenFails \/ OpenFile \/ CloseFile \/ Catch \/ AllFilesTaken) => CountInv'
  <1> SUFFICES ASSUME CountInv, OpenFails \/ OpenFile \/ CloseFile \/ Catch \/ AllFilesTaken
               PROVE  CountInv'
    OBVIOUS
  <1> USE DEF CountInv, Bookkeeping
  <1>0. Len(command.files) \in Nat
    BY CommandLinesAssumption
  <1>1. CASE OpenFails
    <2>1. /\ file + 1 \in 0 .. Len(command.files) /\ nErrors + 1 \in Nat \ {0}
          /\ stage = "files"
      BY <1>0, <1>1 DEF OpenFails, FilesLeft
    <2> QED
      BY <1>1, <2>1, OutcomeAppended
      DEF OpenFails, Report, ErrorsCounted, Failed, Outcomes
  <1>2. CASE OpenFile
    <2>1. file + 1 \in 0 .. Len(command.files) /\ stage = "files"
      BY <1>0, <1>2 DEF OpenFile, FilesLeft
    <2> QED
      BY <1>2, <2>1 DEF OpenFile, ErrorsCounted, Failed
  <1>3. CASE CloseFile
    BY <1>3, OutcomeAppended DEF CloseFile, ErrorsCounted, Failed, Outcomes
  <1>4. CASE Catch
    <2>1. nErrors + 1 \in Nat \ {0}
      OBVIOUS
    <2> QED
      BY <1>4, <2>1, OutcomeAppended DEF Catch, Report, ErrorsCounted, Failed, Outcomes
  <1>5. CASE AllFilesTaken
    BY <1>5 DEF AllFilesTaken, ErrorsCounted, Failed
  <1> QED
    BY <1>1, <1>2, <1>3, <1>4, <1>5

(* ... so every step keeps it ... *)
LEMMA CountStep == CountInv /\ [DriverNext]_vars => CountInv'
  <1> SUFFICES ASSUME CountInv, [DriverNext]_vars PROVE CountInv'
    OBVIOUS
  <1>1. CASE ReadFile \/ UNCHANGED vars
    BY <1>1 DEF ReadFile, vars, driverVars, CountInv, Bookkeeping, ErrorsCounted, Failed
  <1>2. CASE PrintDiagnosticSummary
    BY <1>2 DEF PrintDiagnosticSummary, CountInv, Bookkeeping, ErrorsCounted, Failed
  <1> QED
    BY <1>1, <1>2, OptionsCount, FilesCount DEF DriverNext

(* ... and it says what the exit status tells. *)
LEMMA CountDecides == CountInv => ExitStatusTellsFailure
  BY DEF CountInv, Bookkeeping, ErrorsCounted, ExitStatusTellsFailure, Failed

(* The exit status is 0 just if every file of the command line was read to *)
(* its end, for all command lines and all files.                           *)
THEOREM ExitStatusIsRight == DriverSpec => []ExitStatusTellsFailure
  BY CountInit, CountStep, CountDecides, PTL DEF DriverSpec

-----------------------------------------------------------------------------
(* A half token is kept only between two calls of getNextToken, and a file *)
(* that is read to its end leaves none.                                    *)
KeptInv ==
  /\ stage \in {"options", "files"} => ~notDoneYet
  /\ stage = "reading" /\ notDoneYet => at = "idle"

(* Nothing is kept at the start. *)
LEMMA KeptInit == DriverInit => KeptInv
  BY DEF DriverInit, KeptInv

(* No loop of the lexer is entered with a half token left. *)
LEMMA LexerKeeps ==
  ASSUME notDoneYet => at = "idle", LexerStep
  PROVE  (notDoneYet => at = "idle")'
  <1> USE DEF Goto, Skip, Extend, StoreToken, Throw, statics, Starting
  <1>1. CASE SkipText
    <2>1. CASE ReachEnd      BY <2>1 DEF ReachEnd
    <2>2. CASE StartBlank    BY <2>2 DEF StartBlank
    <2>3. CASE ConsumeWhitespace BY <2>3 DEF ConsumeWhitespace
    <2>4. CASE StartComment  BY <2>4 DEF StartComment
    <2>5. CASE ConsumeLineComment BY <2>5 DEF ConsumeLineComment
    <2>6. CASE ConsumeBlockComment BY <2>6 DEF ConsumeBlockComment
    <2> QED BY <1>1, <2>1, <2>2, <2>3, <2>4, <2>5, <2>6 DEF SkipText
  <1>2. CASE StartToken
    BY <1>2 DEF StartToken
  <1>3. CASE ReadWord
    BY <1>3 DEF ReadWord, ConsumeIdent, ConsumeDecimal
  <1>4. CASE ReadQuoted
    <2>1. CASE ConsumeQuoted
      BY <2>1 DEF ConsumeQuoted, ConsumeEscape, CloseQuote
    <2>2. CASE ConsumeHex \/ ConsumeOctal
      BY <2>2 DEF ConsumeHex, ConsumeOctal
    <2> QED BY <1>4, <2>1, <2>2 DEF ReadQuoted
  <1>5. CASE ReadPunctuator
    <2>1. CASE ResumePunctuator BY <2>1 DEF ResumePunctuator
    <2>2. CASE MatchPunctuator  BY <2>2 DEF MatchPunctuator
    <2>3. CASE ReadAhead        BY <2>3 DEF ReadAhead
    <2>4. CASE GiveBack         BY <2>4 DEF GiveBack
    <2> QED BY <1>5, <2>1, <2>2, <2>3, <2>4 DEF ReadPunctuator
  <1> QED
    BY <1>1, <1>2, <1>3, <1>4, <1>5 DEF LexerStep

(* No step of the driver keeps anything either. *)
LEMMA KeptStep == KeptInv /\ [DriverNext]_vars => KeptInv'
  <1> SUFFICES ASSUME KeptInv, [DriverNext]_vars PROVE KeptInv'
    OBVIOUS
  <1> USE DEF KeptInv
  <1>1. CASE UNCHANGED vars
    BY <1>1 DEF vars, driverVars, lexerVars, statics
  <1>2. CASE ReadFile
    BY <1>2, LexerKeeps DEF ReadFile, driverVars
  <1>3. CASE ReadOptions \/ OpenFails \/ AllFilesTaken \/ PrintDiagnosticSummary
    BY <1>3 DEF ReadOptions, OpenFails, FilesLeft, AllFilesTaken, PrintDiagnosticSummary,
                lexerVars, statics
  <1>4. CASE OpenFile
    BY <1>4 DEF OpenFile, FilesLeft, NewLexer, statics
  <1>5. CASE CloseFile
    BY <1>5 DEF CloseFile, lexerVars, statics
  <1>6. CASE Catch
    BY <1>6 DEF Catch
  <1> QED
    BY <1>1, <1>2, <1>3, <1>4, <1>5, <1>6 DEF DriverNext

(* The static variables that hold half a token are clear whenever a file   *)
(* is about to be opened.                                                  *)
THEOREM NoTokenCarriedOver == DriverSpec => []NothingKeptBetweenFiles
  <1>1. KeptInv => NothingKeptBetweenFiles
    BY DEF KeptInv, NothingKeptBetweenFiles
  <1> QED
    BY <1>1, KeptInit, KeptStep, PTL DEF DriverSpec

-----------------------------------------------------------------------------
(* The first character of a part, and the rest. *)
LEMMA SubSeqHead ==
  ASSUME NEW w \in Seq(Characters), NEW i \in 1 .. Len(w), NEW j \in i .. Len(w)
  PROVE  /\ Head(SubSeq(w, i, j)) = w[i]
         /\ Tail(SubSeq(w, i, j)) = SubSeq(w, i + 1, j)
         /\ SubSeq(w, i, j) # <<>>
         /\ <<w[i]>> \o SubSeq(w, i + 1, j) = SubSeq(w, i, j)
  OBVIOUS

(* A set of numbers has a least member. *)
LEMMA LeastNumber ==
  ASSUME NEW S \in SUBSET Nat, S # {}
  PROVE  \E m \in S : \A k \in S : m <= k
<1>1. PICK m \in S : \A k \in S : ~(<<k, m>> \in OpToRel(<, Nat))
  BY WFMin, NatLessThanWellFounded
<1>2. OpToRel(<, Nat) = {p \in Nat \X Nat : p[1] < p[2]}
  BY DEF OpToRel
<1>3. ASSUME NEW k \in S, k < m PROVE FALSE
  <2> DEFINE p == <<k, m>>
  <2>1. p \in Nat \X Nat /\ p[1] < p[2]
    BY <1>3
  <2> HIDE DEF p
  <2>2. p \in OpToRel(<, Nat)
    BY <1>2, <2>1
  <2> QED
    BY <1>1, <2>2 DEF p
<1> QED
  BY <1>3

-----------------------------------------------------------------------------
(* The recursion of UnixText ends: it goes on to the next character. *)
UnixStep(f, s, i) ==
  IF i = Len(s) + 1 THEN <<>>
  ELSE IF s[i] = CR /\ Char(s, i + 1) = LF THEN f[i + 1]
  ELSE <<IF s[i] = CR THEN LF ELSE s[i]>> \o f[i + 1]

UnixBehind(f, s, k) ==
  \A i \in 1 .. Len(s) + 1 : i >= k => f[i] = UnixStep(f, s, i)

(* There is a function that does it from any character on. *)
LEMMA UnixExists ==
  ASSUME NEW s \in Seq(Characters)
  PROVE  \E f : f = [i \in 1 .. Len(s) + 1 |-> f[i]] /\ UnixBehind(f, s, 1)
<1> DEFINE L == Len(s)
           P(f, m) == f = [i \in 1 .. L + 1 |-> f[i]] /\ UnixBehind(f, s, L + 2 - m)
           S == {m \in 0 .. L + 1 : ~\E f : P(f, m)}
<1>0. L \in Nat
  OBVIOUS
<1>1. SUFFICES ASSUME S # {} PROVE FALSE
  <2>1. L + 1 \in 0 .. L + 1 /\ L + 2 - (L + 1) = 1
    BY <1>0
  <2>2. S = {} => \E f : P(f, L + 1)
    BY <2>1
  <2> QED
    BY <2>1, <2>2
<1>2. PICK m \in S : \A k \in S : m <= k
  <2>1. S \in SUBSET Nat
    BY <1>0
  <2> HIDE DEF S
  <2> QED
    BY <1>1, <2>1, LeastNumber
<1>3. m # 0
  <2> DEFINE f == [i \in 1 .. L + 1 |-> <<>>]
  <2>1. UnixBehind(f, s, L + 2)
    BY <1>0 DEF UnixBehind
  <2>2. f = [i \in 1 .. L + 1 |-> f[i]]
    OBVIOUS
  <2>3. \E g : P(g, 0)
    BY <1>0, <2>1, <2>2
  <2> QED
    BY <2>3
<1>4. m \in 1 .. L + 1 /\ m - 1 \in 0 .. L + 1 /\ m - 1 \notin S
  BY <1>0, <1>2, <1>3
<1>5. PICK f : P(f, m - 1)
  BY <1>4
<1> DEFINE k == L + 2 - m
           e == UnixStep(f, s, k)
           g == [i \in 1 .. L + 1 |-> IF i = k THEN e ELSE f[i]]
<1>6. k \in 1 .. L + 1 /\ L + 2 - (m - 1) = k + 1
  BY <1>0, <1>4
<1>8. \A i \in 1 .. L + 1 : i > k => g[i] = f[i]
  BY <1>6
<1>9. g[k] = e
  BY <1>6
<1>10. ASSUME NEW i \in 1 .. L + 1, i >= k PROVE g[i] = UnixStep(g, s, i)
  <2> HIDE DEF g, e
  <2>1. i # L + 1 => i + 1 \in 1 .. L + 1 /\ i + 1 > k
    BY <1>0, <1>6, <1>10
  <2>2. i # L + 1 => g[i + 1] = f[i + 1]
    BY <1>8, <2>1
  <2>3. UnixStep(g, s, i) = UnixStep(f, s, i)
    BY <2>2 DEF UnixStep
  <2>4. CASE i = k
    BY <1>9, <2>3, <2>4 DEF e
  <2>5. CASE i # k
    <3>1. i >= k + 1 /\ i > k
      BY <1>6, <1>10, <2>5
    <3>2. f[i] = UnixStep(f, s, i)
      BY <1>5, <1>6, <3>1 DEF UnixBehind
    <3> QED
      BY <1>8, <2>3, <3>1, <3>2
  <2> QED
    BY <2>4, <2>5
<1>11. UnixBehind(g, s, k)
  <2> HIDE DEF g, k
  <2> QED
    BY <1>10 DEF UnixBehind
<1>12. g = [i \in 1 .. L + 1 |-> g[i]]
  OBVIOUS
<1>13. P(g, m)
  BY <1>11, <1>12
<1> QED
  BY <1>2, <1>13

UnixCharacters == Characters \ {CR}

(* What such a function yields are texts. *)
LEMMA UnixTyped ==
  ASSUME NEW s \in Seq(Characters), NEW f, \A i \in 1 .. Len(s) + 1 : f[i] = UnixStep(f, s, i)
  PROVE  \A i \in 1 .. Len(s) + 1 : f[i] \in Seq(UnixCharacters)
<1> DEFINE L == Len(s)
           S == {m \in 0 .. L : f[L + 1 - m] \notin Seq(UnixCharacters)}
<1>0. L \in Nat
  OBVIOUS
<1>1. ASSUME S # {} PROVE FALSE
  <2>1. S \in SUBSET Nat
    BY <1>0
  <2>2. PICK m \in S : \A k \in S : m <= k
    <3> HIDE DEF S
    <3> QED
      BY <1>1, <2>1, LeastNumber
  <2> DEFINE i == L + 1 - m
  <2>3. m \in 0 .. L /\ i \in 1 .. L + 1 /\ f[i] \notin Seq(UnixCharacters)
    BY <1>0
  <2>4. f[i] = UnixStep(f, s, i)
    BY <2>3
  <2>5. CASE m = 0
    BY <1>0, <2>3, <2>4, <2>5 DEF UnixStep
  <2>6. CASE m # 0
    <3>0. m - 1 \in 0 .. L /\ L + 1 - (m - 1) = i + 1 /\ i \in 1 .. L /\ ~(m <= m - 1)
      BY <1>0, <2>3, <2>6
    <3>1. m - 1 \notin S
      BY <2>2, <3>0
    <3>2. f[i + 1] \in Seq(UnixCharacters)
      BY <3>0, <3>1
    <3>3. (IF s[i] = CR THEN LF ELSE s[i]) \in UnixCharacters
      BY <3>0, CharactersAssumption DEF UnixCharacters, LF, CR
    <3> HIDE DEF i
    <3> QED
      BY <2>3, <2>4, <3>0, <3>2, <3>3 DEF UnixStep
  <2> QED
    BY <2>5, <2>6
<1>2. \A i \in 1 .. L + 1 : L + 1 - i \in 0 .. L /\ L + 1 - (L + 1 - i) = i
  BY <1>0
<1> QED
  BY <1>1, <1>2

(* So UnixText is what its definition says. *)
LEMMA UnixDefined ==
  ASSUME NEW s \in Seq(Characters)
  PROVE  \E f : /\ UnixText(s) = f[1] /\ UnixBehind(f, s, 1)
               /\ \A i \in 1 .. Len(s) + 1 : f[i] \in Seq(UnixCharacters)
<1> DEFINE D == 1 .. Len(s) + 1
           F == CHOOSE f : f = [i \in D |-> UnixStep(f, s, i)]
<1>1. \E f : f = [i \in D |-> UnixStep(f, s, i)]
  <2>1. PICK f : f = [i \in D |-> f[i]] /\ UnixBehind(f, s, 1)
    BY UnixExists
  <2>2. \A i \in D : f[i] = UnixStep(f, s, i)
    BY <2>1 DEF UnixBehind
  <2>3. [i \in D |-> f[i]] = [i \in D |-> UnixStep(f, s, i)]
    BY <2>2
  <2> QED
    BY <2>1, <2>3
<1>2. F = [i \in D |-> UnixStep(F, s, i)]
  BY <1>1
<1>3. UnixText(s) = F[1]
  BY DEF UnixText, UnixStep
<1> HIDE DEF F
<1>4. \A i \in D : F[i] = UnixStep(F, s, i)
  BY <1>2
<1>5. \A i \in D : F[i] \in Seq(UnixCharacters)
  BY <1>4, UnixTyped
<1> QED
  BY <1>3, <1>4, <1>5 DEF UnixBehind

(* Who reads on from the second character reads the same, but for the first *)
(* one.                                                                     *)
LEMMA UnixShift ==
  ASSUME NEW s \in Seq(Characters), s # <<>>,
         NEW f, UnixBehind(f, s, 1), NEW g, UnixBehind(g, Tail(s), 1)
  PROVE  g[1] = f[2]
<1> DEFINE t == Tail(s)
           L == Len(t)
           S == {m \in 0 .. L : g[L + 1 - m] # f[L + 2 - m]}
<1>0. /\ L \in Nat /\ Len(s) = L + 1
      /\ t \in Seq(Characters) /\ \A i \in 1 .. L : t[i] = s[i + 1]
      /\ DOMAIN t = 1 .. L /\ DOMAIN s = 1 .. L + 1
  OBVIOUS
<1>1. ASSUME S # {} PROVE FALSE
  <2>1. S \in SUBSET Nat
    BY <1>0
  <2>2. PICK m \in S : \A k \in S : m <= k
    <3> HIDE DEF S
    <3> QED
      BY <1>1, <2>1, LeastNumber
  <2> DEFINE i == L + 1 - m
  <2>3. m \in 0 .. L /\ i \in 1 .. L + 1 /\ g[i] # f[i + 1] /\ i + 1 \in 1 .. L + 2
    BY <1>0
  <2> HIDE DEF t, L
  <2>4. g[i] = UnixStep(g, t, i) /\ f[i + 1] = UnixStep(f, s, i + 1)
    BY <1>0, <2>3 DEF UnixBehind, t
  <2>5. CASE m = 0
    BY <1>0, <2>3, <2>4, <2>5 DEF UnixStep
  <2>6. CASE m # 0
    <3>0. m - 1 \in 0 .. L /\ L + 1 - (m - 1) = i + 1 /\ i \in 1 .. L /\ ~(m <= m - 1)
          /\ L + 2 - (m - 1) = i + 2
      BY <1>0, <2>3, <2>6
    <3>1. m - 1 \notin S
      BY <2>2, <3>0
    <3>2. g[i + 1] = f[i + 2]
      BY <3>0, <3>1
    <3> HIDE DEF i
    <3>3. Char(t, i + 1) = Char(s, i + 2)
      <4>1. i + 1 \in 1 .. L <=> i + 2 \in 1 .. L + 1
        BY <1>0, <3>0
      <4>2. i + 1 \in 1 .. L => t[i + 1] = s[i + 2]
        <5>1. (i + 1) + 1 = i + 2
          BY <3>0
        <5> QED
          BY <1>0, <5>1
      <4> QED
        BY <1>0, <4>1, <4>2 DEF Char
    <3>4. t[i] = s[i + 1] /\ i # L + 1 /\ i + 1 # L + 2 /\ (i + 1) + 1 = i + 2
      BY <1>0, <3>0
    <3> QED
      BY <1>0, <2>3, <2>4, <3>2, <3>3, <3>4, SMTT(40) DEF UnixStep
  <2> QED
    BY <2>5, <2>6
<1> HIDE DEF L
<1>2. L \in 0 .. L /\ L + 1 - L = 1 /\ L + 2 - L = 2
  BY <1>0
<1> QED
  BY <1>1, <1>2

(* The Unix text of a file: nothing, or what advance makes of its start,   *)
(* and then that of the rest.                                              *)
LEMMA UnixRead ==
  ASSUME NEW s \in Seq(Characters)
  PROVE  /\ UnixText(s) \in Seq(UnixCharacters)
         /\ s = <<>> => UnixText(s) = <<>>
         /\ s # <<>> => UnixText(s) = IF Head(s) = CR /\ Char(s, 2) = LF THEN UnixText(Tail(s))
                                      ELSE <<Character(s)>> \o UnixText(Tail(s))
<1>1. PICK f : /\ UnixText(s) = f[1] /\ UnixBehind(f, s, 1)
               /\ \A i \in 1 .. Len(s) + 1 : f[i] \in Seq(UnixCharacters)
  BY UnixDefined
<1>2. 1 \in 1 .. Len(s) + 1
  OBVIOUS
<1>3. f[1] \in Seq(UnixCharacters) /\ f[1] = UnixStep(f, s, 1)
  BY <1>1, <1>2 DEF UnixBehind
<1>4. s = <<>> => UnixText(s) = <<>>
  BY <1>1, <1>3 DEF UnixStep
<1>5. ASSUME s # <<>>
      PROVE  UnixText(s) = IF Head(s) = CR /\ Char(s, 2) = LF THEN UnixText(Tail(s))
                           ELSE <<Character(s)>> \o UnixText(Tail(s))
  <2>1. Tail(s) \in Seq(Characters) /\ Len(s) >= 1 /\ Head(s) = s[1] /\ 1 # Len(s) + 1
    BY <1>5
  <2>2. PICK g : UnixText(Tail(s)) = g[1] /\ UnixBehind(g, Tail(s), 1)
    BY <2>1, UnixDefined
  <2>3. g[1] = f[2]
    BY <1>1, <1>5, <2>2, UnixShift
  <2> QED
    BY <1>1, <1>3, <2>1, <2>2, <2>3 DEF UnixStep, Character
<1> QED
  BY <1>1, <1>3, <1>4, <1>5

(* What advance takes away, and what it makes of it. *)
LEMMA UnixAdvance ==
  ASSUME NEW s \in Seq(Characters), s # <<>>
  PROVE  /\ Remainder(s) \in Seq(Characters)
         /\ UnixText(s) = <<Character(s)>> \o UnixText(Remainder(s))
<1>0. /\ Tail(s) \in Seq(Characters) /\ DOMAIN s = 1 .. Len(s) /\ Len(s) \in Nat \ {0}
      /\ Len(Tail(s)) = Len(s) - 1 /\ Head(s) = s[1]
      /\ Len(s) > 1 => Tail(s)[1] = s[2]
  OBVIOUS
<1>1. Len(s) > 1 => Tail(s) # <<>> /\ Head(Tail(s)) = s[2] /\ Tail(Tail(s)) \in Seq(Characters)
  <2> DEFINE t == Tail(s)
  <2>1. t \in Seq(Characters) /\ Len(t) = Len(s) - 1 /\ (Len(s) > 1 => t[1] = s[2])
    BY <1>0
  <2> HIDE DEF t
  <2>2. Len(s) > 1 => t # <<>> /\ Head(t) = s[2] /\ Tail(t) \in Seq(Characters)
    BY <1>0, <2>1
  <2> QED
    BY <2>2 DEF t
<1>2. IsWindowsEnd(s) <=> Head(s) = CR /\ Char(s, 2) = LF
  BY <1>0, <1>1 DEF IsWindowsEnd, Char, LF, NoCharacter
<1>3. CASE IsWindowsEnd(s)
  <2> DEFINE t == Tail(s)
  <2>1. t \in Seq(Characters) /\ t # <<>> /\ Head(t) = LF /\ Len(s) > 1
    BY <1>0, <1>1, <1>3 DEF IsWindowsEnd
  <2>2. Remainder(s) = Tail(t) /\ Character(s) = LF
    BY <1>3 DEF Remainder, Character, IsWindowsEnd
  <2>3. UnixText(s) = UnixText(t)
    BY <1>2, <1>3, UnixRead
  <2> HIDE DEF t
  <2>4. UnixText(t) = <<Character(t)>> \o UnixText(Tail(t))
    BY <2>1, UnixRead DEF LF, CR
  <2>5. Character(t) = LF
    BY <2>1 DEF Character, LF, CR
  <2> QED
    BY <1>0, <1>1, <2>1, <2>2, <2>3, <2>4, <2>5 DEF t
<1>4. CASE ~IsWindowsEnd(s)
  <2>1. Remainder(s) = Tail(s)
    BY <1>4 DEF Remainder
  <2> QED
    BY <1>0, <1>1, <1>2, <1>4, <2>1, UnixRead
<1> QED
  BY <1>3, <1>4
-----------------------------------------------------------------------------
(* Positions.  Ends(w, n) are the line ends among the first n characters of *)
(* w, and LastEnd(w, n) is the last of them.                                *)
Ends(w, n)    == {j \in 1 .. n : w[j] = LF}
LastOf(S)     == IF S = {} THEN 0 ELSE CHOOSE j \in S : \A k \in S : k <= j
LastEnd(w, n) == LastOf(Ends(w, n))
Here(w, n)    == Position(1 + Cardinality(Ends(w, n)), n - LastEnd(w, n))

(* There is a last line end. *)
LEMMA LastEndIs ==
  ASSUME NEW w, NEW n \in Nat
  PROVE  /\ LastEnd(w, n) \in 0 .. n
         /\ LastEnd(w, n) # 0 => w[LastEnd(w, n)] = LF
         /\ \A j \in 1 .. n : j > LastEnd(w, n) => w[j] # LF
<1>1. CASE Ends(w, n) = {}
  BY <1>1 DEF LastEnd, LastOf, Ends
<1>2. CASE Ends(w, n) # {}
  <2> DEFINE S == {n - j : j \in Ends(w, n)}
  <2>1. S \in SUBSET Nat /\ S # {}
    BY <1>2 DEF Ends
  <2> HIDE DEF S
  <2>2. PICK m \in S : \A k \in S : m <= k
    BY <2>1, LeastNumber
  <2>3. PICK l \in Ends(w, n) : m = n - l
    BY <2>2 DEF S
  <2>4. \A k \in Ends(w, n) : k <= l
    <3>1. SUFFICES ASSUME NEW k \in Ends(w, n) PROVE k <= l
      OBVIOUS
    <3>2. n - k \in S
      BY DEF S
    <3>3. n - l <= n - k
      BY <2>2, <2>3, <3>2
    <3>4. k \in Int /\ l \in Int
      BY DEF Ends
    <3> QED
      BY <3>3, <3>4
  <2>5. /\ LastEnd(w, n) \in Ends(w, n)
        /\ \A k \in Ends(w, n) : k <= LastEnd(w, n)
    BY <1>2, <2>4 DEF LastEnd, LastOf
  <2> QED
    BY <2>5 DEF Ends
<1> QED
  BY <1>1, <1>2

(* That says which it is. *)
LEMMA LastEndUnique ==
  ASSUME NEW w, NEW n \in Nat, NEW l \in 0 .. n,
         l # 0 => w[l] = LF,
         \A j \in 1 .. n : j > l => w[j] # LF
  PROVE  LastEnd(w, n) = l
<1>1. /\ LastEnd(w, n) \in 0 .. n
      /\ LastEnd(w, n) # 0 => w[LastEnd(w, n)] = LF
      /\ \A j \in 1 .. n : j > LastEnd(w, n) => w[j] # LF
  BY LastEndIs
<1>2. ~(LastEnd(w, n) > l) /\ ~(l > LastEnd(w, n))
  BY <1>1
<1> QED
  BY <1>1, <1>2

(* Line ends are finitely many, and one character more is one more or none. *)
LEMMA EndsCounted ==
  ASSUME NEW w, NEW n \in Nat
  PROVE  /\ IsFiniteSet(Ends(w, n)) /\ Cardinality(Ends(w, n)) \in Nat
         /\ Ends(w, n + 1) = IF w[n + 1] = LF THEN Ends(w, n) \cup {n + 1} ELSE Ends(w, n)
         /\ n + 1 \notin Ends(w, n)
<1>1. IsFiniteSet(1 .. n) /\ Ends(w, n) \in SUBSET (1 .. n)
  BY FS_Interval DEF Ends
<1>2. IsFiniteSet(Ends(w, n))
  BY <1>1, FS_Subset
<1>3. \A j : j \in 1 .. n + 1 <=> j \in 1 .. n \/ j = n + 1
  OBVIOUS
<1> QED
  BY <1>2, <1>3, FS_CardinalityType DEF Ends

(* How reading a character moves the position. *)
LEMMA HereNext ==
  ASSUME NEW w, NEW n \in Nat
  PROVE  /\ Here(w, 0) = Position(1, 0)
         /\ Here(w, n).line \in Nat /\ Here(w, n).column \in Nat
         /\ w[n + 1] = LF => Here(w, n + 1) = Position(Here(w, n).line + 1, 0)
         /\ w[n + 1] # LF => Here(w, n + 1) = Position(Here(w, n).line, Here(w, n).column + 1)
<1>1. Here(w, 0) = Position(1, 0)
  <2>1. Ends(w, 0) = {} /\ LastEnd(w, 0) = 0
    BY DEF Ends, LastEnd, LastOf
  <2> QED
    BY <2>1, FS_EmptySet DEF Here
<1>2. Here(w, n).line = 1 + Cardinality(Ends(w, n)) /\ Here(w, n).column = n - LastEnd(w, n)
  BY DEF Here, Position
<1>3. Here(w, n).line \in Nat /\ Here(w, n).column \in Nat
  <2>1. Cardinality(Ends(w, n)) \in Nat
    BY EndsCounted
  <2>2. LastEnd(w, n) \in 0 .. n
    BY LastEndIs
  <2> QED
    BY <1>2, <2>1, <2>2
<1>4. ASSUME w[n + 1] = LF PROVE Here(w, n + 1) = Position(Here(w, n).line + 1, 0)
  <2>1. Cardinality(Ends(w, n + 1)) = Cardinality(Ends(w, n)) + 1
    <3>1. /\ Ends(w, n + 1) = Ends(w, n) \cup {n + 1}
          /\ IsFiniteSet(Ends(w, n)) /\ n + 1 \notin Ends(w, n)
      BY <1>4, EndsCounted
    <3> QED
      BY <3>1, FS_AddElement
  <2>2. LastEnd(w, n + 1) = n + 1
    BY <1>4, LastEndUnique
  <2>3. Cardinality(Ends(w, n)) \in Nat
    BY EndsCounted
  <2>4. 1 + (Cardinality(Ends(w, n)) + 1) = (1 + Cardinality(Ends(w, n))) + 1 /\ (n + 1) - (n + 1) = 0
    BY <2>3
  <2> QED
    BY <1>2, <2>1, <2>2, <2>4 DEF Here
<1>5. ASSUME w[n + 1] # LF
      PROVE  Here(w, n + 1) = Position(Here(w, n).line, Here(w, n).column + 1)
  <2>1. Ends(w, n + 1) = Ends(w, n)
    BY <1>5, EndsCounted
  <2>2. LastEnd(w, n + 1) = LastEnd(w, n)
    BY <2>1 DEF LastEnd
  <2>3. (n + 1) - LastEnd(w, n) = (n - LastEnd(w, n)) + 1
    BY LastEndIs
  <2> QED
    BY <1>2, <2>1, <2>2, <2>3 DEF Here
<1> QED
  BY <1>1, <1>3, <1>4, <1>5

(* A character that is no line end stands where the reader is behind it. *)
LEMMA PositionIsHere ==
  ASSUME NEW w, NEW i \in Nat \ {0}
  PROVE  /\ PositionOf(w, i) = Position(1 + Cardinality(Ends(w, i - 1)), i - LastEnd(w, i - 1))
         /\ w[i] # LF => PositionOf(w, i) = Here(w, i)
<1>1. PositionOf(w, i) = Position(1 + Cardinality(Ends(w, i - 1)), i - LastEnd(w, i - 1))
  BY DEF PositionOf, Ends, LastEnd, LastOf
<1>2. ASSUME w[i] # LF PROVE PositionOf(w, i) = Here(w, i)
  <2>1. i - 1 \in Nat /\ (i - 1) + 1 = i
    OBVIOUS
  <2>2. Ends(w, i) = Ends(w, i - 1)
    BY <1>2, <2>1, EndsCounted
  <2>3. LastEnd(w, i) = LastEnd(w, i - 1)
    BY <2>2 DEF LastEnd
  <2> QED
    BY <1>1, <2>2, <2>3 DEF Here
<1> QED
  BY <1>1, <1>2

(* No two characters have the same position. *)
LEMMA PositionsDiffer ==
  ASSUME NEW w, NEW i \in Nat \ {0}, NEW j \in Nat \ {0}, i < j
  PROVE  PositionOf(w, i) # PositionOf(w, j)
<1>1. i - 1 \in Nat /\ j - 1 \in Nat
  OBVIOUS
<1>2. Ends(w, i - 1) \subseteq Ends(w, j - 1)
  BY DEF Ends
<1>3. CASE \E k \in i .. j - 1 : w[k] = LF
  <2>1. Ends(w, i - 1) # Ends(w, j - 1)
    BY <1>3 DEF Ends
  <2>2. Cardinality(Ends(w, i - 1)) # Cardinality(Ends(w, j - 1))
    BY <1>1, <1>2, <2>1, EndsCounted, FS_Subset
  <2>3. Cardinality(Ends(w, i - 1)) \in Nat /\ Cardinality(Ends(w, j - 1)) \in Nat
    BY <1>1, EndsCounted
  <2>4. 1 + Cardinality(Ends(w, i - 1)) # 1 + Cardinality(Ends(w, j - 1))
    BY <2>2, <2>3
  <2> QED
    BY <2>4, PositionIsHere DEF Position
<1>4. CASE \A k \in i .. j - 1 : w[k] # LF
  <2>1. Ends(w, i - 1) = Ends(w, j - 1)
    BY <1>4 DEF Ends
  <2>2. LastEnd(w, i - 1) = LastEnd(w, j - 1) /\ LastEnd(w, i - 1) \in 0 .. i - 1
    BY <1>1, <2>1, LastEndIs DEF LastEnd
  <2>3. i - LastEnd(w, i - 1) # j - LastEnd(w, j - 1)
    BY <2>2
  <2> QED
    BY <2>3, PositionIsHere DEF Position
<1> QED
  BY <1>3, <1>4

-----------------------------------------------------------------------------
(* The tracker. *)
Fields == {"stream", "current", "lastChar", "lastColumn", "position", "stored"}

Last(w, n) == IF n = 0 THEN NoCharacter ELSE w[n]

(* It has given the first n characters of w. *)
Tracked(t, w, n) ==
  /\ DOMAIN t = Fields
  /\ n \in 0 .. Len(w)
  /\ t.stream \in Seq(Characters)
  /\ UnixText(t.stream) = SubSeq(w, n + 1, Len(w))
  /\ t.current = Last(w, n)
  /\ t.position = Here(w, n)

(* It can take the last one back. *)
Fresh(t, w, n) ==
  /\ n \in Nat \ {0}
  /\ t.lastChar = Last(w, n - 1)
  /\ t.lastColumn = Here(w, n - 1).column

Texts == Seq(UnixCharacters)

(* What the functions of the tracker make of its fields. *)
LEMMA ReadFields ==
  ASSUME NEW t, DOMAIN t = Fields
  PROVE  /\ DOMAIN Read(t) = Fields
         /\ Read(t).stream = Remainder(t.stream)
         /\ Read(t).current = Character(t.stream)
         /\ Read(t).lastChar = t.current
         /\ Read(t).lastColumn = t.position.column
         /\ Read(t).position = IF Character(t.stream) = LF THEN Position(t.position.line + 1, 0)
                               ELSE Position(t.position.line, t.position.column + 1)
         /\ Read(t).stored = t.stored
  BY DEF Read, Fields

(* What rewind makes of a tracker. *)
LEMMA RewindFields ==
  ASSUME NEW t, DOMAIN t = Fields
  PROVE  /\ DOMAIN Rewind(t) = Fields
         /\ Rewind(t).stream = <<t.current>> \o t.stream
         /\ Rewind(t).current = t.lastChar
         /\ Rewind(t).position = IF t.current = LF
                                 THEN Position(t.position.line - 1, t.lastColumn)
                                 ELSE Position(t.position.line, t.position.column - 1)
         /\ Rewind(t).stored = t.stored
  BY DEF Rewind, Fields

(* A position is stored, and nothing else changes. *)
LEMMA StoreFields ==
  ASSUME NEW t, NEW pos, DOMAIN t = Fields
  PROVE  /\ DOMAIN StorePosition(t, pos) = Fields
         /\ \A x \in Fields \ {"stored"} : StorePosition(t, pos)[x] = t[x]
         /\ StorePosition(t, pos).stored = pos
  BY DEF StorePosition, Fields

(* At the start of a file nothing has been given. *)
LEMMA NewTracks ==
  ASSUME NEW s \in Seq(Characters)
  PROVE  UnixText(s) \in Texts /\ Tracked(NewTracker(s), UnixText(s), 0)
<1> DEFINE w == UnixText(s)
<1>1. w \in Texts
  BY UnixRead DEF Texts
<1>2. Here(w, 0) = Position(1, 0)
  BY HereNext
<1> HIDE DEF w
<1>3. Len(w) \in Nat /\ w = SubSeq(w, 1, Len(w))
  BY <1>1 DEF Texts
<1>4. Tracked(NewTracker(s), w, 0)
  BY <1>2, <1>3 DEF Tracked, NewTracker, Fields, Last, w
<1> QED
  BY <1>1, <1>4 DEF w

(* What is left of the text behind its first n characters. *)
LEMMA RestOf ==
  ASSUME NEW w \in Texts, NEW n \in 0 .. Len(w)
  PROVE  /\ SubSeq(w, n + 1, Len(w)) = <<>> <=> n = Len(w)
         /\ n < Len(w) => /\ w[n + 1] \in UnixCharacters
                          /\ SubSeq(w, n + 1, Len(w))
                               = <<w[n + 1]>> \o SubSeq(w, n + 2, Len(w))
  BY SMTT(40) DEF Texts

(* What is behind a first character. *)
LEMMA FirstAndRest ==
  ASSUME NEW S, NEW c \in S, NEW x \in Seq(S)
  PROVE  /\ Head(<<c>> \o x) = c /\ Tail(<<c>> \o x) = x
         /\ <<c>> \o x \in Seq(S) /\ <<c>> \o x # <<>>
  OBVIOUS

(* advance gives the next character, and it can be taken back. *)
LEMMA AdvanceTracks ==
  ASSUME NEW w \in Texts, NEW t, NEW n, Tracked(t, w, n)
  PROVE  /\ AtEnd(t) <=> n = Len(w)
         /\ ~AtEnd(t) => /\ n + 1 \in 1 .. Len(w)
                         /\ Tracked(Advance(t), w, n + 1)
                         /\ Fresh(Advance(t), w, n + 1)
                         /\ Advance(t).current = w[n + 1]
                         /\ Advance(t).stored = t.stored
         /\ AtEnd(t) => Advance(t) = t
<1> DEFINE s == t.stream
<1>1. /\ s \in Seq(Characters) /\ n \in 0 .. Len(w) /\ Len(w) \in Nat /\ DOMAIN t = Fields
      /\ UnixText(s) = SubSeq(w, n + 1, Len(w))
      /\ t.current = Last(w, n) /\ t.position = Here(w, n)
  BY DEF Tracked, Texts
<1> HIDE DEF s
<1>2. AtEnd(t) <=> s = <<>>
  BY DEF AtEnd, s
<1>3. s = <<>> => n = Len(w)
  BY <1>1, RestOf, UnixRead
<1>4. ASSUME s # <<>>
      PROVE  /\ n + 1 \in 1 .. Len(w)
             /\ Remainder(s) \in Seq(Characters)
             /\ Character(s) = w[n + 1]
             /\ UnixText(Remainder(s)) = SubSeq(w, n + 2, Len(w))
  <2>1. Remainder(s) \in Seq(Characters) /\ UnixText(s) = <<Character(s)>> \o UnixText(Remainder(s))
    BY <1>1, <1>4, UnixAdvance
  <2>2. UnixText(Remainder(s)) \in Seq(UnixCharacters) /\ UnixText(s) \in Seq(UnixCharacters)
    BY <1>1, <2>1, UnixRead
  <2>3. UnixText(s) # <<>> /\ Character(s) \in UnixCharacters
    <3>1. Len(UnixText(s)) \in Nat \ {0} /\ UnixText(s)[1] = Character(s)
      BY <2>1, <2>2
    <3> QED
      BY <2>2, <3>1
  <2>4. n < Len(w)
    BY <1>1, <2>3, RestOf
  <2>5. /\ w[n + 1] \in UnixCharacters
        /\ <<Character(s)>> \o UnixText(Remainder(s)) = <<w[n + 1]>> \o SubSeq(w, n + 2, Len(w))
    BY <1>1, <2>1, <2>4, RestOf
  <2>6. SubSeq(w, n + 2, Len(w)) \in Seq(UnixCharacters)
    BY <1>1, <2>4 DEF Texts
  <2>7. Character(s) = w[n + 1] /\ UnixText(Remainder(s)) = SubSeq(w, n + 2, Len(w))
    <3> DEFINE c == Character(s)
               x == UnixText(Remainder(s))
               y == SubSeq(w, n + 2, Len(w))
    <3>1. /\ c \in UnixCharacters /\ w[n + 1] \in UnixCharacters
          /\ x \in Seq(UnixCharacters) /\ y \in Seq(UnixCharacters)
          /\ <<c>> \o x = <<w[n + 1]>> \o y
      BY <2>2, <2>3, <2>5, <2>6
    <3> HIDE DEF c, x, y
    <3>2. c = w[n + 1] /\ x = y
      BY <3>1, FirstAndRest, SMTT(40)
    <3> QED
      BY <3>2 DEF c, x, y
  <2> QED
    BY <1>1, <2>1, <2>4, <2>7
<1>5. ASSUME s # <<>>
      PROVE  /\ Tracked(Advance(t), w, n + 1) /\ Fresh(Advance(t), w, n + 1)
             /\ Advance(t).current = w[n + 1] /\ Advance(t).stored = t.stored
  <2> DEFINE u == Read(t)
  <2>1. Advance(t) = u
    BY <1>2, <1>5 DEF Advance
  <2>2. /\ DOMAIN u = Fields /\ u.stream = Remainder(s) /\ u.current = Character(s)
        /\ u.lastChar = t.current /\ u.lastColumn = t.position.column /\ u.stored = t.stored
        /\ u.position = IF Character(s) = LF THEN Position(t.position.line + 1, 0)
                        ELSE Position(t.position.line, t.position.column + 1)
    BY <1>1, ReadFields DEF s
  <2> HIDE DEF u
  <2>3. u.position = Here(w, n + 1)
    BY <1>1, <1>4, <1>5, <2>2, HereNext
  <2>4. Fresh(u, w, n + 1)
    BY <1>1, <2>2 DEF Fresh
  <2>5. Tracked(u, w, n + 1)
    <3>1. n + 1 \in 0 .. Len(w) /\ n + 1 # 0 /\ (n + 1) + 1 = n + 2
      BY <1>1, <1>4, <1>5
    <3> QED
      BY <1>4, <1>5, <2>2, <2>3, <3>1 DEF Tracked, Last
  <2> QED
    BY <1>4, <1>5, <2>1, <2>2, <2>4, <2>5
<1>6. AtEnd(t) => Advance(t) = t
  BY DEF Advance
<1>7. s # <<>> => n # Len(w)
  BY <1>1, <1>4
<1> QED
  BY <1>2, <1>3, <1>4, <1>5, <1>6, <1>7

(* rewind takes it back. *)
LEMMA RewindTracks ==
  ASSUME NEW w \in Texts, NEW t, NEW n, Tracked(t, w, n), Fresh(t, w, n)
  PROVE  Tracked(Rewind(t), w, n - 1) /\ Rewind(t).stored = t.stored
<1> DEFINE u == Rewind(t)
           x == t.stream
<1>1. /\ x \in Seq(Characters) /\ n \in 1 .. Len(w) /\ Len(w) \in Nat /\ DOMAIN t = Fields
      /\ UnixText(x) = SubSeq(w, n + 1, Len(w))
      /\ t.current = w[n] /\ t.position = Here(w, n)
      /\ t.lastChar = Last(w, n - 1) /\ t.lastColumn = Here(w, n - 1).column
  BY DEF Tracked, Fresh, Texts, Last
<1>2. /\ DOMAIN u = Fields /\ u.stream = <<w[n]>> \o x /\ u.current = Last(w, n - 1)
      /\ u.position = IF w[n] = LF THEN Position(Here(w, n).line - 1, Here(w, n - 1).column)
                      ELSE Position(Here(w, n).line, Here(w, n).column - 1)
      /\ u.stored = t.stored
  BY <1>1, RewindFields
<1> HIDE DEF u, x
<1>3. n - 1 \in Nat /\ (n - 1) + 1 = n /\ n - 1 \in 0 .. Len(w)
  BY <1>1
<1>4. u.position = Here(w, n - 1)
  <2>1. Here(w, n - 1).line \in Nat /\ Here(w, n - 1).column \in Nat
    BY <1>3, HereNext
  <2>2. Here(w, n - 1) = Position(Here(w, n - 1).line, Here(w, n - 1).column)
    BY DEF Here, Position
  <2>3. CASE w[n] = LF
    <3>1. Here(w, n) = Position(Here(w, n - 1).line + 1, 0)
      BY <1>3, <2>3, HereNext
    <3>2. Here(w, n).line - 1 = Here(w, n - 1).line
      BY <2>1, <3>1 DEF Position
    <3> QED
      BY <1>2, <2>2, <2>3, <3>2
  <2>4. CASE w[n] # LF
    <3>1. Here(w, n) = Position(Here(w, n - 1).line, Here(w, n - 1).column + 1)
      BY <1>3, <2>4, HereNext
    <3>2. Here(w, n).line = Here(w, n - 1).line /\ Here(w, n).column - 1 = Here(w, n - 1).column
      BY <2>1, <3>1 DEF Position
    <3> QED
      BY <1>2, <2>2, <2>4, <3>2
  <2> QED
    BY <2>3, <2>4
<1>5. w[n] \in UnixCharacters /\ SubSeq(w, n, Len(w)) = <<w[n]>> \o SubSeq(w, n + 1, Len(w))
  BY <1>1 DEF Texts
<1> DEFINE s == <<w[n]>> \o x
<1>6. /\ s \in Seq(Characters) /\ s # <<>> /\ Head(s) = w[n] /\ Tail(s) = x
      /\ w[n] # CR
  <2>1. w[n] \in Characters /\ w[n] # CR
    BY <1>5 DEF UnixCharacters
  <2> QED
    BY <1>1, <2>1, FirstAndRest
<1> HIDE DEF s
<1>7. UnixText(s) = <<w[n]>> \o UnixText(x)
  BY <1>6, UnixRead DEF Character
<1>8. UnixText(s) = SubSeq(w, n, Len(w))
  BY <1>1, <1>5, <1>7
<1> QED
  BY <1>2, <1>3, <1>4, <1>6, <1>8 DEF Tracked, s, u

(* A stored position changes nothing of that. *)
LEMMA StoreTracks ==
  ASSUME NEW w, NEW t, NEW n, NEW pos, DOMAIN t = Fields
  PROVE  /\ Tracked(t, w, n) => Tracked(StorePosition(t, pos), w, n)
         /\ Fresh(t, w, n) => Fresh(StorePosition(t, pos), w, n)
         /\ AtEnd(StorePosition(t, pos)) <=> AtEnd(t)
         /\ StorePosition(t, pos).stored = pos
         /\ StorePosition(t, pos).current = t.current
<1> DEFINE u == StorePosition(t, pos)
<1>1. /\ DOMAIN u = Fields /\ u.stored = pos /\ u.stream = t.stream /\ u.current = t.current
      /\ u.lastChar = t.lastChar /\ u.lastColumn = t.lastColumn /\ u.position = t.position
  BY StoreFields DEF Fields
<1> HIDE DEF u
<1> QED
  BY <1>1 DEF Tracked, Fresh, AtEnd, u

-----------------------------------------------------------------------------
(* The recursion of IsBlankText ends: it goes on behind a blank or comment. *)
BlankStep(f, s, i) ==
  \/ i = Len(s) + 1
  \/ Char(s, i) \in Blanks /\ f[i + 1]
  \/ /\ StartsComment(s, i) /\ CommentEnds(s, i) # {}
     /\ f[CommentEnd(s, i) + 1]

BlankBehind(f, s, k) ==
  \A i \in 1 .. Len(s) + 1 : i >= k => f[i] = BlankStep(f, s, i)

(* The end of a comment is the first of its possible ends. *)
LEMMA CommentEndIs ==
  ASSUME NEW s, NEW i \in Nat \ {0}, NEW j \in CommentEnds(s, i),
         \A k \in CommentEnds(s, i) : j <= k
  PROVE  CommentEnd(s, i) = j
<1>1. CommentEnds(s, i) \subseteq Int
  BY DEF CommentEnds
<1>2. /\ CommentEnd(s, i) \in CommentEnds(s, i)
      /\ \A k \in CommentEnds(s, i) : CommentEnd(s, i) <= k
  BY DEF CommentEnd
<1> QED
  BY <1>1, <1>2

(* The end of a comment that has one. *)
LEMMA CommentEndExists ==
  ASSUME NEW s, NEW i \in Nat \ {0}, CommentEnds(s, i) # {}
  PROVE  /\ CommentEnd(s, i) \in CommentEnds(s, i)
         /\ \A k \in CommentEnds(s, i) : CommentEnd(s, i) <= k
<1>1. CommentEnds(s, i) \in SUBSET Nat
  BY DEF CommentEnds
<1> QED
  BY <1>1, LeastNumber DEF CommentEnd

(* There is a function that goes on so from any character on. *)
LEMMA BlankExists ==
  ASSUME NEW s \in Seq(Characters)
  PROVE  \E f : f = [i \in 1 .. Len(s) + 1 |-> f[i]] /\ BlankBehind(f, s, 1)
<1> DEFINE L == Len(s)
           P(f, m) == f = [i \in 1 .. L + 1 |-> f[i]] /\ BlankBehind(f, s, L + 2 - m)
           S == {m \in 0 .. L + 1 : ~\E f : P(f, m)}
<1>0. L \in Nat
  OBVIOUS
<1>1. SUFFICES ASSUME S # {} PROVE FALSE
  <2>1. L + 1 \in 0 .. L + 1 /\ L + 2 - (L + 1) = 1
    BY <1>0
  <2>2. S = {} => \E f : P(f, L + 1)
    BY <2>1
  <2> QED
    BY <2>1, <2>2
<1>2. PICK m \in S : \A k \in S : m <= k
  <2>1. S \in SUBSET Nat
    BY <1>0
  <2> HIDE DEF S
  <2> QED
    BY <1>1, <2>1, LeastNumber
<1>3. m # 0
  <2> DEFINE f == [i \in 1 .. L + 1 |-> FALSE]
  <2>1. BlankBehind(f, s, L + 2)
    BY <1>0 DEF BlankBehind
  <2>2. f = [i \in 1 .. L + 1 |-> f[i]]
    OBVIOUS
  <2>3. \E g : P(g, 0)
    BY <1>0, <2>1, <2>2
  <2> QED
    BY <2>3
<1>4. m \in 1 .. L + 1 /\ m - 1 \in 0 .. L + 1 /\ m - 1 \notin S
  BY <1>0, <1>2, <1>3
<1>5. PICK f : P(f, m - 1)
  BY <1>4
<1> DEFINE k == L + 2 - m
           e == BlankStep(f, s, k)
           g == [i \in 1 .. L + 1 |-> IF i = k THEN e ELSE f[i]]
<1>6. k \in 1 .. L + 1 /\ L + 2 - (m - 1) = k + 1
  BY <1>0, <1>4
<1>8. \A i \in 1 .. L + 1 : i > k => g[i] = f[i]
  BY <1>6
<1>9. g[k] = e
  BY <1>6
<1>10. ASSUME NEW i \in 1 .. L + 1, i >= k PROVE g[i] = BlankStep(g, s, i)
  <2> HIDE DEF g, e
  <2>1. i # L + 1 => i + 1 \in 1 .. L + 1 /\ i + 1 > k
    BY <1>0, <1>6, <1>10
  <2>2. i # L + 1 => g[i + 1] = f[i + 1]
    BY <1>8, <2>1
  <2>3. CommentEnds(s, i) # {} => g[CommentEnd(s, i) + 1] = f[CommentEnd(s, i) + 1]
    <3>1. SUFFICES ASSUME CommentEnds(s, i) # {}
                   PROVE  g[CommentEnd(s, i) + 1] = f[CommentEnd(s, i) + 1]
      OBVIOUS
    <3>2. CommentEnd(s, i) \in i .. L
      BY <3>1, CommentEndExists DEF CommentEnds
    <3>3. CommentEnd(s, i) + 1 \in 1 .. L + 1 /\ CommentEnd(s, i) + 1 > k
      BY <1>0, <1>6, <1>10, <3>2
    <3> QED
      BY <1>8, <3>3
  <2>4. BlankStep(g, s, i) = BlankStep(f, s, i)
    BY <2>2, <2>3 DEF BlankStep
  <2>5. CASE i = k
    BY <1>9, <2>4, <2>5 DEF e
  <2>6. CASE i # k
    <3>1. i >= k + 1 /\ i > k
      BY <1>6, <1>10, <2>6
    <3>2. f[i] = BlankStep(f, s, i)
      BY <1>5, <1>6, <3>1 DEF BlankBehind
    <3> QED
      BY <1>8, <2>4, <3>1, <3>2
  <2> QED
    BY <2>5, <2>6
<1>11. BlankBehind(g, s, k)
  <2> HIDE DEF g, k
  <2> QED
    BY <1>10 DEF BlankBehind
<1>12. g = [i \in 1 .. L + 1 |-> g[i]]
  OBVIOUS
<1>13. P(g, m)
  BY <1>11, <1>12
<1> QED
  BY <1>2, <1>13

(* So IsBlankText is what its definition says. *)
LEMMA BlankDefined ==
  ASSUME NEW s \in Seq(Characters)
  PROVE  \E f : (IsBlankText(s) <=> f[1]) /\ BlankBehind(f, s, 1)
<1> DEFINE D == 1 .. Len(s) + 1
           F == CHOOSE f : f = [i \in D |-> BlankStep(f, s, i)]
<1>1. \E f : f = [i \in D |-> BlankStep(f, s, i)]
  <2>1. PICK f : f = [i \in D |-> f[i]] /\ BlankBehind(f, s, 1)
    BY BlankExists
  <2>2. \A i \in D : f[i] = BlankStep(f, s, i)
    BY <2>1 DEF BlankBehind
  <2>3. [i \in D |-> f[i]] = [i \in D |-> BlankStep(f, s, i)]
    BY <2>2
  <2> QED
    BY <2>1, <2>3
<1>2. F = [i \in D |-> BlankStep(F, s, i)]
  BY <1>1
<1>3. IsBlankText(s) = F[1]
  BY DEF IsBlankText, BlankStep
<1> HIDE DEF F
<1>4. \A i \in D : F[i] = BlankStep(F, s, i)
  BY <1>2
<1> QED
  BY <1>3, <1>4 DEF BlankBehind

-----------------------------------------------------------------------------
(* One blank or one comment of w leads from q to r. *)
Follows(w, q, r) ==
  \/ w[q] \in Blanks /\ r = q + 1
  \/ StartsComment(w, q) /\ CommentEnds(w, q) # {} /\ r = CommentEnd(w, q) + 1

Closed(w, S) ==
  \A q \in S : \A r \in 1 .. Len(w) + 1 : q <= Len(w) /\ Follows(w, q, r) => r \in S

(* Blanks and comments lead from i to m. *)
Gap(w, i, m) ==
  /\ i \in 1 .. m /\ m \in 1 .. Len(w) + 1
  /\ \A S \in SUBSET (1 .. Len(w) + 1) : i \in S /\ Closed(w, S) => m \in S

(* They lead nowhere, or on. *)
LEMMA GapGrows ==
  ASSUME NEW w \in Texts, NEW i \in 1 .. Len(w) + 1
  PROVE  /\ Gap(w, i, i)
         /\ \A m, r : Gap(w, i, m) /\ m <= Len(w) /\ r \in m .. Len(w) + 1 /\ Follows(w, m, r)
                        => Gap(w, i, r)
<1>0. Len(w) \in Nat
  BY DEF Texts
<1>1. Gap(w, i, i)
  BY <1>0 DEF Gap
<1>2. ASSUME NEW m, NEW r, Gap(w, i, m), m <= Len(w), r \in m .. Len(w) + 1, Follows(w, m, r)
      PROVE  Gap(w, i, r)
  <2>1. r \in 1 .. Len(w) + 1 /\ i \in 1 .. r
    BY <1>0, <1>2 DEF Gap
  <2>2. ASSUME NEW S \in SUBSET (1 .. Len(w) + 1), i \in S, Closed(w, S) PROVE r \in S
    BY <1>2, <2>1, <2>2 DEF Gap, Closed
  <2> QED
    BY <2>1, <2>2 DEF Gap
<1> QED
  BY <1>1, <1>2

(* What a gap is made of is a blank text. *)
LEMMA GapIsBlank ==
  ASSUME NEW w \in Texts, NEW i, NEW m, Gap(w, i, m)
  PROVE  IsBlankText(SubSeq(w, i, m - 1))
<1> DEFINE s == SubSeq(w, i, m - 1)
           L == Len(w)
<1>0. i \in 1 .. m /\ m \in 1 .. L + 1 /\ L \in Nat
  BY DEF Gap, Texts
<1>1. /\ s \in Seq(Characters) /\ Len(s) = m - i /\ DOMAIN s = 1 .. m - i
      /\ \A k \in 1 .. m - i : s[k] = w[i + k - 1]
  BY <1>0 DEF Texts, UnixCharacters
<1>2. PICK f : (IsBlankText(s) <=> f[1]) /\ BlankBehind(f, s, 1)
  BY <1>1, BlankDefined
<1> HIDE DEF s, L
<1>3. SUFFICES ASSUME ~f[1] PROVE FALSE
  BY <1>2 DEF s
<1> DEFINE B(q) == q > m \/ (q \in i .. m /\ ~f[q - i + 1])
           S == {q \in 1 .. L + 1 : B(q)}
<1>4. ASSUME NEW q \in i .. m PROVE q - i + 1 \in 1 .. Len(s) + 1
                                    /\ f[q - i + 1] = BlankStep(f, s, q - i + 1)
  <2>1. q - i + 1 \in 1 .. Len(s) + 1 /\ q - i + 1 >= 1
    BY <1>0, <1>1
  <2> QED
    BY <1>2, <2>1 DEF BlankBehind
<1>5. f[m - i + 1]
  <2>1. m \in i .. m /\ m - i + 1 = Len(s) + 1
    BY <1>0, <1>1
  <2> QED
    BY <1>4, <2>1 DEF BlankStep
<1>6. i \in S
  BY <1>0, <1>3
<1>7. ASSUME NEW q \in S, NEW r \in 1 .. L + 1, q <= L, Follows(w, q, r) PROVE r \in S
  <2> USE <1>0
  <2>1. CASE q > m
    <3>1. r > m
      <4>1. CASE r = q + 1
        BY <2>1, <4>1
      <4>2. CASE CommentEnds(w, q) # {} /\ r = CommentEnd(w, q) + 1
        BY <2>1, <4>2, CommentEndExists DEF CommentEnds, L
      <4> QED
        BY <1>7, <4>1, <4>2 DEF Follows
    <3> QED
      BY <3>1
  <2>2. CASE q \in i .. m /\ ~f[q - i + 1] /\ r <= m
    <3> DEFINE p == q - i + 1
    <3>1. q < m
      BY <1>5, <2>2
    <3>2. p \in 1 .. m - i /\ s[p] = w[q] /\ Char(s, p) = w[q] /\ p \in Nat \ {0}
      <4>1. p \in 1 .. m - i /\ i + p - 1 = q /\ p \in Nat \ {0}
        BY <2>2, <3>1
      <4> QED
        BY <1>1, <4>1 DEF Char
    <3>3. p # Len(s) + 1 /\ ~f[p] /\ ~BlankStep(f, s, p)
      BY <1>1, <1>4, <2>2, <3>2
    <3>4. CASE w[q] \in Blanks /\ r = q + 1
      <4>1. ~f[p + 1]
        BY <3>2, <3>3, <3>4 DEF BlankStep
      <4>2. p + 1 = r - i + 1 /\ r \in i .. m
        BY <2>2, <3>1, <3>4
      <4> QED
        BY <4>1, <4>2
    <3>5. CASE StartsComment(w, q) /\ CommentEnds(w, q) # {} /\ r = CommentEnd(w, q) + 1
      <4> DEFINE e == CommentEnd(w, q)
                 d == e - i + 1
      <4>1. e \in CommentEnds(w, q) /\ \A k \in CommentEnds(w, q) : e <= k
        BY <3>5, <2>2, CommentEndExists
      <4>2. e \in q .. L /\ e + 1 = r
        BY <3>5, <4>1 DEF CommentEnds, L
      <4>3. w[q] = "/" /\ Char(w, q + 1) \in {"/", "*"}
        BY <1>7, <2>2, <3>5 DEF StartsComment, Char, L, Texts, NoCharacter
      <4> HIDE DEF p, e
      <4>4. q + 1 \in 1 .. L /\ w[q + 1] \in {"/", "*"}
        BY <2>2, <4>3 DEF Char, NoCharacter, L, Texts
      <4>5. e >= q + 1
        <5>1. e # q
          BY <4>1, <4>3, <4>4 DEF CommentEnds, Char, L, Texts, LF
        <5> QED
          BY <2>2, <4>2, <5>1
      <4>6. e <= m - 1 /\ q + 1 <= m - 1
        BY <2>2, <4>2, <4>5
      <4>7. /\ p + 1 \in 1 .. m - i /\ s[p + 1] = w[q + 1]
            /\ Char(s, p + 1) = w[q + 1] /\ Char(w, q + 1) = w[q + 1]
        <5>1. p + 1 \in 1 .. m - i /\ i + (p + 1) - 1 = q + 1
          BY <2>2, <4>6 DEF p
        <5> QED
          BY <1>1, <4>4, <5>1 DEF Char, L, Texts
      <4>8. StartsComment(s, p)
        BY <3>2, <4>3, <4>4, <4>7 DEF StartsComment
      <4>9. d \in p .. Len(s)
        BY <1>1, <2>2, <4>2, <4>6, SMTT(40) DEF p
      <4> DEFINE M(k) == k + i - 1
      <4>10. ASSUME NEW k \in p .. Len(s)
             PROVE  /\ M(k) \in q .. m - 1 /\ s[k] = w[M(k)]
                    /\ k >= p + 3 => M(k) >= q + 3 /\ s[k - 1] = w[M(k) - 1]
                    /\ k = Len(s) <=> M(k) = m - 1
        <5>1. M(k) \in q .. m - 1 /\ k \in 1 .. m - i /\ i + k - 1 = M(k)
              /\ (k = Len(s) <=> M(k) = m - 1)
          BY <1>1, <2>2, <3>2, SMTT(40) DEF p
        <5>2. k >= p + 3 => M(k) >= q + 3 /\ k - 1 \in 1 .. m - i /\ i + (k - 1) - 1 = M(k) - 1
          BY <1>1, <2>2, <3>2 DEF p
        <5> QED
          BY <1>1, <5>1, <5>2
      <4>11. d \in CommentEnds(s, p)
        <5>1. M(d) = e /\ (d >= p + 3 <=> e >= q + 3)
          BY <2>2, <4>2 DEF p
        <5>2. s[d] = w[e] /\ (d >= p + 3 => s[d - 1] = w[e - 1]) /\ (d = Len(s) <=> e = m - 1)
          BY <4>9, <4>10, <5>1
        <5>3. e = L => e = m - 1
          BY <4>6
        <5>4. /\ w[q + 1] = "/" => w[e] = LF \/ e = L
              /\ w[q + 1] # "/" => e >= q + 3 /\ w[e - 1] = "*" /\ w[e] = "/"
          BY <4>1, <4>7 DEF CommentEnds, L
        <5> HIDE DEF d, M
        <5> QED
          BY <4>7, <4>9, <5>1, <5>2, <5>3, <5>4 DEF CommentEnds
      <4>12. ASSUME NEW k \in CommentEnds(s, p) PROVE d <= k
        <5>1. /\ k \in p .. Len(s)
              /\ w[q + 1] = "/" => s[k] = LF \/ k = Len(s)
              /\ w[q + 1] # "/" => k >= p + 3 /\ s[k - 1] = "*" /\ s[k] = "/"
          BY <4>7 DEF CommentEnds
        <5>2. M(k) \in q .. m - 1 /\ s[k] = w[M(k)] /\ (k = Len(s) <=> M(k) = m - 1)
              /\ (k >= p + 3 => M(k) >= q + 3 /\ s[k - 1] = w[M(k) - 1])
          BY <4>10, <5>1
        <5>3. M(k) \in q .. L
          BY <5>2, <2>2
        <5>4. CASE w[q + 1] = "/" /\ k = Len(s)
          <6> HIDE DEF d
          <6>1. d <= Len(s) /\ k = Len(s)
            BY <1>0, <1>1, <4>9, <5>4
          <6> QED
            BY <6>1
        <5>5. CASE ~(w[q + 1] = "/" /\ k = Len(s))
          <6>1. M(k) \in CommentEnds(w, q)
            <7> HIDE DEF M
            <7> QED
              BY <4>7, <5>1, <5>2, <5>3, <5>5 DEF CommentEnds, L
          <6>2. e <= M(k)
            BY <4>1, <6>1
          <6> QED
            BY <5>1, <6>2, <4>2, <2>2
        <5> QED
          BY <5>4, <5>5
      <4>13. CommentEnd(s, p) = d
        <5> HIDE DEF d
        <5> QED
          BY <3>2, <4>11, <4>12, CommentEndIs DEF p
      <4>14. ~f[d + 1]
        BY <3>3, <4>8, <4>11, <4>13 DEF BlankStep, p
      <4>15. d + 1 = r - i + 1 /\ r \in i .. m
        BY <2>2, <4>2
      <4> QED
        BY <4>14, <4>15
    <3> QED
      BY <1>7, <3>4, <3>5 DEF Follows
  <2>3. CASE r > m
    BY <2>3
  <2> QED
    BY <2>1, <2>2, <2>3
<1>8. Closed(w, S)
  <2> HIDE DEF S
  <2> QED
    BY <1>7 DEF Closed, L
<1>9. S \in SUBSET (1 .. Len(w) + 1)
  BY DEF L
<1>10. m \in S
  <2> HIDE DEF S
  <2> QED
    BY <1>6, <1>8, <1>9 DEF Gap
<1> QED
  BY <1>0, <1>5, <1>10

-----------------------------------------------------------------------------
(* The characters of a text. *)
LEMMA CharIs ==
  ASSUME NEW w \in Texts, NEW i \in Int
  PROVE  /\ i \in 1 .. Len(w) => Char(w, i) = w[i] /\ w[i] \in UnixCharacters
         /\ i \notin 1 .. Len(w) => Char(w, i) = NoCharacter
         /\ Char(w, i) # CR
<1>1. DOMAIN w = 1 .. Len(w) /\ (i \in 1 .. Len(w) => w[i] \in UnixCharacters)
  BY DEF Texts
<1>2. i \in 1 .. Len(w) => Char(w, i) = w[i] /\ w[i] \in UnixCharacters
  BY <1>1 DEF Char
<1>3. i \notin 1 .. Len(w) => Char(w, i) = NoCharacter
  BY <1>1 DEF Char
<1> QED
  BY <1>2, <1>3 DEF UnixCharacters, NoCharacter, CR

(* Where a comment starts. *)
LEMMA CommentStart ==
  ASSUME NEW w \in Texts, NEW c \in 1 .. Len(w)
  PROVE  StartsComment(w, c) <=> /\ w[c] = "/" /\ c + 1 \in 1 .. Len(w)
                                 /\ w[c + 1] \in {"/", "*"}
<1>1. Len(w) \in Nat /\ c \in Int /\ c + 1 \in Int
  BY DEF Texts
<1>2. c + 1 \notin 1 .. Len(w) => Char(w, c + 1) \notin {"/", "*"}
  BY <1>1, CharIs DEF NoCharacter
<1>3. c + 1 \in 1 .. Len(w) => Char(w, c + 1) = w[c + 1]
  BY <1>1, CharIs
<1> QED
  BY <1>1, <1>2, <1>3, CharIs DEF StartsComment

(* A comment up to the end of the line. *)
LEMMA LineCommentFollows ==
  ASSUME NEW w \in Texts, NEW c \in 1 .. Len(w) - 1, w[c] = "/", w[c + 1] = "/",
         NEW n \in c + 1 .. Len(w), \A j \in c .. n - 1 : w[j] # LF,
         w[n] = LF \/ n = Len(w)
  PROVE  Follows(w, c, n + 1)
<1>1. Len(w) \in Nat /\ c \in 1 .. Len(w) /\ c + 1 \in 1 .. Len(w) /\ c \in Nat \ {0}
  BY DEF Texts
<1>2. StartsComment(w, c) /\ Char(w, c + 1) = "/"
  BY <1>1, CommentStart, CharIs
<1>3. n \in CommentEnds(w, c)
  BY <1>1, <1>2 DEF CommentEnds
<1>4. ASSUME NEW k \in CommentEnds(w, c) PROVE n <= k
  <2>1. k \in c .. Len(w) /\ (w[k] = LF \/ k = Len(w))
    BY <1>2 DEF CommentEnds
  <2>2. ~(n <= k) => k \in c .. n - 1 /\ k # Len(w)
    BY <1>1, <2>1
  <2> QED
    BY <2>1, <2>2
<1>5. CommentEnd(w, c) = n
  BY <1>1, <1>3, <1>4, CommentEndIs
<1> QED
  BY <1>2, <1>3, <1>5 DEF Follows

(* A comment up to star and slash. *)
LEMMA BlockCommentFollows ==
  ASSUME NEW w \in Texts, NEW c \in 1 .. Len(w) - 1, w[c] = "/", w[c + 1] = "*",
         NEW n \in c + 3 .. Len(w), w[n - 1] = "*", w[n] = "/",
         \A j \in c + 3 .. n - 1 : ~(w[j - 1] = "*" /\ w[j] = "/")
  PROVE  Follows(w, c, n + 1)
<1>1. Len(w) \in Nat /\ c \in 1 .. Len(w) /\ c + 1 \in 1 .. Len(w) /\ c \in Nat \ {0}
  BY DEF Texts
<1>2. StartsComment(w, c) /\ Char(w, c + 1) = "*"
  BY <1>1, CommentStart, CharIs
<1>3. n \in CommentEnds(w, c)
  BY <1>1, <1>2 DEF CommentEnds
<1>4. ASSUME NEW k \in CommentEnds(w, c) PROVE n <= k
  <2>1. k \in c .. Len(w) /\ k >= c + 3 /\ w[k - 1] = "*" /\ w[k] = "/"
    BY <1>2 DEF CommentEnds
  <2>2. ~(n <= k) => k \in c + 3 .. n - 1
    BY <1>1, <2>1
  <2> QED
    BY <2>1, <2>2
<1>5. CommentEnd(w, c) = n
  BY <1>1, <1>3, <1>4, CommentEndIs
<1> QED
  BY <1>2, <1>3, <1>5 DEF Follows

(* A comment that does not end. *)
LEMMA EndlessCommentIllegal ==
  ASSUME NEW w \in Texts, NEW c \in 1 .. Len(w) - 1, w[c] = "/", w[c + 1] = "*",
         \A j \in c + 3 .. Len(w) : ~(w[j - 1] = "*" /\ w[j] = "/")
  PROVE  IllegalAt(w, c)
<1>1. Len(w) \in Nat /\ c \in 1 .. Len(w) /\ c + 1 \in 1 .. Len(w)
  BY DEF Texts
<1>2. StartsComment(w, c) /\ Char(w, c + 1) = "*" /\ Char(w, c) = "/"
  BY <1>1, CommentStart, CharIs
<1>3. CommentEnds(w, c) = {}
  <2>1. ASSUME NEW k \in CommentEnds(w, c) PROVE FALSE
    <3>1. k \in c .. Len(w) /\ k >= c + 3 /\ w[k - 1] = "*" /\ w[k] = "/"
      BY <1>2 DEF CommentEnds
    <3>2. k \in c + 3 .. Len(w)
      BY <1>1, <3>1
    <3> QED
      BY <3>1, <3>2
  <2> QED
    BY <2>1
<1> QED
  BY <1>1, <1>2, <1>3 DEF IllegalAt, Blanks, LF

-----------------------------------------------------------------------------
(* Tokens.  What stands from p to j, and what kind of token it can be. *)
Single(c) == <<c>> \in Punctuators

(* A part of a text, and where its characters come from. *)
LEMMA PartIs ==
  ASSUME NEW w \in Texts, NEW p \in 1 .. Len(w), NEW j \in p .. Len(w)
  PROVE  LET s == SubSeq(w, p, j) IN
         /\ s \in Texts /\ Len(s) = j - p + 1 /\ DOMAIN s = 1 .. j - p + 1 /\ s # <<>>
         /\ Len(s) \in Nat \ {0}
         /\ Char(s, 1) = w[p] /\ s[1] = w[p]
         /\ \A k \in 1 .. j - p + 1 : s[k] = w[p + k - 1] /\ Char(s, k) = w[p + k - 1]
         /\ \A i \in p .. j : s[i - p + 1] = w[i] /\ Char(s, i - p + 1) = w[i]
<1> DEFINE s == SubSeq(w, p, j)
<1>1. /\ s \in Texts /\ Len(s) = j - p + 1 /\ DOMAIN s = 1 .. j - p + 1 /\ s # <<>>
      /\ \A k \in 1 .. j - p + 1 : s[k] = w[p + k - 1]
  BY DEF Texts
<1> HIDE DEF s
<1>2. p \in Nat /\ j \in Nat /\ p <= j
  BY DEF Texts
<1>3. \A k \in 1 .. j - p + 1 : Char(s, k) = w[p + k - 1]
  BY <1>1 DEF Char
<1>4. ASSUME NEW i \in p .. j PROVE s[i - p + 1] = w[i] /\ Char(s, i - p + 1) = w[i]
  <2>1. i - p + 1 \in 1 .. j - p + 1 /\ p + (i - p + 1) - 1 = i
    BY <1>2
  <2> QED
    BY <1>1, <1>3, <2>1
<1>5. p \in p .. j /\ p - p + 1 = 1
  BY <1>2
<1>6. Len(s) \in Nat \ {0}
  BY <1>1, <1>2
<1> QED
  BY <1>1, <1>3, <1>4, <1>5, <1>6 DEF s

(* Punctuators start with a character that is one. *)
LEMMA PunctuatorStarts ==
  ASSUME NEW s \in Punctuators
  PROVE  Single(s[1]) /\ Len(s) \in 1 .. 4
<1>1. CASE \E c : s = <<c>>
  <2>1. PICK c : s = <<c>>
    BY <1>1
  <2>2. s[1] = c /\ Len(s) = 1
    BY <2>1
  <2> QED
    BY <2>1, <2>2 DEF Single
<1>2. CASE ~\E c : s = <<c>>
  <2>1. s \in {<<"-", ">">>, <<"+", "+">>, <<"-", "-">>, <<"<", "<">>, <<">", ">">>,
              <<"<", "=">>, <<">", "=">>, <<"=", "=">>, <<"!", "=">>, <<"&", "&">>,
              <<"|", "|">>, <<".", ".", ".">>, <<"*", "=">>, <<"/", "=">>, <<"%", "=">>,
              <<"+", "=">>, <<"-", "=">>, <<"<", "<", "=">>, <<">", ">", "=">>,
              <<"&", "=">>, <<"^", "=">>, <<"|", "=">>, <<"#", "#">>, <<"<", ":">>,
              <<":", ">">>, <<"<", "%">>, <<"%", ">">>, <<"%", ":">>,
              <<"%", ":", "%", ":">>}
    BY <1>2 DEF Punctuators
  <2>2. Single("-") /\ Single("+") /\ Single("<") /\ Single(">") /\ Single("=")
        /\ Single("!") /\ Single("&") /\ Single("|") /\ Single(".") /\ Single("*")
        /\ Single("/") /\ Single("%") /\ Single("^") /\ Single("#") /\ Single(":")
    BY DEF Single, Punctuators
  <2>3. s[1] \in {"-", "+", "<", ">", "=", "!", "&", "|", ".", "*", "/", "%", "^", "#", ":"}
    BY <2>1
  <2>4. Len(s) \in {2, 3, 4}
    BY <2>1
  <2> QED
    BY <2>2, <2>3, <2>4
<1> QED
  BY <1>1, <1>2

(* Those characters start nothing else. *)
LEMMA SingleAlone ==
  ASSUME NEW c, Single(c)
  PROVE  c \notin WordStart \union Digits \union Quotes \union Blanks \union {"\\"}
  BY ZenonT(60) DEF Single, Punctuators, WordStart, Letters, HexLetters, Digits, OctalDigits, Quotes, Blanks, LF

(* The punctuators of three and four characters. *)
LEMMA LongPunctuators ==
  ASSUME NEW s \in Punctuators, Len(s) >= 3
  PROVE  \/ s = <<".", ".", ".">> \/ s = <<"<", "<", "=">> \/ s = <<">", ">", "=">>
         \/ s = <<"%", ":", "%", ":">>
<1>1. ASSUME NEW c, s = <<c>> PROVE FALSE
  <2>1. Len(s) = 1
    BY <1>1
  <2> QED
    BY <2>1
<1>2. ASSUME NEW c, NEW d, s = <<c, d>> PROVE FALSE
  <2>1. Len(s) = 2
    BY <1>2
  <2> QED
    BY <2>1
<1> QED
  BY <1>1, <1>2 DEF Punctuators

(* Parts of one to four characters. *)
LEMMA ShortSequences ==
  ASSUME NEW S, NEW s \in Seq(S)
  PROVE  /\ Len(s) = 1 => s = <<s[1]>>
         /\ Len(s) = 2 => s = <<s[1], s[2]>>
         /\ Len(s) = 3 => s = <<s[1], s[2], s[3]>>
         /\ Len(s) = 4 => s = <<s[1], s[2], s[3], s[4]>>
  OBVIOUS

(* Parts of up to four characters. *)
LEMMA ShortParts ==
  ASSUME NEW w \in Texts, NEW p \in 1 .. Len(w)
  PROVE  /\ SubSeq(w, p, p) = <<w[p]>>
         /\ p + 1 <= Len(w) => SubSeq(w, p, p + 1) = <<w[p], w[p + 1]>>
         /\ p + 2 <= Len(w) => SubSeq(w, p, p + 2) = <<w[p], w[p + 1], w[p + 2]>>
         /\ p + 3 <= Len(w) => SubSeq(w, p, p + 3) = <<w[p], w[p + 1], w[p + 2], w[p + 3]>>
<1>0. Len(w) \in Nat /\ p \in Nat
  BY DEF Texts
<1>1. \A j \in p .. Len(w) :
        /\ SubSeq(w, p, j) \in Seq(UnixCharacters) /\ Len(SubSeq(w, p, j)) = j - p + 1
        /\ \A i \in p .. j : SubSeq(w, p, j)[i - p + 1] = w[i]
  BY PartIs DEF Texts
<1>2. SubSeq(w, p, p) = <<w[p]>>
  <2>1. p \in p .. Len(w) /\ p - p + 1 = 1 /\ p \in p .. p
    BY <1>0
  <2> DEFINE s == SubSeq(w, p, p)
  <2>2. s \in Seq(UnixCharacters) /\ Len(s) = 1 /\ s[1] = w[p]
    BY <1>1, <2>1
  <2> HIDE DEF s
  <2>3. s = <<w[p]>>
    BY <2>2, ShortSequences
  <2> QED
    BY <2>3 DEF s
<1>3. ASSUME p + 1 <= Len(w) PROVE SubSeq(w, p, p + 1) = <<w[p], w[p + 1]>>
  <2>1. /\ p + 1 \in p .. Len(w) /\ p - p + 1 = 1 /\ (p + 1) - p + 1 = 2
        /\ p \in p .. p + 1 /\ p + 1 \in p .. p + 1
    BY <1>0, <1>3
  <2> DEFINE s == SubSeq(w, p, p + 1)
  <2>2. s \in Seq(UnixCharacters) /\ Len(s) = 2 /\ s[1] = w[p] /\ s[2] = w[p + 1]
    BY <1>1, <2>1
  <2> HIDE DEF s
  <2>3. s = <<w[p], w[p + 1]>>
    BY <2>2, ShortSequences
  <2> QED
    BY <2>3 DEF s
<1>4. ASSUME p + 2 <= Len(w) PROVE SubSeq(w, p, p + 2) = <<w[p], w[p + 1], w[p + 2]>>
  <2>1. /\ p + 2 \in p .. Len(w) /\ p - p + 1 = 1 /\ (p + 1) - p + 1 = 2 /\ (p + 2) - p + 1 = 3
        /\ p \in p .. p + 2 /\ p + 1 \in p .. p + 2 /\ p + 2 \in p .. p + 2
    BY <1>0, <1>4
  <2> DEFINE s == SubSeq(w, p, p + 2)
  <2>2. /\ s \in Seq(UnixCharacters) /\ Len(s) = 3
        /\ s[1] = w[p] /\ s[2] = w[p + 1] /\ s[3] = w[p + 2]
    BY <1>1, <2>1
  <2> HIDE DEF s
  <2>3. s = <<w[p], w[p + 1], w[p + 2]>>
    BY <2>2, ShortSequences
  <2> QED
    BY <2>3 DEF s
<1>5. ASSUME p + 3 <= Len(w) PROVE SubSeq(w, p, p + 3) = <<w[p], w[p + 1], w[p + 2], w[p + 3]>>
  <2>1. /\ p + 3 \in p .. Len(w) /\ p - p + 1 = 1 /\ (p + 1) - p + 1 = 2 /\ (p + 2) - p + 1 = 3
        /\ (p + 3) - p + 1 = 4
        /\ p \in p .. p + 3 /\ p + 1 \in p .. p + 3 /\ p + 2 \in p .. p + 3 /\ p + 3 \in p .. p + 3
    BY <1>0, <1>5
  <2> DEFINE s == SubSeq(w, p, p + 3)
  <2>2. /\ s \in Seq(UnixCharacters) /\ Len(s) = 4
        /\ s[1] = w[p] /\ s[2] = w[p + 1] /\ s[3] = w[p + 2] /\ s[4] = w[p + 3]
    BY <1>1, <2>1
  <2> HIDE DEF s
  <2>3. s = <<w[p], w[p + 1], w[p + 2], w[p + 3]>>
    BY <2>2, ShortSequences
  <2> QED
    BY <2>3 DEF s
<1> QED
  BY <1>2, <1>3, <1>4, <1>5

(* What a punctuator starts with is one, or may become one. *)
LEMMA PunctuatorPrefix ==
  ASSUME NEW w \in Texts, NEW p \in 1 .. Len(w), NEW n \in p .. Len(w), NEW j \in n .. Len(w),
         SubSeq(w, p, j) \in Punctuators
  PROVE  SubSeq(w, p, n) \in Punctuators \union OpenEnded
<1> DEFINE s == SubSeq(w, p, j)
<1>0. Len(w) \in Nat /\ p \in Nat /\ n \in Nat /\ j \in Nat /\ j \in p .. Len(w)
  BY DEF Texts
<1>1. /\ Len(s) = j - p + 1 /\ Len(s) \in 1 .. 4 /\ Single(w[p])
  <2>1. Len(s) = j - p + 1 /\ s[1] = w[p]
    BY <1>0, PartIs
  <2> QED
    BY <2>1, PunctuatorStarts
<1>2. CASE n = p
  BY <1>1, <1>2, ShortParts DEF Single
<1>3. CASE n = j
  BY <1>3
<1>4. CASE n = p + 1 /\ j >= p + 2
  <2>1. \/ s = <<".", ".", ".">> \/ s = <<"<", "<", "=">> \/ s = <<">", ">", "=">>
        \/ s = <<"%", ":", "%", ":">>
    <3>1. Len(s) >= 3
      BY <1>0, <1>1, <1>4
    <3> QED
      BY <3>1, LongPunctuators
  <2>2. SubSeq(w, p, n) = <<w[p], w[p + 1]>>
    BY <1>0, <1>4, ShortParts
  <2>3. s[1] = w[p] /\ s[2] = w[p + 1]
    <3>1. 2 \in 1 .. j - p + 1 /\ p + 2 - 1 = p + 1
      BY <1>0, <1>4
    <3> QED
      BY <1>0, <3>1, PartIs
  <2>4. <<s[1], s[2]>> \in {<<".", ".">>, <<"<", "<">>, <<">", ">">>, <<"%", ":">>}
    <3> HIDE DEF s
    <3> QED
      BY <2>1
  <2> QED
    BY <2>2, <2>3, <2>4, ZenonT(60) DEF Punctuators, OpenEnded
<1>5. CASE n = p + 2 /\ j = p + 3
  <2>1. \/ s = <<".", ".", ".">> \/ s = <<"<", "<", "=">> \/ s = <<">", ">", "=">>
        \/ s = <<"%", ":", "%", ":">>
    <3>1. Len(s) >= 3
      BY <1>0, <1>1, <1>5
    <3> QED
      BY <3>1, LongPunctuators
  <2>2. s = <<"%", ":", "%", ":">>
    <3>1. Len(s) = 4
      BY <1>0, <1>1, <1>5
    <3> HIDE DEF s
    <3>2. Len(<<".", ".", ".">>) = 3 /\ Len(<<"<", "<", "=">>) = 3 /\ Len(<<">", ">", "=">>) = 3
      OBVIOUS
    <3>3. CASE s = <<".", ".", ".">>
      BY <3>1, <3>2, <3>3
    <3>4. CASE s = <<"<", "<", "=">>
      BY <3>1, <3>2, <3>4
    <3>5. CASE s = <<">", ">", "=">>
      BY <3>1, <3>2, <3>5
    <3> QED
      BY <2>1, <3>3, <3>4, <3>5, Zenon
  <2>3. SubSeq(w, p, n) = <<w[p], w[p + 1], w[p + 2]>> /\ s = <<w[p], w[p + 1], w[p + 2], w[p + 3]>>
    BY <1>0, <1>5, ShortParts
  <2> HIDE DEF s
  <2>4. w[p] = "%" /\ w[p + 1] = ":" /\ w[p + 2] = "%"
    BY <2>2, <2>3
  <2> QED
    BY <2>3, <2>4 DEF OpenEnded
<1> QED
  BY <1>0, <1>1, <1>2, <1>3, <1>4, <1>5

(* A start that is no punctuator. *)
LEMMA OpenEndedIs ==
  ASSUME NEW w \in Texts, NEW p \in 1 .. Len(w), NEW n \in p .. Len(w),
         SubSeq(w, p, n) \in OpenEnded
  PROVE  /\ \/ n = p + 2 /\ w[p] = "%" /\ w[p + 1] = ":" /\ w[p + 2] = "%"
            \/ n = p + 1 /\ w[p] = "." /\ w[p + 1] = "."
         /\ SubSeq(w, p, n) \notin Punctuators
<1> DEFINE s == SubSeq(w, p, n)
<1>0. Len(w) \in Nat /\ p \in Nat /\ n \in Nat
  BY DEF Texts
<1>1. Len(s) = n - p + 1
  BY <1>0, PartIs
<1>2. s = <<"%", ":", "%">> \/ s = <<".", ".">>
  BY DEF OpenEnded
<1> HIDE DEF s
<1>3. CASE s = <<"%", ":", "%">>
  <2>1. n = p + 2
    <3>1. Len(s) = 3
      BY <1>3
    <3>2. n - p + 1 = 3
      BY <1>1, <3>1 DEF s
    <3> QED
      BY <1>0, <3>2
  <2>2. s = <<w[p], w[p + 1], w[p + 2]>>
    BY <1>0, <2>1, ShortParts DEF s
  <2>3. w[p] = "%" /\ w[p + 1] = ":" /\ w[p + 2] = "%"
    BY <1>3, <2>2
  <2>4. s \notin Punctuators
    <3>1. Len(s) >= 3 /\ s \notin {<<".", ".", ".">>, <<"<", "<", "=">>, <<">", ">", "=">>, <<"%", ":", "%", ":">>}
      BY <1>3
    <3> QED
      BY <3>1, LongPunctuators
  <2> QED
    BY <2>1, <2>3, <2>4 DEF s
<1>4. CASE s = <<".", ".">>
  <2>1. n = p + 1
    <3>1. Len(s) = 2
      BY <1>4
    <3>2. n - p + 1 = 2
      BY <1>1, <3>1 DEF s
    <3> QED
      BY <1>0, <3>2
  <2>2. s = <<w[p], w[p + 1]>>
    BY <1>0, <2>1, ShortParts DEF s
  <2>3. w[p] = "." /\ w[p + 1] = "."
    BY <1>4, <2>2
  <2>4. <<".", ".">> \notin Punctuators
    BY DEF Punctuators
  <2> QED
    BY <1>4, <2>1, <2>3, <2>4 DEF s
<1> QED
  BY <1>2, <1>3, <1>4

(* No token at p is longer than the one up to q. *)
Longest(w, p, q) ==
  /\ p \in 1 .. q /\ q \in 1 .. Len(w)
  /\ IsToken(SubSeq(w, p, q)) /\ ~StartsComment(w, p)
  /\ \A j \in q + 1 .. Len(w) : ~IsToken(SubSeq(w, p, j))

(* The first character tells what a token can be. *)
LEMMA KindOfToken ==
  ASSUME NEW w \in Texts, NEW p \in 1 .. Len(w), NEW j \in p .. Len(w)
  PROVE  LET s == SubSeq(w, p, j) IN
         /\ IsToken(s) <=> s \in Punctuators \/ IsWord(s) \/ IsNumber(s) \/ IsQuoted(s)
         /\ s \in Punctuators => Single(w[p])
         /\ IsWord(s) => w[p] \in WordStart
         /\ IsNumber(s) => w[p] \in Digits
         /\ IsQuoted(s) => w[p] \in Quotes
<1> DEFINE s == SubSeq(w, p, j)
<1>1. s # <<>> /\ Char(s, 1) = w[p] /\ s[1] = w[p]
  BY PartIs, ZenonT(60)
<1> HIDE DEF s
<1>2. IsToken(s) <=> s \in Punctuators \/ IsWord(s) \/ IsNumber(s) \/ IsQuoted(s)
  BY <1>1 DEF IsToken
<1>3. s \in Punctuators => Single(w[p])
  BY <1>1, PunctuatorStarts
<1>4. IsWord(s) => w[p] \in WordStart
  BY <1>1 DEF IsWord
<1>5. IsNumber(s) => w[p] \in Digits
  <2>1. s = <<"0">> => w[p] \in Digits
    BY <1>1 DEF Digits, OctalDigits
  <2> QED
    BY <1>1, <2>1 DEF IsNumber
<1>6. IsQuoted(s) => w[p] \in Quotes
  BY <1>1 DEF IsQuoted
<1> QED
  BY <1>2, <1>3, <1>4, <1>5, <1>6 DEF s

(* The first character tells the kinds of token apart. *)
LEMMA KindsDiffer ==
  ASSUME NEW c
  PROVE  /\ c \in WordStart => c \notin Digits \union Quotes /\ ~Single(c) /\ c # "/"
         /\ c \in Digits => c \notin Quotes /\ ~Single(c) /\ c # "/" /\ c \notin Blanks
         /\ c \in Quotes => ~Single(c) /\ c # "/" /\ c \notin Blanks
<1>1. Single(c) => c \notin WordStart \union Digits \union Quotes
  BY SingleAlone
<1> QED
  BY <1>1 DEF WordStart, Letters, HexLetters, Digits, OctalDigits, Quotes, Blanks, LF

(* Words. *)
LEMMA WordLongest ==
  ASSUME NEW w \in Texts, NEW p \in 1 .. Len(w), NEW n \in p .. Len(w),
         w[p] \in WordStart, \A i \in p + 1 .. n : w[i] \in WordCharacter,
         n < Len(w) => w[n + 1] \notin WordCharacter
  PROVE  Longest(w, p, n)
<1>0. Len(w) \in Nat /\ p \in Nat /\ n \in Nat
  BY DEF Texts
<1>1. IsToken(SubSeq(w, p, n))
  <2> DEFINE s == SubSeq(w, p, n)
  <2>1. Char(s, 1) = w[p] /\ Len(s) = n - p + 1 /\ \A k \in 1 .. n - p + 1 : s[k] = w[p + k - 1]
    BY PartIs
  <2> HIDE DEF s
  <2>2. AllIn(s, 2, WordCharacter)
    <3>1. ASSUME NEW k \in 2 .. n - p + 1 PROVE s[k] \in WordCharacter
      <4>1. k \in 1 .. n - p + 1 /\ p + k - 1 \in p + 1 .. n
        BY <1>0
      <4> QED
        BY <2>1, <4>1
    <3> QED
      BY <2>1, <3>1 DEF AllIn
  <2>3. IsWord(s)
    BY <2>1, <2>2 DEF IsWord
  <2> QED
    BY <2>3, KindOfToken DEF s
<1>2. ~StartsComment(w, p)
  BY CommentStart, KindsDiffer
<1>3. ASSUME NEW j \in n + 1 .. Len(w) PROVE ~IsToken(SubSeq(w, p, j))
  <2> DEFINE s == SubSeq(w, p, j)
  <2>0. j \in p .. Len(w) /\ n + 1 \in p .. j /\ n < Len(w)
    BY <1>0
  <2>1. Len(s) = j - p + 1 /\ s[n + 1 - p + 1] = w[n + 1]
    <3>1. Len(s) = j - p + 1 /\ \A i \in p .. j : s[i - p + 1] = w[i]
      BY <2>0, PartIs
    <3> HIDE DEF s
    <3> QED
      BY <2>0, <3>1, SMTT(40)
  <2> HIDE DEF s
  <2>2. n + 1 - p + 1 \in 2 .. j - p + 1
    BY <1>0
  <2>3. ~IsWord(s)
    BY <2>0, <2>1, <2>2 DEF IsWord, AllIn
  <2> QED
    BY <2>0, <2>3, KindOfToken, KindsDiffer DEF s
<1> QED
  BY <1>0, <1>1, <1>2, <1>3 DEF Longest

(* Numbers. *)
LEMMA NumberIs ==
  ASSUME NEW w \in Texts, NEW p \in 1 .. Len(w), NEW n \in p .. Len(w),
         \/ w[p] = "0" /\ n = p
         \/ w[p] \in Digits \ {"0"} /\ \A i \in p + 1 .. n : w[i] \in Digits
  PROVE  /\ IsNumber(SubSeq(w, p, n)) /\ IsToken(SubSeq(w, p, n))
         /\ ~StartsComment(w, p) /\ w[p] \in Digits
<1>0. Len(w) \in Nat /\ p \in Nat /\ n \in Nat
  BY DEF Texts
<1> DEFINE s == SubSeq(w, p, n)
<1>1. Char(s, 1) = w[p] /\ Len(s) = n - p + 1 /\ \A k \in 1 .. n - p + 1 : s[k] = w[p + k - 1]
  BY PartIs
<1>2. w[p] \in Digits
  BY DEF Digits, OctalDigits
<1>3. IsNumber(s)
  <2>1. CASE w[p] = "0" /\ n = p
    BY <2>1, ShortParts DEF IsNumber
  <2>2. CASE w[p] \in Digits \ {"0"} /\ \A i \in p + 1 .. n : w[i] \in Digits
    <3> HIDE DEF s
    <3>1. ASSUME NEW k \in 2 .. n - p + 1 PROVE s[k] \in Digits
      <4>1. k \in 1 .. n - p + 1 /\ p + k - 1 \in p + 1 .. n
        BY <1>0
      <4> QED
        BY <1>1, <2>2, <4>1
    <3>2. AllIn(s, 2, Digits)
      BY <1>1, <3>1 DEF AllIn
    <3> QED
      BY <1>1, <2>2, <3>2 DEF IsNumber
  <2> QED
    BY <2>1, <2>2
<1>4. ~StartsComment(w, p)
  BY <1>2, CommentStart, KindsDiffer
<1> QED
  BY <1>2, <1>3, <1>4, KindOfToken

(* A number that no digit follows. *)
LEMMA NumberLongest ==
  ASSUME NEW w \in Texts, NEW p \in 1 .. Len(w), NEW n \in p .. Len(w),
         \/ w[p] = "0" /\ n = p
         \/ /\ w[p] \in Digits \ {"0"} /\ \A i \in p + 1 .. n : w[i] \in Digits
            /\ n < Len(w) => w[n + 1] \notin Digits
  PROVE  Longest(w, p, n)
<1>0. Len(w) \in Nat /\ p \in Nat /\ n \in Nat
  BY DEF Texts
<1>1. IsToken(SubSeq(w, p, n)) /\ ~StartsComment(w, p) /\ w[p] \in Digits
  BY NumberIs
<1>2. ASSUME NEW j \in n + 1 .. Len(w) PROVE ~IsToken(SubSeq(w, p, j))
  <2> DEFINE s == SubSeq(w, p, j)
  <2>0. j \in p .. Len(w) /\ n + 1 \in p .. j /\ n < Len(w)
    BY <1>0
  <2>1. Len(s) = j - p + 1 /\ s[n + 1 - p + 1] = w[n + 1] /\ Char(s, 1) = w[p]
    <3>1. Len(s) = j - p + 1 /\ s[n + 1 - p + 1] = w[n + 1]
      BY <2>0, PartIs
    <3>2. Char(s, 1) = w[p]
      BY <2>0, PartIs
    <3> QED
      BY <3>1, <3>2
  <2> HIDE DEF s
  <2>2. n + 1 - p + 1 \in 2 .. j - p + 1 /\ Len(s) # 1
    BY <1>0, <2>1
  <2>3. s # <<"0">>
    <3>1. Len(<<"0">>) = 1
      OBVIOUS
    <3> QED
      BY <2>2, <3>1
  <2>4. ~IsNumber(s)
    BY <2>0, <2>1, <2>2, <2>3 DEF IsNumber, AllIn
  <2> QED
    BY <1>1, <2>0, <2>4, KindOfToken, KindsDiffer DEF s
<1> QED
  BY <1>0, <1>1, <1>2 DEF Longest

(* A number that a letter follows. *)
LEMMA NumberIllegal ==
  ASSUME NEW w \in Texts, NEW p \in 1 .. Len(w), NEW n \in p .. Len(w) - 1,
         \/ w[p] = "0" /\ n = p
         \/ w[p] \in Digits \ {"0"} /\ \A i \in p + 1 .. n : w[i] \in Digits,
         w[n + 1] \in Letters
  PROVE  IllegalAt(w, p)
<1>0. Len(w) \in Nat /\ p \in Nat /\ n \in Nat /\ n \in p .. Len(w) /\ n + 1 \in 1 .. Len(w)
  BY DEF Texts
<1>1. IsNumber(SubSeq(w, p, n)) /\ ~StartsComment(w, p) /\ w[p] \in Digits
  BY <1>0, NumberIs
<1>2. Char(w, p) = w[p] /\ Char(w, n + 1) = w[n + 1]
  BY <1>0, CharIs
<1> QED
  BY <1>0, <1>1, <1>2, KindsDiffer DEF IllegalAt

(* A character that starts no token. *)
LEMMA CharacterIllegal ==
  ASSUME NEW w \in Texts, NEW p \in 1 .. Len(w), ~StartsComment(w, p), ~Single(w[p]),
         w[p] \notin Blanks \union Quotes \union WordStart \union Digits
  PROVE  IllegalAt(w, p)
<1>0. Len(w) \in Nat /\ p \in Nat /\ p <= Len(w)
  BY DEF Texts
<1>1. Char(w, p) = w[p]
  BY <1>0, CharIs
<1>2. \A j \in p .. Len(w) : ~IsToken(SubSeq(w, p, j))
  BY KindOfToken
<1> QED
  BY <1>0, <1>1, <1>2 DEF IllegalAt

(* Punctuators. *)
LEMMA PunctuatorLongest ==
  ASSUME NEW w \in Texts, NEW p \in 1 .. Len(w), NEW n \in p .. Len(w),
         SubSeq(w, p, n) \in Punctuators, ~StartsComment(w, p),
         \A j \in n + 1 .. Len(w) : SubSeq(w, p, j) \notin Punctuators
  PROVE  Longest(w, p, n)
<1>0. Len(w) \in Nat /\ p \in Nat /\ n \in Nat
  BY DEF Texts
<1>1. Single(w[p]) /\ IsToken(SubSeq(w, p, n))
  BY KindOfToken
<1>2. w[p] \notin WordStart \union Digits \union Quotes
  BY <1>1, SingleAlone
<1>3. ASSUME NEW j \in n + 1 .. Len(w) PROVE ~IsToken(SubSeq(w, p, j))
  <2>1. j \in p .. Len(w)
    BY <1>0
  <2> QED
    BY <1>2, <2>1, KindOfToken
<1> QED
  BY <1>0, <1>1, <1>3 DEF Longest

-----------------------------------------------------------------------------
(* Quoted tokens.  The backslashes in front of a character. *)
Backslashes(s, i) == {j \in 1 .. i - 1 : \A k \in j .. i - 1 : s[k] = "\\"}

(* They can be counted. *)
LEMMA BackslashesFinite ==
  ASSUME NEW s, NEW i \in Nat
  PROVE  IsFiniteSet(Backslashes(s, i)) /\ Cardinality(Backslashes(s, i)) \in Nat
<1>1. IsFiniteSet(1 .. i - 1)
  BY FS_Interval
<1>2. Backslashes(s, i) \subseteq 1 .. i - 1
  BY DEF Backslashes
<1> QED
  BY <1>1, <1>2, FS_Subset, FS_CardinalityType

(* A character is escaped if the one before is a backslash that is not. *)
LEMMA EscapedNext ==
  ASSUME NEW s, NEW i \in Nat \ {0}
  PROVE  /\ ~IsEscaped(s, 1)
         /\ IsEscaped(s, i + 1) <=> s[i] = "\\" /\ ~IsEscaped(s, i)
<1>1. \A j \in Nat : IsEscaped(s, j) <=> Cardinality(Backslashes(s, j)) % 2 = 1
  BY DEF IsEscaped, Backslashes
<1>2. ~IsEscaped(s, 1)
  <2>1. Backslashes(s, 1) = {}
    BY DEF Backslashes
  <2>2. Cardinality(Backslashes(s, 1)) = 0
    BY <2>1, FS_EmptySet
  <2> QED
    BY <1>1, <2>2
<1>3. CASE s[i] # "\\"
  <2>1. Backslashes(s, i + 1) = {}
    BY <1>3 DEF Backslashes
  <2>2. Cardinality(Backslashes(s, i + 1)) = 0
    BY <2>1, FS_EmptySet
  <2> QED
    BY <1>1, <1>2, <1>3, <2>2
<1>4. CASE s[i] = "\\"
  <2>1. Backslashes(s, i + 1) = Backslashes(s, i) \union {i} /\ i \notin Backslashes(s, i)
    <3>1. ASSUME NEW j \in 1 .. i
          PROVE  (\A k \in j .. i : s[k] = "\\") <=> j = i \/ \A k \in j .. i - 1 : s[k] = "\\"
      BY <1>4
    <3>2. i + 1 - 1 = i /\ \A j \in 1 .. i : j \in 1 .. i - 1 \/ j = i
      OBVIOUS
    <3> QED
      BY <3>1, <3>2 DEF Backslashes
  <2>2. Cardinality(Backslashes(s, i + 1)) = Cardinality(Backslashes(s, i)) + 1
    BY <2>1, BackslashesFinite, FS_AddElement
  <2>3. \A n \in Nat : (n + 1) % 2 = 1 <=> n % 2 # 1
    OBVIOUS
  <2>4. i + 1 \in Nat /\ Cardinality(Backslashes(s, i)) \in Nat
    BY BackslashesFinite
  <2> QED
    BY <1>1, <1>2, <1>4, <2>2, <2>3, <2>4
<1> QED
  BY <1>3, <1>4

(* Only the characters in front of it matter. *)
EscapedAt(w, p, i) == IsEscaped(SubSeq(w, p, i - 1), i - p + 1)

(* Being escaped, counted in the text. *)
LEMMA EscapedIs ==
  ASSUME NEW w \in Texts, NEW p \in 1 .. Len(w), NEW j \in p .. Len(w), NEW i \in p .. j + 1
  PROVE  IsEscaped(SubSeq(w, p, j), i - p + 1) <=> EscapedAt(w, p, i)
<1> DEFINE s == SubSeq(w, p, j)
           u == SubSeq(w, p, i - 1)
           m == i - p + 1
<1>0. Len(w) \in Nat /\ p \in Nat /\ j \in Nat /\ i \in Nat /\ m \in Nat \ {0}
  BY DEF Texts
<1>1. ASSUME NEW k \in 1 .. m - 1 PROVE s[k] = w[p + k - 1] /\ u[k] = w[p + k - 1]
  <2>1. k \in 1 .. j - p + 1 /\ k \in 1 .. (i - 1) - p + 1 /\ i - 1 \in p .. Len(w)
    BY <1>0
  <2>2. s[k] = w[p + k - 1]
    BY <2>1, PartIs
  <2>3. u[k] = w[p + k - 1]
    BY <2>1, PartIs
  <2> QED
    BY <2>2, <2>3
<1> HIDE DEF s, u, m
<1>2. ASSUME NEW a \in 1 .. m - 1, NEW k \in a .. m - 1 PROVE s[k] = u[k]
  <2>1. k \in 1 .. m - 1
    BY <1>0
  <2> QED
    BY <1>1, <2>1
<1>3. {a \in 1 .. m - 1 : \A k \in a .. m - 1 : s[k] = "\\"}
        = {a \in 1 .. m - 1 : \A k \in a .. m - 1 : u[k] = "\\"}
  BY <1>2
<1> QED
  BY <1>3 DEF IsEscaped, EscapedAt, s, u, m

(* A character is escaped by the backslash before it, if that is not. *)
LEMMA EscapedAtNext ==
  ASSUME NEW w \in Texts, NEW p \in 1 .. Len(w), NEW i \in p .. Len(w)
  PROVE  /\ ~EscapedAt(w, p, p)
         /\ EscapedAt(w, p, i + 1) <=> w[i] = "\\" /\ ~EscapedAt(w, p, i)
<1> DEFINE s == SubSeq(w, p, i)
<1>0. Len(w) \in Nat /\ p \in Nat /\ i \in Nat /\ i - p + 1 \in Nat \ {0} /\ p - p + 1 = 1
      /\ (i + 1) - p + 1 = (i - p + 1) + 1 /\ i \in p .. i + 1 /\ i + 1 \in p .. i + 1
      /\ i \in p .. i
  BY DEF Texts
<1>1. ~EscapedAt(w, p, p)
  BY <1>0, EscapedNext DEF EscapedAt
<1>2. s[i - p + 1] = w[i]
  BY <1>0, PartIs
<1>3. /\ IsEscaped(s, i - p + 1) <=> EscapedAt(w, p, i)
      /\ IsEscaped(s, (i + 1) - p + 1) <=> EscapedAt(w, p, i + 1)
  BY <1>0, EscapedIs
<1> HIDE DEF s
<1> QED
  BY <1>0, <1>1, <1>2, <1>3, EscapedNext

(* What an escape is, in a part of the text. *)
LEMMA EscapeIs ==
  ASSUME NEW w \in Texts, NEW p \in 1 .. Len(w), NEW j \in p .. Len(w), NEW i \in p .. j
  PROVE  /\ IsEscape(SubSeq(w, p, j), i - p + 1) => IsEscape(w, i)
         /\ i < j /\ IsEscape(w, i) => IsEscape(SubSeq(w, p, j), i - p + 1)
<1> DEFINE s == SubSeq(w, p, j)
<1>0. Len(w) \in Nat /\ p \in Nat /\ j \in Nat /\ i \in Nat /\ i \in 1 .. Len(w) /\ i \in Int
  BY DEF Texts
<1>1. \A k \in p .. j : Char(s, k - p + 1) = w[k]
  BY PartIs
<1>2. DOMAIN s = 1 .. j - p + 1
  BY PartIs
<1> HIDE DEF s
<1>3. Char(s, i - p + 1) = w[i] /\ Char(w, i) = w[i]
  BY <1>0, <1>1, CharIs
<1>4. CASE i < j
  <2>1. i + 1 \in p .. j /\ (i + 1) - p + 1 = (i - p + 1) + 1 /\ i + 1 \in 1 .. Len(w) /\ i + 1 \in Int
    BY <1>0, <1>4
  <2>2. Char(s, (i - p + 1) + 1) = w[i + 1] /\ Char(w, i + 1) = w[i + 1]
    BY <1>1, <2>1, CharIs
  <2> QED
    BY <1>3, <2>2 DEF IsEscape, s
<1>5. CASE i = j
  <2>1. (i - p + 1) + 1 \notin 1 .. j - p + 1
    BY <1>0, <1>5
  <2>2. Char(s, (i - p + 1) + 1) = NoCharacter
    BY <1>2, <2>1 DEF Char
  <2>3. NoCharacter \notin HexDigits
    BY DEF NoCharacter, HexDigits, HexLetters, Digits, OctalDigits
  <2> QED
    BY <1>0, <1>3, <1>5, <2>2, <2>3 DEF IsEscape, s
<1> QED
  BY <1>0, <1>4, <1>5

(* A quoted token, told by the text. *)
LEMMA QuotedIs ==
  ASSUME NEW w \in Texts, NEW p \in 1 .. Len(w), NEW j \in p .. Len(w)
  PROVE  IsQuoted(SubSeq(w, p, j)) <=>
           /\ w[p] \in Quotes
           /\ j >= p + (IF w[p] = "'" THEN 2 ELSE 1)
           /\ \A i \in p + 1 .. j :
                /\ (w[i] = w[p] /\ ~EscapedAt(w, p, i)) <=> i = j
                /\ EscapedAt(w, p, i) => IsEscape(w, i)
                /\ w[i] # LF
<1> DEFINE s == SubSeq(w, p, j)
           Inside(i) == /\ (w[i] = w[p] /\ ~EscapedAt(w, p, i)) <=> i = j
                        /\ EscapedAt(w, p, i) => IsEscape(w, i)
                        /\ w[i] # LF
           Part1(k) == /\ (Char(s, k) = Char(s, 1) /\ ~IsEscaped(s, k)) <=> k = Len(s)
                       /\ IsEscaped(s, k) => IsEscape(s, k)
                       /\ Char(s, k) # LF
<1>0. Len(w) \in Nat /\ p \in Nat /\ j \in Nat
  BY DEF Texts
<1>1. /\ Char(s, 1) = w[p] /\ Len(s) = j - p + 1
  BY PartIs
<1>2. \A i \in p .. j : Char(s, i - p + 1) = w[i]
  BY PartIs
<1>3. IsQuoted(s) <=> /\ w[p] \in Quotes /\ Len(s) >= (IF w[p] = "'" THEN 3 ELSE 2)
                      /\ \A k \in 2 .. Len(s) : Part1(k)
  BY <1>1 DEF IsQuoted
<1>4. ASSUME NEW i \in p + 1 .. j
      PROVE  /\ (Char(s, i - p + 1) = Char(s, 1) /\ ~IsEscaped(s, i - p + 1))
                   <=> (w[i] = w[p] /\ ~EscapedAt(w, p, i))
             /\ i - p + 1 = Len(s) <=> i = j
             /\ IsEscaped(s, i - p + 1) <=> EscapedAt(w, p, i)
             /\ IsEscape(s, i - p + 1) => IsEscape(w, i)
             /\ i < j /\ IsEscape(w, i) => IsEscape(s, i - p + 1)
             /\ Char(s, i - p + 1) = w[i]
  <2>1. i \in p .. j /\ i \in p .. j + 1
    BY <1>0
  <2>2. Char(s, i - p + 1) = w[i]
    BY <1>2, <2>1
  <2>3. IsEscaped(s, i - p + 1) <=> EscapedAt(w, p, i)
    BY <2>1, EscapedIs
  <2>4. i - p + 1 = Len(s) <=> i = j
    BY <1>0, <1>1
  <2>5. /\ IsEscape(s, i - p + 1) => IsEscape(w, i)
        /\ i < j /\ IsEscape(w, i) => IsEscape(s, i - p + 1)
    BY <2>1, EscapeIs
  <2> HIDE DEF s
  <2> QED
    BY <1>1, <2>2, <2>3, <2>4, <2>5
<1> HIDE DEF s
<1>5. ASSUME NEW i \in p + 1 .. j PROVE Part1(i - p + 1) <=> Inside(i)
  <2>1. i = j \/ i < j
    BY <1>0
  <2> QED
    BY <1>4, <2>1
<1>6. (\A k \in 2 .. Len(s) : Part1(k)) <=> \A i \in p + 1 .. j : Inside(i)
  <2>1. ASSUME NEW i \in p + 1 .. j PROVE i - p + 1 \in 2 .. Len(s)
    BY <1>0, <1>1
  <2>2. ASSUME NEW k \in 2 .. Len(s) PROVE k + p - 1 \in p + 1 .. j /\ (k + p - 1) - p + 1 = k
    BY <1>0, <1>1
  <2> HIDE DEF Part1, Inside
  <2>3. ASSUME \A k \in 2 .. Len(s) : Part1(k), NEW i \in p + 1 .. j PROVE Inside(i)
    BY <1>5, <2>1, <2>3
  <2>4. ASSUME \A i \in p + 1 .. j : Inside(i), NEW k \in 2 .. Len(s) PROVE Part1(k)
    <3>1. Part1((k + p - 1) - p + 1)
      BY <1>5, <2>2, <2>4
    <3> QED
      BY <2>2, <3>1
  <2> QED
    BY <2>3, <2>4
<1>7. Len(s) >= (IF w[p] = "'" THEN 3 ELSE 2) <=> j >= p + (IF w[p] = "'" THEN 2 ELSE 1)
  BY <1>0, <1>1
<1> HIDE DEF Part1
<1> QED
  BY <1>3, <1>6, <1>7 DEF s

(* A quoted token has begun at p and does not end up to n. *)
Quotation(w, p, n) ==
  /\ w[p] \in Quotes
  /\ ~EscapedAt(w, p, n + 1)
  /\ \A i \in p + 1 .. n :
       /\ w[i] # LF
       /\ w[i] = w[p] => EscapedAt(w, p, i)
       /\ EscapedAt(w, p, i) => IsEscape(w, i)

(* It starts with its quote, *)
LEMMA QuotationStarts ==
  ASSUME NEW w \in Texts, NEW p \in 1 .. Len(w), w[p] \in Quotes
  PROVE  Quotation(w, p, p)
<1>1. p \in p .. Len(w) /\ p \in Int
  BY DEF Texts
<1>2. w[p] # "\\"
  BY DEF Quotes
<1>3. ~EscapedAt(w, p, p + 1)
  BY <1>1, <1>2, EscapedAtNext
<1> QED
  BY <1>1, <1>3 DEF Quotation

(* goes on with any character that ends nothing, *)
LEMMA QuotationGoesOn ==
  ASSUME NEW w \in Texts, NEW p \in 1 .. Len(w), NEW n \in p .. Len(w) - 1, Quotation(w, p, n),
         w[n + 1] \notin {LF, "\\", w[p]}
  PROVE  Quotation(w, p, n + 1)
<1>1. Len(w) \in Nat /\ p \in Nat /\ n \in Nat /\ n + 1 \in p .. Len(w)
  BY DEF Texts
<1>2. ~EscapedAt(w, p, (n + 1) + 1)
  BY <1>1, EscapedAtNext
<1>3. \A i \in p + 1 .. n + 1 : i \in p + 1 .. n \/ i = n + 1
  BY <1>1
<1> QED
  BY <1>2, <1>3 DEF Quotation

(* and with an escape sequence. *)
LEMMA QuotationEscapes ==
  ASSUME NEW w \in Texts, NEW p \in 1 .. Len(w), NEW n \in p .. Len(w) - 2, Quotation(w, p, n),
         w[n + 1] = "\\", IsEscape(w, n + 2)
  PROVE  Quotation(w, p, n + 2)
<1>1. /\ Len(w) \in Nat /\ p \in Nat /\ n \in Nat /\ n + 1 \in p .. Len(w) /\ n + 2 \in p .. Len(w)
      /\ (n + 1) + 1 = n + 2 /\ n + 2 \in 1 .. Len(w) /\ n + 2 \in Int
  BY DEF Texts
<1>2. EscapedAt(w, p, n + 2)
  <2>1. EscapedAt(w, p, (n + 1) + 1)
    BY <1>1, EscapedAtNext DEF Quotation
  <2> QED
    BY <1>1, <2>1
<1>3. ~EscapedAt(w, p, (n + 2) + 1)
  BY <1>1, <1>2, EscapedAtNext
<1>4. \A i \in p + 1 .. n + 2 : i \in p + 1 .. n \/ i = n + 1 \/ i = n + 2
  BY <1>1
<1>5. Char(w, n + 2) = w[n + 2]
  BY <1>1, CharIs
<1>6. w[n + 2] # LF
  BY <1>5 DEF IsEscape, PlainEscapes, Quotes, OctalDigits, LF
<1>7. w[n + 1] # LF /\ w[n + 1] # w[p]
  BY DEF Quotation, Quotes, LF
<1>8. ~EscapedAt(w, p, n + 1)
  BY DEF Quotation
<1>9. ASSUME NEW i \in p + 1 .. n + 2
      PROVE  /\ w[i] # LF
             /\ w[i] = w[p] => EscapedAt(w, p, i)
             /\ EscapedAt(w, p, i) => IsEscape(w, i)
  <2>1. CASE i \in p + 1 .. n  BY <2>1 DEF Quotation
  <2>2. CASE i = n + 1         BY <1>7, <1>8, <2>2
  <2>3. CASE i = n + 2         BY <1>2, <1>6, <2>3
  <2> QED
    BY <1>4, <2>1, <2>2, <2>3
<1>10. w[p] \in Quotes
  BY DEF Quotation
<1> QED
  BY <1>3, <1>9, <1>10 DEF Quotation

(* Until it ends no quoted token is there. *)
LEMMA QuotationOpen ==
  ASSUME NEW w \in Texts, NEW p \in 1 .. Len(w), NEW n \in p .. Len(w), Quotation(w, p, n),
         NEW j \in p .. n
  PROVE  ~IsToken(SubSeq(w, p, j))
<1>1. Len(w) \in Nat /\ p \in Nat /\ n \in Nat /\ j \in Nat /\ j \in p .. Len(w)
  BY DEF Texts
<1>2. CASE j = p
  <2>1. ~(j >= p + (IF w[p] = "'" THEN 2 ELSE 1))
    BY <1>1, <1>2
  <2>2. ~IsQuoted(SubSeq(w, p, j))
    BY <1>1, <2>1, QuotedIs
  <2> QED
    BY <1>1, <2>2, KindOfToken, KindsDiffer DEF Quotation
<1>3. CASE j # p
  <2>1. j \in p + 1 .. n /\ j \in p + 1 .. j
    BY <1>1, <1>3
  <2>2. w[j] = w[p] => EscapedAt(w, p, j)
    BY <2>1 DEF Quotation
  <2>3. ~IsQuoted(SubSeq(w, p, j))
    BY <1>1, <2>1, <2>2, QuotedIs
  <2> QED
    BY <1>1, <2>3, KindOfToken, KindsDiffer DEF Quotation
<1> QED
  BY <1>2, <1>3

(* The quote that ends it. *)
LEMMA QuotedLongest ==
  ASSUME NEW w \in Texts, NEW p \in 1 .. Len(w), NEW n \in p .. Len(w) - 1, Quotation(w, p, n),
         w[n + 1] = w[p]
  PROVE  /\ \A j \in n + 2 .. Len(w) : ~IsToken(SubSeq(w, p, j))
         /\ w[p] # "'" \/ n # p => Longest(w, p, n + 1)
         /\ w[p] = "'" /\ n = p => ~IsToken(SubSeq(w, p, n + 1))
<1>1. Len(w) \in Nat /\ p \in Nat /\ n \in Nat /\ n + 1 \in p .. Len(w) /\ w[p] \in Quotes
  BY DEF Texts, Quotation
<1>2. ~EscapedAt(w, p, n + 1)
  BY DEF Quotation
<1>3. ASSUME NEW j \in n + 2 .. Len(w) PROVE ~IsToken(SubSeq(w, p, j))
  <2>1. j \in p .. Len(w) /\ n + 1 \in p + 1 .. j /\ n + 1 # j
    BY <1>1
  <2>2. ~IsQuoted(SubSeq(w, p, j))
    BY <1>2, <2>1, QuotedIs
  <2> QED
    BY <1>1, <2>1, <2>2, KindOfToken, KindsDiffer
<1>4. ASSUME w[p] # "'" \/ n # p PROVE Longest(w, p, n + 1)
  <2>1. n + 1 >= p + (IF w[p] = "'" THEN 2 ELSE 1)
    BY <1>1, <1>4
  <2>2. ASSUME NEW i \in p + 1 .. n + 1
        PROVE  /\ (w[i] = w[p] /\ ~EscapedAt(w, p, i)) <=> i = n + 1
               /\ EscapedAt(w, p, i) => IsEscape(w, i)
               /\ w[i] # LF
    <3>1. CASE i = n + 1
      BY <1>1, <1>2, <3>1 DEF Quotes, LF
    <3>2. CASE i # n + 1
      <4>1. i \in p + 1 .. n
        BY <1>1, <3>2
      <4> QED
        BY <3>2, <4>1 DEF Quotation
    <3> QED
      BY <3>1, <3>2
  <2>3. IsQuoted(SubSeq(w, p, n + 1))
    BY <1>1, <2>1, <2>2, QuotedIs
  <2>4. IsToken(SubSeq(w, p, n + 1))
    BY <1>1, <2>3, KindOfToken
  <2>5. ~StartsComment(w, p)
    BY <1>1, CommentStart, KindsDiffer
  <2>6. p \in 1 .. n + 1 /\ n + 1 \in 1 .. Len(w) /\ (n + 1) + 1 = n + 2
    BY <1>1
  <2> QED
    BY <1>3, <2>4, <2>5, <2>6 DEF Longest
<1>5. ASSUME w[p] = "'" /\ n = p PROVE ~IsToken(SubSeq(w, p, n + 1))
  <2>1. ~(n + 1 >= p + (IF w[p] = "'" THEN 2 ELSE 1))
    BY <1>1, <1>5
  <2>2. ~IsQuoted(SubSeq(w, p, n + 1))
    BY <1>1, <2>1, QuotedIs
  <2> QED
    BY <1>1, <2>2, KindOfToken, KindsDiffer
<1> QED
  BY <1>3, <1>4, <1>5

(* What it cannot go on with. *)
LEMMA QuotationIllegal ==
  ASSUME NEW w \in Texts, NEW p \in 1 .. Len(w), NEW n \in p .. Len(w), Quotation(w, p, n),
         \/ n = Len(w)
         \/ w[n + 1] = LF
         \/ w[n + 1] = "\\" /\ (n + 1 = Len(w) \/ ~IsEscape(w, n + 2))
         \/ w[n + 1] = w[p] /\ w[p] = "'" /\ n = p
  PROVE  IllegalAt(w, p)
<1>1. Len(w) \in Nat /\ p \in Nat /\ n \in Nat /\ w[p] \in Quotes
  BY DEF Texts, Quotation
<1>2. ASSUME NEW j \in p .. Len(w) PROVE ~IsToken(SubSeq(w, p, j))
  <2>1. CASE j <= n
    <3>1. j \in p .. n
      BY <1>1, <2>1
    <3> QED
      BY <3>1, QuotationOpen
  <2>2. CASE j > n
    <3>1. j \in n + 1 .. Len(w) /\ n \in p .. Len(w) - 1 /\ n + 1 \in p + 1 .. j /\ n # Len(w)
      BY <1>1, <2>2
    <3>2. CASE w[n + 1] = w[p] /\ w[p] = "'" /\ n = p
      <4>1. j = n + 1 \/ j \in n + 2 .. Len(w)
        BY <1>1, <3>1
      <4> QED
        BY <3>1, <3>2, <4>1, QuotedLongest
    <3>3. CASE w[n + 1] = LF
      <4>1. ~IsQuoted(SubSeq(w, p, j))
        BY <3>1, <3>3, QuotedIs
      <4> QED
        BY <1>1, <4>1, KindOfToken, KindsDiffer
    <3>4. CASE w[n + 1] = "\\" /\ (n + 1 = Len(w) \/ ~IsEscape(w, n + 2))
      <4>1. w[n + 1] # w[p]
        BY <1>1, <3>4 DEF Quotes
      <4>2. CASE j = n + 1
        <5>1. ~IsQuoted(SubSeq(w, p, j))
          BY <3>1, <4>1, <4>2, QuotedIs
        <5> QED
          BY <1>1, <5>1, KindOfToken, KindsDiffer
      <4>3. CASE j # n + 1
        <5>1. n + 2 \in p + 1 .. j /\ n + 1 # Len(w) /\ (n + 1) + 1 = n + 2 /\ n + 1 \in p .. Len(w)
          BY <1>1, <3>1, <4>3
        <5>2. EscapedAt(w, p, (n + 1) + 1)
          BY <3>4, <5>1, EscapedAtNext DEF Quotation
        <5>3. EscapedAt(w, p, n + 2) /\ ~IsEscape(w, n + 2)
          BY <3>4, <5>1, <5>2
        <5>4. ~IsQuoted(SubSeq(w, p, j))
          BY <5>1, <5>3, QuotedIs
        <5> QED
          BY <1>1, <5>4, KindOfToken, KindsDiffer
      <4> QED
        BY <4>2, <4>3
    <3> QED
      BY <3>1, <3>2, <3>3, <3>4
  <2> QED
    BY <1>1, <2>1, <2>2
<1>3. ~StartsComment(w, p)
  BY <1>1, CommentStart, KindsDiffer
<1>4. Char(w, p) = w[p]
  BY <1>1, CharIs
<1> QED
  BY <1>1, <1>2, <1>3, <1>4, KindsDiffer DEF IllegalAt

-----------------------------------------------------------------------------
(* A punctuator begins at p, and what is left of it is one up to n - 1. *)
Punctuation(w, p, n) ==
  /\ Single(w[p]) /\ ~StartsComment(w, p)
  /\ p < n => SubSeq(w, p, n - 1) \in Punctuators

(* One that cannot get longer, at the end of the text. *)
LEMMA PunctuationEnds ==
  ASSUME NEW w \in Texts, NEW p \in 1 .. Len(w), Punctuation(w, p, Len(w)),
         SubSeq(w, p, Len(w)) \in Punctuators
  PROVE  Longest(w, p, Len(w))
<1>1. Len(w) \in p .. Len(w) /\ Len(w) + 1 .. Len(w) = {}
  BY DEF Texts
<1> QED
  BY <1>1, PunctuatorLongest DEF Punctuation

(* What has not become a longer one gives its last character back. *)
LEMMA PunctuationGivesBack ==
  ASSUME NEW w \in Texts, NEW p \in 1 .. Len(w), NEW n \in p .. Len(w), Punctuation(w, p, n),
         SubSeq(w, p, n) \notin Punctuators \union OpenEnded
  PROVE  p < n /\ Longest(w, p, n - 1)
<1>0. Len(w) \in Nat /\ p \in Nat /\ n \in Nat
  BY DEF Texts
<1>1. p < n
  <2>1. n # p
    BY ShortParts DEF Punctuation, Single
  <2> QED
    BY <1>0, <2>1
<1>2. n - 1 \in p .. Len(w) /\ (n - 1) + 1 = n
  BY <1>0, <1>1
<1>3. \A j \in n .. Len(w) : SubSeq(w, p, j) \notin Punctuators
  BY PunctuatorPrefix
<1> QED
  BY <1>1, <1>2, <1>3, PunctuatorLongest DEF Punctuation

(* An open end closes with the next character ... *)
LEMMA PunctuationCloses ==
  ASSUME NEW w \in Texts, NEW p \in 1 .. Len(w), NEW n \in p .. Len(w) - 1, Punctuation(w, p, n),
         SubSeq(w, p, n) \in OpenEnded, SubSeq(w, p, n + 1) \in Punctuators
  PROVE  Longest(w, p, n + 1)
<1>0. Len(w) \in Nat /\ p \in Nat /\ n \in Nat /\ n \in p .. Len(w) /\ n + 1 \in p .. Len(w)
  BY DEF Texts
<1>1. ASSUME NEW j \in (n + 1) + 1 .. Len(w) PROVE SubSeq(w, p, j) \notin Punctuators
  <2> DEFINE s == SubSeq(w, p, j)
  <2>1. j \in p .. Len(w) /\ j \in Nat
    BY <1>0
  <2>2. Len(s) = j - p + 1 /\ s[1] = w[p]
    BY <2>1, PartIs
  <2>3. \/ n = p + 2
        \/ n = p + 1 /\ w[p] = "."
    BY <1>0, OpenEndedIs
  <2> HIDE DEF s
  <2>4. CASE n = p + 2
    <3>1. Len(s) \notin 1 .. 4
      BY <1>0, <2>1, <2>2, <2>4
    <3> QED
      BY <3>1, PunctuatorStarts DEF s
  <2>5. CASE n = p + 1 /\ w[p] = "."
    <3>1. Len(s) >= 4 /\ s[1] = "."
      BY <1>0, <2>1, <2>2, <2>5
    <3>2. ASSUME s = <<".", ".", ".">> PROVE FALSE
      <4>1. Len(s) = 3
        BY <3>2
      <4> QED
        BY <3>1, <4>1
    <3>3. /\ s # <<"<", "<", "=">> /\ s # <<">", ">", "=">> /\ s # <<"%", ":", "%", ":">>
      BY <3>1
    <3>4. s \in Punctuators => Len(s) >= 3
      BY <3>1, PunctuatorStarts
    <3> QED
      BY <3>2, <3>3, <3>4, LongPunctuators DEF s
  <2> QED
    BY <2>3, <2>4, <2>5
<1> QED
  BY <1>0, <1>1, PunctuatorLongest DEF Punctuation

(* ... or leaves the shorter one and the start of another. *)
LEMMA PunctuationSplits ==
  ASSUME NEW w \in Texts, NEW p \in 1 .. Len(w), NEW n \in p .. Len(w), Punctuation(w, p, n),
         SubSeq(w, p, n) \in OpenEnded,
         n = Len(w) \/ SubSeq(w, p, n + 1) \notin Punctuators
  PROVE  /\ p < n /\ Longest(w, p, n - 1)
         /\ SubSeq(w, p, n - 1) = IF w[p] = "." THEN <<".">> ELSE <<"%", ":">>
         /\ w[n] # LF
         /\ Punctuation(w, n, n)
         /\ Punctuation(w, n, n + 1)
<1>0. Len(w) \in Nat /\ p \in Nat /\ n \in Nat /\ n \in 1 .. Len(w) /\ n \in n .. Len(w)
  BY DEF Texts
<1>1. \/ n = p + 2 /\ w[p] = "%" /\ w[p + 1] = ":" /\ w[p + 2] = "%"
      \/ n = p + 1 /\ w[p] = "." /\ w[p + 1] = "."
  BY OpenEndedIs
<1>2. p < n /\ n - 1 \in p .. Len(w) /\ (n - 1) + 1 = n
  BY <1>0, <1>1
<1>3. w[n] \in {"%", "."}
  BY <1>1
<1>4. SubSeq(w, p, n - 1) = IF w[p] = "." THEN <<".">> ELSE <<"%", ":">>
  <2>1. CASE n = p + 2 /\ w[p] = "%" /\ w[p + 1] = ":"
    <3>1. n - 1 = p + 1 /\ p + 1 <= Len(w)
      BY <1>0, <2>1
    <3> QED
      BY <2>1, <3>1, ShortParts
  <2>2. CASE n = p + 1 /\ w[p] = "."
    <3>1. n - 1 = p
      BY <1>0, <2>2
    <3> QED
      BY <2>2, <3>1, ShortParts
  <2> QED
    BY <1>1, <2>1, <2>2
<1>5. SubSeq(w, p, n) \notin Punctuators
  BY OpenEndedIs
<1>6. ASSUME NEW j \in n .. Len(w) PROVE SubSeq(w, p, j) \notin Punctuators
  <2>1. CASE j = n
    BY <1>5, <2>1
  <2>2. CASE j # n
    <3>1. n + 1 \in p .. Len(w) /\ j \in n + 1 .. Len(w) /\ n # Len(w)
      BY <1>0, <2>2
    <3>2. SubSeq(w, p, n + 1) \notin Punctuators
      BY <3>1
    <3>3. SubSeq(w, p, n + 1) \notin OpenEnded
      <4>1. ASSUME SubSeq(w, p, n + 1) \in OpenEnded PROVE FALSE
        <5>1. \/ n + 1 = p + 2 /\ w[p] = "%"
              \/ n + 1 = p + 1
          BY <3>1, <4>1, OpenEndedIs
        <5>2. n = p + 1 /\ w[p] = "%"
          BY <1>0, <1>2, <5>1
        <5> QED
          BY <1>0, <1>1, <5>2
      <4> QED
        BY <4>1
    <3> QED
      BY <3>1, <3>2, <3>3, PunctuatorPrefix
  <2> QED
    BY <2>1, <2>2
<1>7. Longest(w, p, n - 1)
  BY <1>2, <1>6, PunctuatorLongest DEF Punctuation
<1>8. Single(w[n]) /\ w[n] # "/"
  BY <1>3 DEF Single, Punctuators
<1>9. ~StartsComment(w, n)
  BY <1>0, <1>8, CommentStart
<1>10. SubSeq(w, n, (n + 1) - 1) \in Punctuators
  <2>1. (n + 1) - 1 = n
    BY <1>0
  <2>2. SubSeq(w, n, n) = <<w[n]>>
    BY <1>0, ShortParts
  <2> QED
    BY <1>8, <2>1, <2>2 DEF Single
<1> QED
  BY <1>0, <1>2, <1>3, <1>4, <1>7, <1>8, <1>9, <1>10 DEF Punctuation, LF

-----------------------------------------------------------------------------
(* The tokens returned. *)
StartIn(w, pos) == CHOOSE i \in 1 .. Len(w) : PositionOf(w, i) = pos
EndIn(w, e)     == StartIn(w, e.pos) + Len(e.value) - 1
EndsAt(w, toks) == IF toks = <<>> THEN 0 ELSE EndIn(w, toks[Len(toks)])

TokenTypes  == {"NULLPOINTER", "KEYWORD", "IDENTIFIER", "INT", "CHAR", "STRINGLITERAL", "PUNCTUATOR"}
TokensOf(w) == [type : TokenTypes, value : Texts, pos : {PositionOf(w, i) : i \in 1 .. Len(w)}]

EndBefore(w, toks, k) == IF k = 1 THEN 0 ELSE EndIn(w, toks[k - 1])

(* Each stands where it says, is as long as it can be, and only blanks and *)
(* comments are in front of it.                                            *)
TokensIn(w, toks) ==
  /\ toks \in Seq(TokensOf(w))
  /\ \A k \in DOMAIN toks :
       LET i == StartIn(w, toks[k].pos)  j == EndIn(w, toks[k]) IN
       /\ SubSeq(w, i, j) = toks[k].value
       /\ Longest(w, i, j)
       /\ Gap(w, EndBefore(w, toks, k) + 1, i)

(* A position belongs to one character. *)
LEMMA StartIs ==
  ASSUME NEW w \in Texts, NEW p \in 1 .. Len(w)
  PROVE  /\ StartIn(w, PositionOf(w, p)) = p
         /\ {i \in 1 .. Len(w) : PositionOf(w, i) = PositionOf(w, p)} = {p}
<1>0. Len(w) \in Nat
  BY DEF Texts
<1>1. ASSUME NEW i \in 1 .. Len(w), PositionOf(w, i) = PositionOf(w, p) PROVE i = p
  <2>1. ~(i < p) /\ ~(p < i)
    BY <1>0, <1>1, PositionsDiffer
  <2> QED
    BY <1>0, <2>1
<1>2. {i \in 1 .. Len(w) : PositionOf(w, i) = PositionOf(w, p)} = {p}
  BY <1>1
<1>3. StartIn(w, PositionOf(w, p)) = p
  BY <1>1 DEF StartIn
<1> QED
  BY <1>2, <1>3

(* One more token. *)
LEMMA TokenAppended ==
  ASSUME NEW w \in Texts, NEW toks, TokensIn(w, toks), NEW p, NEW q, Longest(w, p, q),
         Gap(w, EndsAt(w, toks) + 1, p), NEW type \in TokenTypes,
         NEW e, e = [type |-> type, value |-> SubSeq(w, p, q), pos |-> PositionOf(w, p)]
  PROVE  TokensIn(w, Append(toks, e)) /\ EndsAt(w, Append(toks, e)) = q
<1> DEFINE all == Append(toks, e)
<1>0. /\ Len(w) \in Nat /\ p \in 1 .. q /\ q \in 1 .. Len(w) /\ p \in 1 .. Len(w) /\ q \in p .. Len(w)
      /\ toks \in Seq(TokensOf(w)) /\ Len(toks) \in Nat /\ p \in Nat /\ q \in Nat
      /\ DOMAIN toks = 1 .. Len(toks)
  BY DEF Texts, Longest, TokensIn
<1>1. SubSeq(w, p, q) \in Texts /\ Len(SubSeq(w, p, q)) = q - p + 1
  BY <1>0, PartIs, SMTT(40)
<1>2. e \in TokensOf(w)
  BY <1>0, <1>1 DEF TokensOf
<1>3. StartIn(w, e.pos) = p /\ EndIn(w, e) = q
  BY <1>0, <1>1, StartIs DEF EndIn
<1>4. /\ all \in Seq(TokensOf(w)) /\ Len(all) = Len(toks) + 1 /\ DOMAIN all = 1 .. Len(toks) + 1
      /\ all[Len(toks) + 1] = e /\ \A k \in 1 .. Len(toks) : all[k] = toks[k]
  BY <1>0, <1>2
<1>5. EndsAt(w, all) = q
  <2>1. all # <<>>
    BY <1>0, <1>4
  <2> HIDE DEF all
  <2> QED
    BY <1>3, <1>4, <2>1 DEF EndsAt
<1>6. EndBefore(w, all, Len(toks) + 1) = EndsAt(w, toks)
  <2>1. CASE toks = <<>>
    BY <2>1 DEF EndBefore, EndsAt
  <2>2. CASE toks # <<>>
    <3>1. Len(toks) \in 1 .. Len(toks) /\ Len(toks) + 1 # 1 /\ (Len(toks) + 1) - 1 = Len(toks)
      BY <1>0, <2>2
    <3> HIDE DEF all
    <3> QED
      BY <1>4, <2>2, <3>1 DEF EndBefore, EndsAt
  <2> QED
    BY <2>1, <2>2
<1>7. ASSUME NEW k \in 1 .. Len(toks)
      PROVE  all[k] = toks[k] /\ EndBefore(w, all, k) = EndBefore(w, toks, k)
  <2>1. k # 1 => k - 1 \in 1 .. Len(toks)
    BY <1>0
  <2> HIDE DEF all
  <2> QED
    BY <1>4, <2>1 DEF EndBefore
<1> HIDE DEF all
<1>8. ASSUME NEW k \in DOMAIN all
      PROVE  /\ SubSeq(w, StartIn(w, all[k].pos), EndIn(w, all[k])) = all[k].value
             /\ Longest(w, StartIn(w, all[k].pos), EndIn(w, all[k]))
             /\ Gap(w, EndBefore(w, all, k) + 1, StartIn(w, all[k].pos))
  <2>1. CASE k \in 1 .. Len(toks)
    BY <1>0, <1>7, <2>1 DEF TokensIn
  <2>2. CASE k = Len(toks) + 1
    BY <1>3, <1>4, <1>6, <2>2
  <2> QED
    BY <1>0, <1>4, <2>1, <2>2
<1>9. TokensIn(w, all)
  BY <1>4, <1>8 DEF TokensIn
<1> QED
  BY <1>5, <1>9 DEF all

-----------------------------------------------------------------------------
(* Where the lexer is, having read n characters of w and returned tokens up *)
(* to e.                                                                    *)
Begun(w, e, p) == p \in 1 .. Len(w) /\ Gap(w, e + 1, p)

InToken(w, e, p, n, pos, word) ==
  Begun(w, e, p) /\ p <= n /\ pos = PositionOf(w, p) /\ word = SubSeq(w, p, n)

InLine(w, e, n) ==
  \E c \in 1 .. n - 1 : /\ Begun(w, e, c) /\ w[c] = "/" /\ w[c + 1] = "/"
                        /\ \A j \in c .. n : w[j] # LF

InBlock(w, e, n) ==
  \E c \in 1 .. n - 1 : /\ Begun(w, e, c) /\ w[c] = "/" /\ w[c + 1] = "*"
                        /\ \A j \in c + 3 .. n + 1 :
                             j <= Len(w) => ~(w[j - 1] = "*" /\ w[j] = "/")

InIdent(w, e, n, pos, word) ==
  \E p \in 1 .. n : /\ InToken(w, e, p, n, pos, word) /\ w[p] \in WordStart
                    /\ \A j \in p + 1 .. n : w[j] \in WordCharacter

InDecimal(w, e, n, pos, word) ==
  \E p \in 1 .. n : /\ InToken(w, e, p, n, pos, word) /\ w[p] \in Digits \ {"0"}
                    /\ \A j \in p + 1 .. n : w[j] \in Digits

InQuoted(w, e, n, pos, word) ==
  \E p \in 1 .. n : InToken(w, e, p, n, pos, word) /\ Quotation(w, p, n)

InPunctuator(w, e, n, pos, word, t) ==
  \E p \in 1 .. n : /\ InToken(w, e, p, n, pos, word) /\ Punctuation(w, p, n)
                    /\ p < n => Fresh(t, w, n)

Refused(w, e) == \E p \in 1 .. Len(w) : Begun(w, e, p) /\ IllegalAt(w, p)

(* The same of the lexer's variables.  The loops over digits of an escape  *)
(* do not notice the end of the file.                                      *)
Place(n) ==
  /\ Tracked(tracker, text, n)
  /\ at \in {"idle", "skipping", "blank", "line", "block", "punctuator"} => curword = <<>>
  /\ at \in {"skipping", "blank", "end"} \/ (at = "idle" /\ ~notDoneYet) =>
       Gap(text, EndsAt(text, tokens) + 1, n + 1)
  /\ at = "end" => n = Len(text)
  /\ at = "line" => InLine(text, EndsAt(text, tokens), n)
  /\ at = "block" => InBlock(text, EndsAt(text, tokens), n)
  /\ at = "ident" => InIdent(text, EndsAt(text, tokens), n, tracker.stored, curword)
  /\ at = "decimal" => InDecimal(text, EndsAt(text, tokens), n, tracker.stored, curword)
  /\ at = "quoted" => InQuoted(text, EndsAt(text, tokens), n, tracker.stored, curword)
  /\ at = "hex" =>
       \/ AtEnd(tracker) /\ tracker.current \in HexDigits
       \/ /\ Fresh(tracker, text, n)
          /\ InQuoted(text, EndsAt(text, tokens), n - 1, tracker.stored, curword)
  /\ at = "octal" =>
       /\ tracker.current \in OctalDigits
       /\ \/ AtEnd(tracker)
          \/ InQuoted(text, EndsAt(text, tokens), n, tracker.stored, curword)
  /\ at = "punctuator" =>
       InPunctuator(text, EndsAt(text, tokens), n, tracker.stored, partial, tracker)
  /\ at = "idle" /\ notDoneYet =>
       InPunctuator(text, EndsAt(text, tokens), n, tmpPos, partial, tracker)
  /\ at = "failed" => Refused(text, EndsAt(text, tokens))

LexInv ==
  /\ text \in Texts /\ TokensIn(text, tokens)
  /\ \E n \in 0 .. Len(text) : Place(n)

-----------------------------------------------------------------------------
(* White space and comments. *)
LEMMA GapFollows ==
  ASSUME NEW w \in Texts, NEW i, NEW m, Gap(w, i, m), m <= Len(w),
         NEW r \in m .. Len(w) + 1, Follows(w, m, r)
  PROVE  Gap(w, i, r)
<1>1. i \in 1 .. Len(w) + 1
  BY DEF Gap, Texts
<1> QED
  BY <1>1, GapGrows

(* A gap grows by a blank. *)
LEMMA GapBlank ==
  ASSUME NEW w \in Texts, NEW i, NEW n \in 0 .. Len(w), Gap(w, i, n + 1), n + 1 <= Len(w),
         w[n + 1] \in Blanks
  PROVE  Gap(w, i, (n + 1) + 1)
<1>1. Len(w) \in Nat /\ n + 1 <= Len(w) /\ (n + 1) + 1 \in n + 1 .. Len(w) + 1
  BY DEF Texts
<1>2. Follows(w, n + 1, (n + 1) + 1)
  BY DEF Follows
<1> QED
  BY <1>1, <1>2, GapFollows

(* What a step that returns no token has to show. *)
LEMMA StaysIn ==
  ASSUME LexInv, text' = text, tokens' = tokens, NEW n \in 0 .. Len(text), Place(n)'
  PROVE  LexInv'
  BY DEF LexInv

(* Where the search for a token starts. *)
LEMMA StartingPlace ==
  ASSUME NEW n, Place(n), Starting
  PROVE  /\ Tracked(tracker, text, n) /\ Gap(text, EndsAt(text, tokens) + 1, n + 1)
         /\ curword = <<>>
  BY DEF Place, Starting

(* The end of the file ends the search. *)
LEMMA ReachEndKeeps ==
  ASSUME LexInv, text' = text, ReachEnd
  PROVE  LexInv'
<1>1. PICK n \in 0 .. Len(text) : Place(n)
  BY DEF LexInv
<1>2. /\ at' = "end" /\ tracker' = StorePosition(tracker, tracker.position)
      /\ UNCHANGED <<curword, tokens>> /\ Starting /\ AtEnd(tracker)
  BY DEF ReachEnd, Goto
<1>3. text \in Texts
  BY DEF LexInv
<1>4. Tracked(tracker, text, n) /\ Gap(text, EndsAt(text, tokens) + 1, n + 1)
  BY <1>1, <1>2, StartingPlace
<1>5. n = Len(text)
  BY <1>2, <1>3, <1>4, AdvanceTracks
<1>6. Tracked(tracker', text', n)
  <2>1. DOMAIN tracker = Fields
    BY <1>4 DEF Tracked
  <2>2. Tracked(StorePosition(tracker, tracker.position), text, n)
    BY <1>4, <2>1, StoreTracks
  <2> QED
    BY <1>2, <2>2
<1>7. Place(n)'
  BY <1>2, <1>4, <1>5, <1>6 DEF Place
<1> QED
  BY <1>2, <1>7, StaysIn

(* A blank is skipped ... *)
LEMMA StartBlankKeeps ==
  ASSUME LexInv, text' = text, StartBlank
  PROVE  LexInv'
<1>1. PICK n \in 0 .. Len(text) : Place(n)
  BY DEF LexInv
<1> DEFINE t == Advance(tracker)
<1>2. /\ at' = "blank" /\ tracker' = t /\ t.current \in Blanks
      /\ UNCHANGED <<curword, tokens>> /\ Starting /\ ~AtEnd(tracker)
  BY DEF StartBlank, Skip, Goto
<1>3. text \in Texts
  BY DEF LexInv
<1>4. Tracked(tracker, text, n) /\ Gap(text, EndsAt(text, tokens) + 1, n + 1) /\ curword = <<>>
  BY <1>1, <1>2, StartingPlace
<1>5. n + 1 \in 1 .. Len(text) /\ Tracked(t, text, n + 1) /\ t.current = text[n + 1]
  BY <1>2, <1>3, <1>4, AdvanceTracks
<1>6. n + 1 <= Len(text) /\ n + 1 \in 0 .. Len(text)
  BY <1>3, <1>5 DEF Texts
<1>7. Gap(text, EndsAt(text, tokens) + 1, (n + 1) + 1)
  BY <1>2, <1>3, <1>4, <1>5, <1>6, GapBlank
<1> HIDE DEF t
<1>8. Place(n + 1)'
  BY <1>2, <1>4, <1>5, <1>7 DEF Place
<1> QED
  BY <1>2, <1>6, <1>8, StaysIn

(* ... and those behind it, but not what ends them. *)
LEMMA ConsumeWhitespaceKeeps ==
  ASSUME LexInv, text' = text, ConsumeWhitespace
  PROVE  LexInv'
<1>1. PICK n \in 0 .. Len(text) : Place(n)
  BY DEF LexInv
<1> DEFINE t == Advance(tracker)
<1>2. /\ at = "blank" /\ UNCHANGED <<curword, tokens>>
      /\ IF AtEnd(tracker) THEN at' = "skipping" /\ tracker' = t
         ELSE IF t.current \in Blanks THEN at' = "blank" /\ tracker' = t
         ELSE at' = "skipping" /\ tracker' = Rewind(t)
  BY DEF ConsumeWhitespace, Skip, Goto
<1>3. text \in Texts
  BY DEF LexInv
<1>4. Tracked(tracker, text, n) /\ Gap(text, EndsAt(text, tokens) + 1, n + 1) /\ curword = <<>>
  BY <1>1, <1>2 DEF Place
<1>5. CASE AtEnd(tracker)
  <2>1. Tracked(t, text, n)
    BY <1>3, <1>4, <1>5, AdvanceTracks
  <2> HIDE DEF t
  <2>2. Place(n)'
    BY <1>2, <1>4, <1>5, <2>1 DEF Place
  <2> QED
    BY <1>2, <2>2, StaysIn
<1>6. CASE ~AtEnd(tracker)
  <2>1. /\ n + 1 \in 1 .. Len(text) /\ Tracked(t, text, n + 1) /\ Fresh(t, text, n + 1)
        /\ t.current = text[n + 1]
    BY <1>3, <1>4, <1>6, AdvanceTracks
  <2>2. n + 1 <= Len(text) /\ n + 1 \in 0 .. Len(text) /\ (n + 1) - 1 = n
    BY <1>3, <2>1 DEF Texts
  <2> HIDE DEF t
  <2>3. CASE t.current \in Blanks
    <3>1. Gap(text, EndsAt(text, tokens) + 1, (n + 1) + 1)
      BY <1>3, <1>4, <2>1, <2>2, <2>3, GapBlank
    <3>2. Place(n + 1)'
      BY <1>2, <1>4, <1>6, <2>1, <2>3, <3>1 DEF Place
    <3> QED
      BY <1>2, <2>2, <3>2, StaysIn
  <2>4. CASE t.current \notin Blanks
    <3>1. Tracked(Rewind(t), text, n)
      BY <1>3, <2>1, <2>2, RewindTracks
    <3>2. Place(n)'
      BY <1>2, <1>4, <1>6, <2>4, <3>1 DEF Place
    <3> QED
      BY <1>2, <3>2, StaysIn
  <2> QED
    BY <2>3, <2>4
<1> QED
  BY <1>5, <1>6

(* A comment starts ... *)
LEMMA StartCommentKeeps ==
  ASSUME LexInv, text' = text, StartComment
  PROVE  LexInv'
<1>1. PICK n \in 0 .. Len(text) : Place(n)
  BY DEF LexInv
<1> DEFINE t == Advance(tracker)
           u == Advance(t)
           c == n + 1
           m == n + 2
<1>2. /\ Starting /\ ~AtEnd(tracker) /\ UNCHANGED <<curword, tokens>>
      /\ t.current = "/" /\ ~AtEnd(t) /\ u.current \in {"*", "/"}
      /\ at' = (IF u.current = "*" THEN "block" ELSE "line") /\ tracker' = u
  BY DEF StartComment, Goto
<1>3. text \in Texts
  BY DEF LexInv
<1>4. Tracked(tracker, text, n) /\ Gap(text, EndsAt(text, tokens) + 1, c) /\ curword = <<>>
  BY <1>1, <1>2, StartingPlace
<1>5. c \in 1 .. Len(text) /\ Tracked(t, text, c) /\ t.current = text[c]
  BY <1>2, <1>3, <1>4, AdvanceTracks
<1>6. m \in 1 .. Len(text) /\ Tracked(u, text, m) /\ u.current = text[c + 1]
  <2>1. c + 1 \in 1 .. Len(text) /\ Tracked(u, text, c + 1) /\ u.current = text[c + 1]
    <3> HIDE DEF t, c
    <3> QED
      BY <1>2, <1>3, <1>5, AdvanceTracks
  <2>2. c + 1 = m
    OBVIOUS
  <2> QED
    BY <2>1, <2>2
<1>7. /\ Len(text) \in Nat /\ c \in 1 .. m - 1 /\ m \in 0 .. Len(text)
      /\ \A j \in c + 3 .. m + 1 : FALSE
      /\ \A j \in c .. m : j = c \/ j = c + 1
  BY <1>3, <1>6 DEF Texts
<1>8. Begun(text, EndsAt(text, tokens), c)
  BY <1>4, <1>5 DEF Begun
<1> HIDE DEF t, u, c, m
<1>9. CASE u.current = "*"
  <2>1. InBlock(text, EndsAt(text, tokens), m)
    BY <1>2, <1>5, <1>6, <1>7, <1>8, <1>9 DEF InBlock
  <2>2. Place(m)'
    BY <1>2, <1>4, <1>6, <1>9, <2>1 DEF Place
  <2> QED
    BY <1>2, <1>7, <2>2, StaysIn
<1>10. CASE u.current = "/"
  <2>1. InLine(text, EndsAt(text, tokens), m)
    BY <1>2, <1>5, <1>6, <1>7, <1>8, <1>10 DEF InLine, LF
  <2>2. Place(m)'
    BY <1>2, <1>4, <1>6, <1>10, <2>1 DEF Place
  <2> QED
    BY <1>2, <1>7, <2>2, StaysIn
<1> QED
  BY <1>2, <1>9, <1>10

(* ... and ends with the line ... *)
LEMMA ConsumeLineCommentKeeps ==
  ASSUME LexInv, text' = text, ConsumeLineComment
  PROVE  LexInv'
<1>1. PICK n \in 0 .. Len(text) : Place(n)
  BY DEF LexInv
<1> DEFINE t == Advance(tracker)
           e == EndsAt(text, tokens)
<1>2. /\ at = "line" /\ UNCHANGED <<curword, tokens>> /\ tracker' = t
      /\ at' = (IF AtEnd(tracker) \/ t.current = LF THEN "skipping" ELSE "line")
  BY DEF ConsumeLineComment, Skip, Goto
<1>3. text \in Texts /\ Len(text) \in Nat
  BY DEF LexInv, Texts
<1>4. Tracked(tracker, text, n) /\ InLine(text, e, n) /\ curword = <<>>
  BY <1>1, <1>2 DEF Place
<1>5. PICK c \in 1 .. n - 1 : /\ Begun(text, e, c) /\ text[c] = "/" /\ text[c + 1] = "/"
                              /\ \A j \in c .. n : text[j] # LF
  BY <1>4 DEF InLine
<1>6. Gap(text, e + 1, c) /\ c <= Len(text) /\ c \in 1 .. Len(text) - 1 /\ n \in c + 1 .. Len(text)
      /\ n + 1 \in c .. Len(text) + 1
  BY <1>3, <1>5 DEF Begun
<1>7. CASE AtEnd(tracker)
  <2>1. n = Len(text) /\ Tracked(t, text, n)
    BY <1>3, <1>4, <1>7, AdvanceTracks
  <2>2. \A j \in c .. n - 1 : text[j] # LF
    BY <1>5, <1>6
  <2>3. Follows(text, c, n + 1)
    BY <1>3, <1>5, <1>6, <2>1, <2>2, LineCommentFollows
  <2>4. Gap(text, e + 1, n + 1)
    BY <1>3, <1>6, <2>3, GapFollows
  <2> HIDE DEF t
  <2>5. Place(n)'
    BY <1>2, <1>4, <1>7, <2>1, <2>4 DEF Place
  <2> QED
    BY <1>2, <2>5, StaysIn
<1>8. CASE ~AtEnd(tracker)
  <2> DEFINE m == n + 1
  <2>1. m \in 1 .. Len(text) /\ Tracked(t, text, m) /\ t.current = text[m]
    BY <1>3, <1>4, <1>8, AdvanceTracks
  <2>2. /\ m \in 0 .. Len(text) /\ m \in c + 1 .. Len(text) /\ m + 1 \in c .. Len(text) + 1
        /\ c \in 1 .. m - 1
        /\ \A j \in c .. m : j \in c .. n \/ j = m
        /\ \A j \in c .. m - 1 : text[j] # LF
    BY <1>3, <1>5, <1>6, <2>1
  <2> HIDE DEF t, m
  <2>3. CASE t.current = LF
    <3>1. Follows(text, c, m + 1)
      BY <1>3, <1>5, <1>6, <2>1, <2>2, <2>3, LineCommentFollows
    <3>2. Gap(text, e + 1, m + 1)
      BY <1>3, <1>6, <2>2, <3>1, GapFollows
    <3>3. Place(m)'
      BY <1>2, <1>4, <2>1, <2>3, <3>2 DEF Place
    <3> QED
      BY <1>2, <2>2, <3>3, StaysIn
  <2>4. CASE t.current # LF
    <3>1. InLine(text, e, m)
      BY <1>5, <2>1, <2>2, <2>4 DEF InLine
    <3>2. Place(m)'
      BY <1>2, <1>4, <1>8, <2>1, <2>4, <3>1 DEF Place
    <3> QED
      BY <1>2, <2>2, <3>2, StaysIn
  <2> QED
    BY <2>3, <2>4
<1> QED
  BY <1>7, <1>8

(* ... or with its star and slash; one without is refused. *)
LEMMA ConsumeBlockCommentKeeps ==
  ASSUME LexInv, text' = text, ConsumeBlockComment
  PROVE  LexInv'
<1>1. PICK n \in 0 .. Len(text) : Place(n)
  BY DEF LexInv
<1> DEFINE t == Advance(tracker)
           u == Advance(t)
           e == EndsAt(text, tokens)
<1>2. /\ at = "block" /\ UNCHANGED <<curword, tokens>>
      /\ IF AtEnd(tracker) THEN at' = "failed" /\ tracker' = tracker
         ELSE IF t.current # "*" \/ AtEnd(t) THEN at' = "block" /\ tracker' = t
         ELSE IF u.current = "/" THEN at' = "skipping" /\ tracker' = u
         ELSE at' = "block" /\ tracker' = Rewind(u)
  BY DEF ConsumeBlockComment, Skip, Goto, Throw
<1>3. text \in Texts /\ Len(text) \in Nat
  BY DEF LexInv, Texts
<1>4. Tracked(tracker, text, n) /\ InBlock(text, e, n) /\ curword = <<>>
  BY <1>1, <1>2 DEF Place
<1>5. PICK c \in 1 .. n - 1 : /\ Begun(text, e, c) /\ text[c] = "/" /\ text[c + 1] = "*"
                              /\ \A j \in c + 3 .. n + 1 :
                                   j <= Len(text) => ~(text[j - 1] = "*" /\ text[j] = "/")
  BY <1>4 DEF InBlock
<1>6. /\ Gap(text, e + 1, c) /\ c <= Len(text) /\ c \in 1 .. Len(text) - 1 /\ c \in 1 .. Len(text)
      /\ n \in c + 1 .. Len(text)
  BY <1>3, <1>5 DEF Begun
<1>7. CASE AtEnd(tracker)
  <2>1. n = Len(text)
    BY <1>3, <1>4, <1>7, AdvanceTracks
  <2>2. \A j \in c + 3 .. Len(text) : ~(text[j - 1] = "*" /\ text[j] = "/")
    BY <1>3, <1>5, <2>1
  <2>3. IllegalAt(text, c)
    BY <1>3, <1>5, <1>6, <2>2, EndlessCommentIllegal
  <2>4. Refused(text, e)
    BY <1>5, <1>6, <2>3 DEF Refused
  <2>5. Place(n)'
    BY <1>2, <1>4, <1>7, <2>4 DEF Place
  <2> QED
    BY <1>2, <2>5, StaysIn
<1>8. CASE ~AtEnd(tracker)
  <2> DEFINE m == n + 1
  <2>1. m \in 1 .. Len(text) /\ Tracked(t, text, m) /\ t.current = text[m]
    BY <1>3, <1>4, <1>8, AdvanceTracks
  <2>2. /\ m \in 0 .. Len(text) /\ c \in 1 .. m - 1 /\ m = n + 1
        /\ \A j \in c + 3 .. m + 1 : j \in c + 3 .. n + 1 \/ j = m + 1
    BY <1>3, <1>5, <1>6, <2>1
  <2> HIDE DEF m
  <2>3. ASSUME \/ text[m] # "*" \/ m + 1 > Len(text) \/ text[m + 1] # "/"
        PROVE  InBlock(text, e, m)
    <3>1. ASSUME NEW j \in c + 3 .. m + 1, j <= Len(text)
          PROVE  ~(text[j - 1] = "*" /\ text[j] = "/")
      <4>1. CASE j \in c + 3 .. n + 1
        BY <1>5, <3>1, <4>1
      <4>2. CASE j = m + 1
        <5>1. j - 1 = m /\ m + 1 <= Len(text)
          BY <2>2, <3>1, <4>2
        <5> QED
          BY <1>3, <2>2, <2>3, <4>2, <5>1
      <4> QED
        BY <2>2, <4>1, <4>2
    <3> QED
      BY <1>5, <2>2, <3>1 DEF InBlock
  <2>4. CASE t.current # "*" \/ AtEnd(t)
    <3>1. AtEnd(t) => m + 1 > Len(text)
      <4> HIDE DEF t
      <4>1. AtEnd(t) => m = Len(text)
        BY <1>3, <2>1, AdvanceTracks
      <4> QED
        BY <1>3, <4>1
    <3>2. InBlock(text, e, m)
      BY <2>1, <2>3, <2>4, <3>1
    <3> HIDE DEF t
    <3>3. Place(m)'
      BY <1>2, <1>4, <1>8, <2>1, <2>4, <3>2 DEF Place
    <3> QED
      BY <1>2, <2>2, <3>3, StaysIn
  <2>5. CASE t.current = "*" /\ ~AtEnd(t)
    <3> DEFINE q == m + 1
    <3>1. /\ q \in 1 .. Len(text) /\ Tracked(u, text, q) /\ Fresh(u, text, q)
          /\ u.current = text[q]
      BY <1>3, <2>1, <2>5, AdvanceTracks
    <3>2. /\ q \in 0 .. Len(text) /\ q - 1 = m /\ q \in c + 3 .. Len(text)
          /\ q + 1 \in c .. Len(text) + 1
      <4>1. c \in Int /\ 1 <= c /\ c + 1 <= n /\ n \in Int
        BY <1>3, <1>5
      <4>2. Len(text) \in Int /\ m = n + 1 /\ q = m + 1 /\ q <= Len(text)
        BY <1>3, <2>2, <3>1
      <4> HIDE DEF q
      <4> QED
        BY <4>1, <4>2
    <3> HIDE DEF t, u, q
    <3>3. CASE u.current = "/"
      <4>1. \A j \in c + 3 .. q - 1 : ~(text[j - 1] = "*" /\ text[j] = "/")
        BY <1>3, <1>5, <2>2, <3>2
      <4>2. Follows(text, c, q + 1)
        BY <1>3, <1>5, <1>6, <2>1, <2>5, <3>1, <3>2, <3>3, <4>1, BlockCommentFollows
      <4>3. Gap(text, e + 1, q + 1)
        BY <1>3, <1>6, <3>2, <4>2, GapFollows
      <4>4. Place(q)'
        BY <1>2, <1>4, <1>8, <2>5, <3>1, <3>3, <4>3 DEF Place
      <4> QED
        BY <1>2, <3>2, <4>4, StaysIn
    <3>4. CASE u.current # "/"
      <4>1. Tracked(Rewind(u), text, m)
        BY <1>3, <3>1, <3>2, RewindTracks
      <4>2. InBlock(text, e, m)
        BY <2>3, <3>1, <3>4 DEF q
      <4>3. Place(m)'
        BY <1>2, <1>4, <1>8, <2>5, <3>4, <4>1, <4>2 DEF Place
      <4> QED
        BY <1>2, <2>2, <4>3, StaysIn
    <3> QED
      BY <3>3, <3>4
  <2> QED
    BY <2>4, <2>5
<1> QED
  BY <1>7, <1>8

-----------------------------------------------------------------------------
(* A token is returned: the next one is looked for behind it. *)
LEMMA StoreKeeps ==
  ASSUME LexInv, text' = text, NEW type \in TokenTypes, NEW t, NEW p, NEW q,
         Begun(text, EndsAt(text, tokens), p), Longest(text, p, q),
         t.stored = PositionOf(text, p), StoreToken(type, SubSeq(text, p, q), t)
  PROVE  /\ TokensIn(text', tokens') /\ EndsAt(text', tokens') = q
         /\ tracker' = t /\ at' = "idle" /\ curword' = <<>>
         /\ q \in 0 .. Len(text) /\ Gap(text', q + 1, q + 1)
<1>1. text \in Texts /\ TokensIn(text, tokens)
  BY DEF LexInv
<1>2. /\ tokens' = Append(tokens, [type |-> type, value |-> SubSeq(text, p, q), pos |-> PositionOf(text, p)])
      /\ tracker' = t /\ at' = "idle" /\ curword' = <<>>
  BY DEF StoreToken, Goto
<1>3. Gap(text, EndsAt(text, tokens) + 1, p)
  BY DEF Begun
<1>4. TokensIn(text, tokens') /\ EndsAt(text, tokens') = q
  BY <1>1, <1>2, <1>3, TokenAppended
<1>5. q \in 0 .. Len(text) /\ q + 1 \in 1 .. Len(text) + 1
  BY <1>1 DEF Longest, Texts
<1>6. Gap(text, q + 1, q + 1)
  BY <1>1, <1>5, GapGrows
<1> QED
  BY <1>2, <1>4, <1>5, <1>6

(* A token is returned, and nothing is kept. *)
LEMMA TokenReturned ==
  ASSUME LexInv, text' = text, ~notDoneYet', NEW type \in TokenTypes, NEW t, NEW p, NEW q,
         Begun(text, EndsAt(text, tokens), p), Longest(text, p, q),
         t.stored = PositionOf(text, p), StoreToken(type, SubSeq(text, p, q), t),
         Tracked(t, text, q)
  PROVE  LexInv'
<1>1. /\ TokensIn(text', tokens') /\ EndsAt(text', tokens') = q
      /\ tracker' = t /\ at' = "idle" /\ curword' = <<>>
      /\ q \in 0 .. Len(text) /\ Gap(text', q + 1, q + 1)
  BY StoreKeeps
<1>2. Place(q)'
  BY <1>1 DEF Place
<1> QED
  BY <1>1, <1>2 DEF LexInv

(* The text is refused. *)
LEMMA RefusedKeeps ==
  ASSUME LexInv, text' = text, at' = "failed", UNCHANGED <<tokens, curword>>,
         NEW n \in 0 .. Len(text), Tracked(tracker', text, n),
         NEW p, Begun(text, EndsAt(text, tokens), p), IllegalAt(text, p)
  PROVE  LexInv'
<1>1. Refused(text, EndsAt(text, tokens))
  BY DEF Refused, Begun
<1>2. Place(n)'
  BY <1>1 DEF Place
<1> QED
  BY <1>2, StaysIn

(* The look at what follows a slash is taken back. *)
LEMMA AfterCommentTestTracks ==
  ASSUME NEW w \in Texts, NEW s, NEW p, Tracked(s, w, p), p \in Nat
  PROVE  Tracked(AfterCommentTest(s), w, p)
<1>1. CASE s.current = "/" /\ ~AtEnd(s)
  <2>1. Tracked(Advance(s), w, p + 1) /\ Fresh(Advance(s), w, p + 1)
    BY <1>1, AdvanceTracks
  <2>2. Tracked(Rewind(Advance(s)), w, (p + 1) - 1)
    BY <2>1, RewindTracks
  <2>3. (p + 1) - 1 = p
    OBVIOUS
  <2> QED
    BY <1>1, <2>2, <2>3 DEF AfterCommentTest
<1>2. CASE ~(s.current = "/" /\ ~AtEnd(s))
  BY <1>2 DEF AfterCommentTest
<1> QED
  BY <1>1, <1>2

(* The part of a text that is one character, and that is one longer. *)
LEMMA PartGrows ==
  ASSUME NEW w \in Texts, NEW p \in 1 .. Len(w)
  PROVE  /\ SubSeq(w, p, p) = <<w[p]>>
         /\ \A n \in p .. Len(w) - 1 :
              /\ SubSeq(w, p, n + 1) = SubSeq(w, p, n) \o <<w[n + 1]>>
              /\ SubSeq(w, p, n + 1) = Append(SubSeq(w, p, n), w[n + 1])
<1>1. SubSeq(w, p, p) = <<w[p]>>
  BY ShortParts
<1>2. ASSUME NEW n \in p .. Len(w) - 1
      PROVE  /\ SubSeq(w, p, n + 1) = SubSeq(w, p, n) \o <<w[n + 1]>>
             /\ SubSeq(w, p, n + 1) = Append(SubSeq(w, p, n), w[n + 1])
  <2>1. SubSeq(w, p, n + 1) = Append(SubSeq(w, p, n), w[n + 1])
    BY DEF Texts
  <2>2. SubSeq(w, p, n) \in Seq(UnixCharacters) /\ w[n + 1] \in UnixCharacters
    BY DEF Texts
  <2>3. \A x \in Seq(UnixCharacters), c \in UnixCharacters : Append(x, c) = x \o <<c>>
    OBVIOUS
  <2> QED
    BY <2>1, <2>2, <2>3
<1> QED
  BY <1>1, <1>2

(* A token starts, by its first character. *)
LEMMA StartTokenKeeps ==
  ASSUME LexInv, notDoneYet => at = "idle", text' = text, StartToken
  PROVE  LexInv'
<1>1. PICK n \in 0 .. Len(text) : Place(n)
  BY DEF LexInv
<1> DEFINE s == Advance(tracker)
           a == AfterCommentTest(s)
           t == StorePosition(a, s.position)
           c == s.current
           next == Advance(t)
           p == n + 1
           e == EndsAt(text, tokens)
<1>2. /\ Starting /\ ~AtEnd(tracker) /\ c \notin Blanks /\ notDoneYet' = notDoneYet
      /\ ~(c = "/" /\ ~AtEnd(s) /\ Advance(s).current \in {"*", "/"})
  BY DEF StartToken
<1>3. text \in Texts /\ Len(text) \in Nat
  BY DEF LexInv, Texts
<1>4. Tracked(tracker, text, n) /\ Gap(text, e + 1, p) /\ curword = <<>>
  BY <1>1, <1>2, StartingPlace
<1>5. p \in 1 .. Len(text) /\ Tracked(s, text, p) /\ c = text[p]
  BY <1>2, <1>3, <1>4, AdvanceTracks
<1>6. p \in Nat /\ p \in Nat \ {0} /\ p \in p .. Len(text) /\ p \in 1 .. p /\ p \in 0 .. Len(text)
      /\ \A j \in p + 1 .. p : FALSE
  BY <1>3, <1>5
<1>7. ~notDoneYet' /\ ~notDoneYet
  BY <1>2 DEF Starting
<1>8. Tracked(a, text, p)
  <2> HIDE DEF s, p
  <2> QED
    BY <1>3, <1>5, <1>6, AfterCommentTestTracks
<1>9. ~StartsComment(text, p)
  <2> HIDE DEF s, p
  <2>1. CASE AtEnd(s)
    <3>1. p = Len(text)
      BY <1>3, <1>5, <2>1, AdvanceTracks
    <3> QED
      BY <1>3, <1>5, <3>1, CommentStart
  <2>2. CASE ~AtEnd(s)
    <3>1. Advance(s).current = text[p + 1]
      BY <1>3, <1>5, <2>2, AdvanceTracks
    <3> QED
      BY <1>2, <1>3, <1>5, <2>2, <3>1, CommentStart
  <2> QED
    BY <2>1, <2>2
<1>10. s.position = PositionOf(text, p)
  <2> HIDE DEF s, p
  <2>1. s.position = Here(text, p) /\ text[p] # LF
    BY <1>2, <1>5 DEF Tracked, Blanks
  <2> QED
    BY <1>6, <2>1, PositionIsHere
<1>11. Tracked(t, text, p) /\ t.stored = PositionOf(text, p)
  <2> HIDE DEF a, s, p
  <2>1. DOMAIN a = Fields
    BY <1>8 DEF Tracked
  <2> QED
    BY <1>8, <1>10, <2>1, StoreTracks
<1>12. Begun(text, e, p)
  BY <1>4, <1>5 DEF Begun
<1>13. SubSeq(text, p, p) = <<c>> /\ InToken(text, e, p, p, t.stored, <<c>>)
  <2> HIDE DEF s, a, t, p
  <2>1. SubSeq(text, p, p) = <<c>>
    BY <1>3, <1>5, PartGrows
  <2> QED
    BY <1>6, <1>11, <1>12, <2>1 DEF InToken
<1>14. \/ /\ c \in Quotes
          /\ curword' = <<c>> /\ at' = "quoted" /\ tracker' = t /\ tokens' = tokens
       \/ /\ c = "0"
          /\ IF ~AtEnd(t) /\ next.current \in Letters
             THEN at' = "failed" /\ UNCHANGED <<tracker, curword, tokens>>
             ELSE StoreToken("NULLPOINTER", <<"0">>, IF AtEnd(t) THEN t ELSE Rewind(next))
       \/ /\ c \in WordStart \union (Digits \ {"0"})
          /\ curword' = <<c>> /\ tracker' = t /\ tokens' = tokens
          /\ at' = (IF c \in WordStart THEN "ident" ELSE "decimal")
       \/ /\ c \notin Quotes \union WordCharacter
          /\ partial' = <<c>> /\ tracker' = t /\ UNCHANGED <<curword, tokens>>
          /\ at' = (IF <<c>> \in Punctuators THEN "punctuator" ELSE "failed")
  BY DEF StartToken, Goto
<1>15. ~AtEnd(t) => /\ p + 1 \in 1 .. Len(text) /\ Tracked(next, text, p + 1)
                    /\ Fresh(next, text, p + 1) /\ next.current = text[p + 1]
                    /\ next.stored = t.stored
  <2> HIDE DEF t, p
  <2> QED
    BY <1>3, <1>11, AdvanceTracks
<1> HIDE DEF s, a, t, c, next, p
<1>16. CASE c \in Quotes /\ curword' = <<c>> /\ at' = "quoted" /\ tracker' = t /\ tokens' = tokens
  <2>1. Quotation(text, p, p)
    BY <1>3, <1>5, <1>16, QuotationStarts
  <2>2. InQuoted(text, e, p, t.stored, <<c>>)
    BY <1>6, <1>13, <2>1 DEF InQuoted
  <2>3. Place(p)'
    BY <1>11, <1>16, <2>2 DEF Place
  <2> QED
    BY <1>6, <1>16, <2>3, StaysIn
<1>17. CASE /\ c = "0"
            /\ IF ~AtEnd(t) /\ next.current \in Letters
               THEN at' = "failed" /\ UNCHANGED <<tracker, curword, tokens>>
               ELSE StoreToken("NULLPOINTER", <<"0">>, IF AtEnd(t) THEN t ELSE Rewind(next))
  <2>1. CASE ~AtEnd(t) /\ next.current \in Letters
    <3>1. p \in p .. Len(text) - 1 /\ text[p + 1] \in Letters
      BY <1>3, <1>6, <1>15, <2>1
    <3>2. IllegalAt(text, p)
      BY <1>3, <1>5, <1>17, <3>1, NumberIllegal
    <3> QED
      BY <1>4, <1>12, <1>17, <2>1, <3>2, RefusedKeeps
  <2>2. CASE ~(~AtEnd(t) /\ next.current \in Letters)
    <3> DEFINE u == IF AtEnd(t) THEN t ELSE Rewind(next)
    <3>1. Tracked(u, text, p) /\ u.stored = PositionOf(text, p)
      <4>1. CASE AtEnd(t)
        BY <1>11, <4>1
      <4>2. CASE ~AtEnd(t)
        <5>1. (p + 1) - 1 = p
          BY <1>6
        <5>2. Tracked(Rewind(next), text, (p + 1) - 1) /\ Rewind(next).stored = next.stored
          BY <1>3, <1>15, <4>2, RewindTracks
        <5> QED
          BY <1>11, <1>15, <4>2, <5>1, <5>2
      <4> QED
        BY <4>1, <4>2
    <3>2. Longest(text, p, p)
      BY <1>3, <1>5, <1>6, <1>17, NumberLongest
    <3>3. StoreToken("NULLPOINTER", SubSeq(text, p, p), u) /\ "NULLPOINTER" \in TokenTypes
      BY <1>13, <1>17, <2>2 DEF TokenTypes
    <3> HIDE DEF u
    <3> QED
      BY <1>7, <1>12, <3>1, <3>2, <3>3, TokenReturned
  <2> QED
    BY <2>1, <2>2
<1>18. CASE /\ c \in WordStart \union (Digits \ {"0"})
            /\ curword' = <<c>> /\ tracker' = t /\ tokens' = tokens
            /\ at' = (IF c \in WordStart THEN "ident" ELSE "decimal")
  <2>1. CASE c \in WordStart
    <3>1. InIdent(text, e, p, t.stored, <<c>>)
      BY <1>5, <1>6, <1>13, <2>1 DEF InIdent
    <3>2. Place(p)'
      BY <1>11, <1>18, <2>1, <3>1 DEF Place
    <3> QED
      BY <1>6, <1>18, <3>2, StaysIn
  <2>2. CASE c \notin WordStart
    <3>1. InDecimal(text, e, p, t.stored, <<c>>)
      BY <1>5, <1>6, <1>13, <1>18, <2>2 DEF InDecimal
    <3>2. Place(p)'
      BY <1>11, <1>18, <2>2, <3>1 DEF Place
    <3> QED
      BY <1>6, <1>18, <3>2, StaysIn
  <2> QED
    BY <2>1, <2>2
<1>19. CASE /\ c \notin Quotes \union WordCharacter
            /\ partial' = <<c>> /\ tracker' = t /\ UNCHANGED <<curword, tokens>>
            /\ at' = (IF <<c>> \in Punctuators THEN "punctuator" ELSE "failed")
  <2>1. CASE Single(c)
    <3>1. ~(p < p)
      BY <1>6
    <3>2. InPunctuator(text, e, p, t.stored, <<c>>, t)
      BY <1>5, <1>6, <1>9, <1>13, <2>1, <3>1 DEF InPunctuator, Punctuation
    <3>3. Place(p)'
      BY <1>4, <1>11, <1>19, <2>1, <3>2 DEF Place, Single
    <3> QED
      BY <1>6, <1>19, <3>3, StaysIn
  <2>2. CASE ~Single(c)
    <3>1. IllegalAt(text, p)
      BY <1>2, <1>3, <1>5, <1>9, <1>19, <2>2, CharacterIllegal DEF WordCharacter
    <3>2. at' = "failed" /\ Tracked(tracker', text, p)
      BY <1>11, <1>19, <2>2 DEF Single
    <3> QED
      BY <1>6, <1>12, <1>19, <3>1, <3>2, RefusedKeeps
  <2> QED
    BY <2>1, <2>2
<1> QED
  BY <1>14, <1>16, <1>17, <1>18, <1>19

-----------------------------------------------------------------------------
(* A token that has begun, one character longer. *)
LEMMA InTokenGrows ==
  ASSUME NEW w \in Texts, NEW e, NEW n \in 0 .. Len(w) - 1, NEW p \in 1 .. n, NEW pos, NEW word,
         InToken(w, e, p, n, pos, word)
  PROVE  /\ InToken(w, e, p, n + 1, pos, word \o <<w[n + 1]>>)
         /\ p \in 1 .. Len(w) /\ n \in p .. Len(w) /\ n \in p .. Len(w) - 1 /\ p \in 1 .. n + 1
<1>1. p \in 1 .. Len(w) /\ n \in p .. Len(w) - 1 /\ n \in p .. Len(w) /\ p <= n + 1 /\ p \in 1 .. n + 1
  BY DEF Texts
<1>2. SubSeq(w, p, n + 1) = SubSeq(w, p, n) \o <<w[n + 1]>>
  BY <1>1, PartGrows
<1> QED
  BY <1>1, <1>2 DEF InToken

(* What is known in the middle of a token. *)
LEMMA InTokenBegun ==
  ASSUME NEW w \in Texts, NEW e, NEW n \in 0 .. Len(w), NEW p \in 1 .. n, NEW pos, NEW word,
         InToken(w, e, p, n, pos, word)
  PROVE  /\ Begun(w, e, p) /\ pos = PositionOf(w, p) /\ word = SubSeq(w, p, n)
         /\ p \in 1 .. Len(w) /\ n \in p .. Len(w) /\ n \in Nat /\ p \in Nat /\ Len(w) \in Nat
  BY DEF InToken, Texts

(* Words ... *)
LEMMA ConsumeIdentKeeps ==
  ASSUME LexInv, notDoneYet => at = "idle", text' = text, ConsumeIdent
  PROVE  LexInv'
<1>1. PICK n \in 0 .. Len(text) : Place(n)
  BY DEF LexInv
<1> DEFINE t == Advance(tracker)
           e == EndsAt(text, tokens)
<1>2. /\ at = "ident"
      /\ IF AtEnd(tracker)
         THEN StoreToken("IDENTIFIER", curword, tracker) /\ UNCHANGED statics
         ELSE IF t.current \in WordCharacter
              THEN /\ curword' = curword \o <<t.current>> /\ at' = "ident" /\ tracker' = t
                   /\ tokens' = tokens
         ELSE /\ StoreToken(IF curword \in Keywords THEN "KEYWORD" ELSE "IDENTIFIER", curword, Rewind(t))
              /\ UNCHANGED statics
  BY DEF ConsumeIdent, Extend, Goto
<1>3. text \in Texts /\ Len(text) \in Nat
  BY DEF LexInv, Texts
<1>4. Tracked(tracker, text, n) /\ InIdent(text, e, n, tracker.stored, curword)
  BY <1>1, <1>2 DEF Place
<1>5. PICK p \in 1 .. n : /\ InToken(text, e, p, n, tracker.stored, curword) /\ text[p] \in WordStart
                          /\ \A j \in p + 1 .. n : text[j] \in WordCharacter
  BY <1>4 DEF InIdent
<1>6. /\ Begun(text, e, p) /\ tracker.stored = PositionOf(text, p) /\ curword = SubSeq(text, p, n)
      /\ p \in 1 .. Len(text) /\ n \in p .. Len(text) /\ n \in Nat
  BY <1>3, <1>5, InTokenBegun
<1>7. UNCHANGED statics => ~notDoneYet'
  BY <1>2 DEF statics
<1>8. /\ "IDENTIFIER" \in TokenTypes
      /\ (IF curword \in Keywords THEN "KEYWORD" ELSE "IDENTIFIER") \in TokenTypes
  BY DEF TokenTypes
<1>9. CASE AtEnd(tracker)
  <2>1. n = Len(text)
    BY <1>3, <1>4, <1>9, AdvanceTracks
  <2>2. Longest(text, p, n)
    BY <1>3, <1>5, <1>6, <2>1, WordLongest
  <2> QED
    BY <1>2, <1>4, <1>6, <1>7, <1>8, <1>9, <2>2, TokenReturned
<1>10. CASE ~AtEnd(tracker)
  <2>1. /\ n + 1 \in 1 .. Len(text) /\ Tracked(t, text, n + 1) /\ Fresh(t, text, n + 1)
        /\ t.current = text[n + 1] /\ t.stored = tracker.stored
    BY <1>3, <1>4, <1>10, AdvanceTracks
  <2>2. n \in 0 .. Len(text) - 1 /\ n + 1 \in 0 .. Len(text) /\ (n + 1) - 1 = n
    BY <1>3, <2>1
  <2> HIDE DEF t
  <2>3. CASE t.current \in WordCharacter
    <3>1. InToken(text, e, p, n + 1, t.stored, curword \o <<t.current>>) /\ p \in 1 .. n + 1
      BY <1>3, <1>5, <2>1, <2>2, InTokenGrows
    <3>2. \A j \in p + 1 .. n + 1 : j \in p + 1 .. n \/ j = n + 1
      BY <1>6
    <3>3. InIdent(text, e, n + 1, t.stored, curword \o <<t.current>>)
      BY <1>5, <2>1, <2>3, <3>1, <3>2 DEF InIdent
    <3>4. Place(n + 1)'
      BY <1>2, <1>10, <2>1, <2>3, <3>3 DEF Place
    <3> QED
      BY <1>2, <1>10, <2>2, <2>3, <3>4, StaysIn
  <2>4. CASE t.current \notin WordCharacter
    <3>1. Longest(text, p, n)
      BY <1>3, <1>5, <1>6, <2>1, <2>4, WordLongest
    <3>2. Tracked(Rewind(t), text, n) /\ Rewind(t).stored = t.stored
      BY <1>3, <2>1, <2>2, RewindTracks
    <3> QED
      BY <1>2, <1>6, <1>7, <1>8, <1>10, <2>1, <2>4, <3>1, <3>2, TokenReturned
  <2> QED
    BY <2>3, <2>4
<1> QED
  BY <1>9, <1>10

(* ... and numbers. *)
LEMMA ConsumeDecimalKeeps ==
  ASSUME LexInv, notDoneYet => at = "idle", text' = text, ConsumeDecimal
  PROVE  LexInv'
<1>1. PICK n \in 0 .. Len(text) : Place(n)
  BY DEF LexInv
<1> DEFINE t == Advance(tracker)
           e == EndsAt(text, tokens)
           u == IF AtEnd(tracker) THEN t ELSE Rewind(t)
<1>2. /\ at = "decimal"
      /\ IF ~AtEnd(tracker) /\ t.current \in Digits
         THEN /\ curword' = curword \o <<t.current>> /\ at' = "decimal" /\ tracker' = t
              /\ tokens' = tokens
         ELSE IF ~AtEnd(tracker) /\ t.current \in Letters
              THEN at' = "failed" /\ UNCHANGED <<tracker, curword, tokens>>
         ELSE StoreToken("INT", curword, u) /\ UNCHANGED statics
  BY DEF ConsumeDecimal, Extend, Goto, Throw
<1>3. text \in Texts /\ Len(text) \in Nat
  BY DEF LexInv, Texts
<1>4. Tracked(tracker, text, n) /\ InDecimal(text, e, n, tracker.stored, curword)
  BY <1>1, <1>2 DEF Place
<1>5. PICK p \in 1 .. n : /\ InToken(text, e, p, n, tracker.stored, curword)
                          /\ text[p] \in Digits \ {"0"}
                          /\ \A j \in p + 1 .. n : text[j] \in Digits
  BY <1>4 DEF InDecimal
<1>6. /\ Begun(text, e, p) /\ tracker.stored = PositionOf(text, p) /\ curword = SubSeq(text, p, n)
      /\ p \in 1 .. Len(text) /\ n \in p .. Len(text) /\ n \in Nat
  BY <1>3, <1>5, InTokenBegun
<1>7. UNCHANGED statics => ~notDoneYet'
  BY <1>2 DEF statics
<1>8. "INT" \in TokenTypes
  BY DEF TokenTypes
<1>9. CASE AtEnd(tracker)
  <2>1. n = Len(text) /\ t = tracker
    BY <1>3, <1>4, <1>9, AdvanceTracks
  <2>2. Longest(text, p, n)
    BY <1>3, <1>5, <1>6, <2>1, NumberLongest
  <2>3. u = tracker
    BY <1>9, <2>1
  <2>4. StoreToken("INT", curword, tracker) /\ UNCHANGED statics
    BY <1>2, <1>9, <2>3
  <2> QED
    BY <1>4, <1>6, <1>7, <1>8, <2>2, <2>4, TokenReturned
<1>10. CASE ~AtEnd(tracker)
  <2>1. /\ n + 1 \in 1 .. Len(text) /\ Tracked(t, text, n + 1) /\ Fresh(t, text, n + 1)
        /\ t.current = text[n + 1] /\ t.stored = tracker.stored
    BY <1>3, <1>4, <1>10, AdvanceTracks
  <2>2. /\ n \in 0 .. Len(text) - 1 /\ n + 1 \in 0 .. Len(text) /\ (n + 1) - 1 = n
        /\ n \in p .. Len(text) - 1
    BY <1>3, <1>6, <2>1
  <2>0. u = Rewind(t)
    BY <1>10
  <2> HIDE DEF t, u
  <2>3. CASE t.current \in Digits
    <3>1. InToken(text, e, p, n + 1, t.stored, curword \o <<t.current>>) /\ p \in 1 .. n + 1
      BY <1>3, <1>5, <2>1, <2>2, InTokenGrows
    <3>2. \A j \in p + 1 .. n + 1 : j \in p + 1 .. n \/ j = n + 1
      BY <1>6
    <3>3. InDecimal(text, e, n + 1, t.stored, curword \o <<t.current>>)
      BY <1>5, <2>1, <2>3, <3>1, <3>2 DEF InDecimal
    <3>4. Place(n + 1)'
      BY <1>2, <1>10, <2>1, <2>3, <3>3 DEF Place
    <3> QED
      BY <1>2, <1>10, <2>2, <2>3, <3>4, StaysIn
  <2>4. CASE t.current \in Letters /\ t.current \notin Digits
    <3>1. IllegalAt(text, p)
      BY <1>3, <1>5, <1>6, <2>1, <2>2, <2>4, NumberIllegal
    <3> QED
      BY <1>2, <1>4, <1>6, <1>10, <2>4, <3>1, RefusedKeeps
  <2>5. CASE t.current \notin Digits \union Letters
    <3>1. Longest(text, p, n)
      BY <1>3, <1>5, <1>6, <2>1, <2>5, NumberLongest
    <3>2. Tracked(u, text, n) /\ u.stored = t.stored
      BY <1>3, <2>0, <2>1, <2>2, RewindTracks
    <3> QED
      BY <1>2, <1>6, <1>7, <1>8, <1>10, <2>1, <2>5, <3>1, <3>2, TokenReturned
  <2> QED
    BY <2>3, <2>4, <2>5
<1> QED
  BY <1>9, <1>10

-----------------------------------------------------------------------------
(* Inside quotes.  Sequences of the same characters are the same. *)
LEMMA SameSequence ==
  ASSUME NEW S, NEW s \in Seq(S), NEW t \in Seq(S), Len(s) = Len(t),
         \A i \in 1 .. Len(s) : s[i] = t[i]
  PROVE  s = t
OBVIOUS

(* A character appended to a longer word. *)
LEMMA Appended ==
  ASSUME NEW S, NEW s \in Seq(S), NEW c \in S
  PROVE  \A t \in Seq(S) : (s \o t) \o <<c>> = s \o Append(t, c)
<1> SUFFICES ASSUME NEW t \in Seq(S) PROVE (s \o t) \o <<c>> = s \o Append(t, c)
  OBVIOUS
<1> DEFINE x == (s \o t) \o <<c>>
           y == s \o Append(t, c)
<1>1. x \in Seq(S) /\ y \in Seq(S)
  OBVIOUS
<1>2. Len(x) = Len(s) + Len(t) + 1
  OBVIOUS
<1>3. Len(y) = Len(s) + Len(t) + 1
  OBVIOUS
<1>4. ASSUME NEW i \in 1 .. Len(s) + Len(t) + 1 PROVE x[i] = y[i]
  OBVIOUS
<1> HIDE DEF x, y
<1>5. x = y
  BY <1>1, <1>2, <1>3, <1>4, SameSequence
<1> QED
  BY <1>5 DEF x, y

(* One more. *)
LEMMA LenAppend ==
  ASSUME NEW S, NEW s \in Seq(S), NEW a \in S
  PROVE  Len(Append(s, a)) = Len(s) + 1
OBVIOUS

(* Two characters, one appended to the other, *)
LEMMA PairIs ==
  ASSUME NEW S, NEW a \in S, NEW b \in S
  PROVE  Append(<<a>>, b) = <<a, b>>
<1> DEFINE s == Append(<<a>>, b)
           t == <<a, b>>
<1>1. s \in Seq(S) /\ t \in Seq(S) /\ Len(s) = 2 /\ Len(t) = 2
  OBVIOUS
<1>2. s[1] = t[1]
  OBVIOUS
<1>3. s[2] = t[2]
  OBVIOUS
<1> HIDE DEF s, t
<1>4. s = t
  BY <1>1, <1>2, <1>3, SameSequence
<1> QED
  BY <1>4 DEF s, t

(* and three. *)
LEMMA TripleIs ==
  ASSUME NEW S, NEW a \in S, NEW b \in S, NEW c \in S
  PROVE  Append(<<a, b>>, c) = <<a, b, c>>
<1> DEFINE s == Append(<<a, b>>, c)
           t == <<a, b, c>>
<1>1. s \in Seq(S) /\ t \in Seq(S) /\ Len(s) = 3 /\ Len(t) = 3
  OBVIOUS
<1>2. s[1] = t[1]
  OBVIOUS
<1>3. s[2] = t[2]
  OBVIOUS
<1>4. s[3] = t[3]
  OBVIOUS
<1> HIDE DEF s, t
<1>5. s = t
  BY <1>1, <1>2, <1>3, <1>4, SameSequence
<1> QED
  BY <1>5 DEF s, t

(* Appending two characters one by one, *)
LEMMA TwoAppended ==
  ASSUME NEW S, NEW s \in Seq(S), NEW a \in S, NEW b \in S
  PROVE  (s \o <<a>>) \o <<b>> = s \o <<a, b>>
<1>1. \A t \in Seq(S) : (s \o t) \o <<b>> = s \o Append(t, b)
  BY Appended
<1>2. <<a>> \in Seq(S)
  OBVIOUS
<1> QED
  BY <1>1, <1>2, PairIs

(* and three. *)
LEMMA ThreeAppended ==
  ASSUME NEW S, NEW s \in Seq(S), NEW a \in S, NEW b \in S, NEW c \in S
  PROVE  (s \o <<a, b>>) \o <<c>> = s \o <<a, b, c>>
<1>1. \A t \in Seq(S) : (s \o t) \o <<c>> = s \o Append(t, c)
  BY Appended
<1>2. <<a, b>> \in Seq(S)
  OBVIOUS
<1> QED
  BY <1>1, <1>2, TripleIs

(* What is known in the middle of a quoted token. *)
LEMMA InQuotedIs ==
  ASSUME NEW w \in Texts, NEW e, NEW n \in 0 .. Len(w), NEW pos, NEW word,
         InQuoted(w, e, n, pos, word)
  PROVE  \E p \in 1 .. n :
           /\ InToken(w, e, p, n, pos, word) /\ Quotation(w, p, n)
           /\ Begun(w, e, p) /\ pos = PositionOf(w, p) /\ word = SubSeq(w, p, n)
           /\ p \in 1 .. Len(w) /\ n \in p .. Len(w) /\ n \in Nat /\ p \in Nat /\ Len(w) \in Nat
           /\ word \in Texts /\ word # <<>> /\ Head(word) = w[p] /\ w[p] \in Quotes
<1>1. PICK p \in 1 .. n : InToken(w, e, p, n, pos, word) /\ Quotation(w, p, n)
  BY DEF InQuoted
<1>2. /\ Begun(w, e, p) /\ pos = PositionOf(w, p) /\ word = SubSeq(w, p, n)
      /\ p \in 1 .. Len(w) /\ n \in p .. Len(w) /\ n \in Nat /\ p \in Nat /\ Len(w) \in Nat
  BY <1>1, InTokenBegun
<1>3. SubSeq(w, p, n) \in Texts /\ SubSeq(w, p, n) # <<>>
  BY <1>2, PartIs
<1>4. Head(SubSeq(w, p, n)) = w[p]
  BY <1>2 DEF Texts
<1>5. w[p] \in Quotes
  BY <1>1 DEF Quotation
<1> QED
  BY <1>1, <1>2, <1>3, <1>4, <1>5

(* A quoted token goes on with a character that is nothing special. *)
LEMMA InQuotedGoesOn ==
  ASSUME NEW w \in Texts, NEW e, NEW n \in 0 .. Len(w) - 1, NEW pos, NEW word,
         InQuoted(w, e, n, pos, word), w[n + 1] \notin {LF, "\\"}, w[n + 1] # Head(word)
  PROVE  InQuoted(w, e, n + 1, pos, word \o <<w[n + 1]>>)
<1>0. n \in 0 .. Len(w)
  BY DEF Texts
<1>1. PICK p \in 1 .. n : /\ InToken(w, e, p, n, pos, word) /\ Quotation(w, p, n)
                          /\ Head(word) = w[p]
  BY <1>0, InQuotedIs
<1>2. /\ InToken(w, e, p, n + 1, pos, word \o <<w[n + 1]>>)
      /\ p \in 1 .. Len(w) /\ n \in p .. Len(w) - 1 /\ p \in 1 .. n + 1
  BY <1>1, InTokenGrows
<1>3. Quotation(w, p, n + 1)
  BY <1>1, <1>2, QuotationGoesOn
<1> QED
  BY <1>2, <1>3 DEF InQuoted

(* It goes on with an escape, too. *)
LEMMA InQuotedEscapes ==
  ASSUME NEW w \in Texts, NEW e, NEW n \in 0 .. Len(w) - 2, NEW pos, NEW word,
         InQuoted(w, e, n, pos, word), w[n + 1] = "\\", IsEscape(w, n + 2)
  PROVE  InQuoted(w, e, n + 2, pos, word \o <<"\\", w[n + 2]>>)
<1>0. n \in 0 .. Len(w) /\ n \in 0 .. Len(w) - 1 /\ Len(w) \in Nat
  BY DEF Texts
<1>1. PICK p \in 1 .. n : /\ InToken(w, e, p, n, pos, word) /\ Quotation(w, p, n)
                          /\ word \in Texts /\ p \in Nat
  BY <1>0, InQuotedIs
<1>2. /\ InToken(w, e, p, n + 1, pos, word \o <<w[n + 1]>>)
      /\ p \in 1 .. Len(w) /\ n \in p .. Len(w) - 2 /\ p \in 1 .. n + 1
  <2>1. /\ InToken(w, e, p, n + 1, pos, word \o <<w[n + 1]>>)
        /\ p \in 1 .. Len(w) /\ p \in 1 .. n + 1
    BY <1>0, <1>1, InTokenGrows
  <2>2. n \in p .. Len(w) - 2
    BY <1>0
  <2> QED
    BY <2>1, <2>2
<1>3. n + 1 \in 0 .. Len(w) - 1 /\ (n + 1) + 1 = n + 2
  BY <1>0
<1>4. /\ InToken(w, e, p, (n + 1) + 1, pos, (word \o <<w[n + 1]>>) \o <<w[(n + 1) + 1]>>)
      /\ p \in 1 .. (n + 1) + 1
  BY <1>2, <1>3, InTokenGrows
<1>5. (word \o <<w[n + 1]>>) \o <<w[n + 2]>> = word \o <<w[n + 1], w[n + 2]>>
  <2>1. w[n + 1] \in UnixCharacters /\ w[n + 2] \in UnixCharacters
    <3>1. n + 1 \in 1 .. Len(w) /\ n + 2 \in 1 .. Len(w) /\ n + 1 \in Int /\ n + 2 \in Int
      BY <1>0
    <3> QED
      BY <3>1, CharIs
  <2> QED
    BY <1>1, <2>1, TwoAppended, SMTT(40) DEF Texts
<1>6. Quotation(w, p, n + 2)
  BY <1>1, <1>2, QuotationEscapes
<1> QED
  BY <1>3, <1>4, <1>5, <1>6 DEF InQuoted

(* The escape sequences. *)
LEMMA ConsumeEscapeKeeps ==
  ASSUME LexInv, notDoneYet => at = "idle", text' = text, at = "quoted",
         NEW n \in 0 .. Len(text), Tracked(tracker, text, n),
         InQuoted(text, EndsAt(text, tokens), n, tracker.stored, curword),
         NEW u, NEW m, m = n + 2, Tracked(u, text, m), m \in 1 .. Len(text), u.current = text[m],
         text[n + 1] = "\\", u.stored = tracker.stored, ConsumeEscape(u)
  PROVE  LexInv'
<1> DEFINE c == u.current
           h == Advance(u)
           v == Advance(h)
           e == EndsAt(text, tokens)
<1>1. \/ /\ c \in PlainEscapes
         /\ curword' = curword \o <<"\\", c>> /\ at' = "quoted" /\ tracker' = u /\ tokens' = tokens
      \/ /\ c = "x" /\ h.current \in HexDigits
         /\ curword' = curword \o <<"\\", "x", h.current>> /\ at' = "hex" /\ tracker' = v
         /\ tokens' = tokens
      \/ /\ c \in OctalDigits
         /\ curword' = curword \o <<"\\", c>> /\ at' = "octal" /\ tracker' = u /\ tokens' = tokens
      \/ /\ c = "x" /\ h.current \notin HexDigits
         /\ at' = "failed" /\ UNCHANGED <<tracker, curword, tokens>>
      \/ /\ c \notin PlainEscapes \union OctalDigits \union {"x"}
         /\ at' = "failed" /\ UNCHANGED <<tracker, curword, tokens>>
  BY DEF ConsumeEscape, Extend, Goto, Throw
<1>2. text \in Texts /\ Len(text) \in Nat
  BY DEF LexInv, Texts
<1>3. /\ n \in 0 .. Len(text) - 2 /\ m \in 0 .. Len(text) /\ n + 2 \in Int
      /\ Char(text, n + 2) = c /\ n + 3 = m + 1 /\ m \in Nat
  <2>1. m \in Int
    BY <1>2
  <2>2. Char(text, m) = text[m]
    BY <1>2, <2>1, CharIs
  <2> QED
    BY <1>2, <2>2
<1>4. AtEnd(u) => Char(text, m + 1) = NoCharacter /\ h = u
  <2>1. AtEnd(u) => m = Len(text) /\ h = u
    BY <1>2, AdvanceTracks
  <2>2. m + 1 \in Int /\ (m = Len(text) => m + 1 \notin 1 .. Len(text))
    BY <1>2
  <2> QED
    BY <1>2, <2>1, <2>2, CharIs
<1>5. ~AtEnd(u) => /\ m + 1 \in 1 .. Len(text) /\ Tracked(h, text, m + 1)
                   /\ h.current = text[m + 1] /\ Char(text, m + 1) = h.current
                   /\ h.stored = u.stored
  <2>1. ~AtEnd(u) => /\ m + 1 \in 1 .. Len(text) /\ Tracked(h, text, m + 1)
                     /\ h.current = text[m + 1] /\ h.stored = u.stored
    BY <1>2, AdvanceTracks
  <2>2. m + 1 \in Int
    BY <1>2
  <2> QED
    BY <1>2, <2>1, <2>2, CharIs
<1>6. PICK p \in 1 .. n : /\ Quotation(text, p, n) /\ Begun(text, e, p)
                          /\ p \in 1 .. Len(text) /\ n \in p .. Len(text)
                          /\ Head(curword) = text[p] /\ text[p] \in Quotes
                          /\ curword \in Texts /\ curword # <<>>
  BY <1>2, InQuotedIs
<1>7. NoCharacter \notin HexDigits /\ "x" \notin HexDigits /\ "x" \notin PlainEscapes \union OctalDigits
  BY DEF NoCharacter, HexDigits, HexLetters, Digits, OctalDigits, PlainEscapes, Quotes
<1>8. IsEscape(text, n + 2) <=> \/ c \in PlainEscapes \union OctalDigits
                                \/ c = "x" /\ Char(text, m + 1) \in HexDigits
  BY <1>3 DEF IsEscape
<1>9. (n + 2) + 1 = m + 1 /\ n + 2 = m
  BY <1>3
<1> HIDE DEF c, h, v
<1>10. ASSUME IsEscape(text, n + 2)
       PROVE  InQuoted(text, e, m, u.stored, curword \o <<"\\", c>>)
  BY <1>2, <1>3, <1>9, <1>10, InQuotedEscapes DEF c
<1>11. ASSUME ~IsEscape(text, n + 2), at' = "failed", UNCHANGED <<tracker, curword, tokens>>
       PROVE  LexInv'
  <2>1. IllegalAt(text, p)
    BY <1>2, <1>6, <1>11, QuotationIllegal
  <2> QED
    BY <1>6, <1>11, <2>1, RefusedKeeps
<1>12. CASE /\ c \in PlainEscapes
            /\ curword' = curword \o <<"\\", c>> /\ at' = "quoted" /\ tracker' = u /\ tokens' = tokens
  <2>1. InQuoted(text, e, m, u.stored, curword \o <<"\\", c>>)
    BY <1>8, <1>10, <1>12
  <2>2. Place(m)'
    BY <1>12, <2>1 DEF Place
  <2> QED
    BY <1>3, <1>12, <2>2, StaysIn
<1>13. CASE /\ c \in OctalDigits
            /\ curword' = curword \o <<"\\", c>> /\ at' = "octal" /\ tracker' = u /\ tokens' = tokens
  <2>1. InQuoted(text, e, m, u.stored, curword \o <<"\\", c>>)
    BY <1>8, <1>10, <1>13
  <2>2. Place(m)'
    BY <1>13, <2>1 DEF Place, c
  <2> QED
    BY <1>3, <1>13, <2>2, StaysIn
<1>14. CASE /\ c = "x" /\ h.current \in HexDigits
            /\ curword' = curword \o <<"\\", "x", h.current>> /\ at' = "hex" /\ tracker' = v
            /\ tokens' = tokens
  <2>1. ~AtEnd(u)
    BY <1>4, <1>7, <1>14 DEF c
  <2> DEFINE k == m + 1
             word == curword \o <<"\\", "x", h.current>>
  <2>2. /\ k \in 1 .. Len(text) /\ Tracked(h, text, k) /\ h.current = text[k]
        /\ Char(text, k) = h.current /\ h.stored = tracker.stored
        /\ m \in 0 .. Len(text) - 1 /\ k \in 0 .. Len(text) /\ k \in Nat /\ (k + 1) - 1 = k
    BY <1>2, <1>3, <1>5, <2>1
  <2>3. InQuoted(text, e, m, u.stored, curword \o <<"\\", c>>)
    BY <1>8, <1>10, <1>14, <2>2
  <2>4. Head(curword \o <<"\\", c>>) = text[p]
    BY <1>6 DEF Texts
  <2>5. text[k] \notin {LF, "\\"} /\ text[k] # text[p]
    BY <1>6, <1>14, <2>2 DEF HexDigits, HexLetters, Digits, OctalDigits, LF, Quotes
  <2>6. InQuoted(text, e, k, u.stored, (curword \o <<"\\", c>>) \o <<text[k]>>)
    BY <1>2, <2>2, <2>3, <2>4, <2>5, InQuotedGoesOn
  <2>7. (curword \o <<"\\", c>>) \o <<text[k]>> = word
    <3>1. /\ curword \in Seq(UnixCharacters) /\ "\\" \in UnixCharacters /\ c \in UnixCharacters
          /\ text[k] \in UnixCharacters
      <4>1. n + 1 \in 1 .. Len(text) /\ n + 1 \in Int /\ k \in Int /\ m \in Int
        BY <1>2, <1>3
      <4>2. text[n + 1] \in UnixCharacters /\ text[k] \in UnixCharacters /\ text[m] \in UnixCharacters
        BY <1>2, <2>2, <4>1, CharIs
      <4> QED
        BY <1>6, <4>2 DEF c, Texts
    <3>3. (curword \o <<"\\", c>>) \o <<text[k]>> = curword \o <<"\\", c, text[k]>>
      <4> DEFINE b == "\\"
                 d == text[k]
      <4>1. curword \in Seq(UnixCharacters) /\ b \in UnixCharacters /\ c \in UnixCharacters /\ d \in UnixCharacters
        BY <3>1
      <4>2. (curword \o <<b, c>>) \o <<d>> = curword \o <<b, c, d>>
        <5> HIDE DEF b, c, d, k
        <5> DEFINE U == UnixCharacters
        <5> HIDE DEF U
        <5>1. \A s \in Seq(U) : \A x \in U : \A y \in U : \A z \in U :
                (s \o <<x, y>>) \o <<z>> = s \o <<x, y, z>>
          BY ThreeAppended, Zenon
        <5> QED
          BY <4>1, <5>1, Zenon DEF U
      <4> QED
        BY <4>2
    <3> QED
      BY <1>14, <2>2, <3>3
  <2>8. InQuoted(text, e, k, tracker.stored, word)
    BY <2>6, <2>7
  <2>9. CASE AtEnd(h)
    <3>1. v = h
      BY <1>2, <2>2, <2>9, AdvanceTracks DEF v
    <3> HIDE DEF k, word
    <3>2. Place(k)'
      BY <1>14, <2>2, <2>9, <3>1 DEF Place
    <3> QED
      BY <1>14, <2>2, <3>2, StaysIn
  <2>10. CASE ~AtEnd(h)
    <3> HIDE DEF k
    <3>1. /\ k + 1 \in 1 .. Len(text) /\ Tracked(v, text, k + 1) /\ Fresh(v, text, k + 1)
          /\ v.stored = h.stored
      BY <1>2, <2>2, <2>10, AdvanceTracks DEF v
    <3>2. k + 1 \in 0 .. Len(text)
      BY <3>1
    <3>3. InQuoted(text, e, (k + 1) - 1, v.stored, word)
      BY <2>2, <2>8, <3>1
    <3>4. Place(k + 1)'
      BY <1>14, <3>1, <3>3 DEF Place
    <3> QED
      BY <1>14, <3>2, <3>4, StaysIn
  <2> QED
    BY <2>9, <2>10
<1>15. CASE /\ c = "x" /\ h.current \notin HexDigits
            /\ at' = "failed" /\ UNCHANGED <<tracker, curword, tokens>>
  <2>1. Char(text, m + 1) \notin HexDigits
    BY <1>4, <1>5, <1>7, <1>15
  <2> QED
    BY <1>7, <1>8, <1>11, <1>15, <2>1
<1>16. CASE /\ c \notin PlainEscapes \union OctalDigits \union {"x"}
            /\ at' = "failed" /\ UNCHANGED <<tracker, curword, tokens>>
  BY <1>8, <1>11, <1>16
<1> QED
  BY <1>1, <1>12, <1>13, <1>14, <1>15, <1>16

(* A character between quotes, or the closing quote. *)
LEMMA ConsumeQuotedKeeps ==
  ASSUME LexInv, notDoneYet => at = "idle", text' = text, ConsumeQuoted
  PROVE  LexInv'
<1>1. PICK n \in 0 .. Len(text) : Place(n)
  BY DEF LexInv
<1> DEFINE t == Advance(tracker)
           c == t.current
           u == Advance(t)
           e == EndsAt(text, tokens)
<1>2. /\ at = "quoted"
      /\ IF AtEnd(tracker) \/ c = LF \/ (c = "\\" /\ AtEnd(t))
         THEN at' = "failed" /\ UNCHANGED <<tracker, curword, tokens>>
         ELSE IF c = "\\" THEN ConsumeEscape(u)
         ELSE IF c = Head(curword) THEN CloseQuote(t)
         ELSE /\ curword' = curword \o <<c>> /\ at' = "quoted" /\ tracker' = t
              /\ tokens' = tokens
  BY DEF ConsumeQuoted, Extend, Goto, Throw
<1>3. text \in Texts /\ Len(text) \in Nat
  BY DEF LexInv, Texts
<1>4. Tracked(tracker, text, n) /\ InQuoted(text, e, n, tracker.stored, curword)
  BY <1>1, <1>2 DEF Place
<1>5. PICK p \in 1 .. n :
        /\ InToken(text, e, p, n, tracker.stored, curword) /\ Quotation(text, p, n)
        /\ Begun(text, e, p) /\ tracker.stored = PositionOf(text, p) /\ curword = SubSeq(text, p, n)
        /\ p \in 1 .. Len(text) /\ n \in p .. Len(text) /\ n \in Nat /\ p \in Nat
        /\ curword \in Texts /\ Head(curword) = text[p]
  BY <1>3, <1>4, InQuotedIs
<1>05. Len(curword) = n - p + 1
  BY <1>3, <1>5, PartIs
<1>6. ASSUME IllegalAt(text, p), at' = "failed", UNCHANGED <<tracker, curword, tokens>>
      PROVE  LexInv'
  BY <1>4, <1>5, <1>6, RefusedKeeps
<1>7. CASE AtEnd(tracker)
  <2>1. n = Len(text)
    BY <1>3, <1>4, <1>7, AdvanceTracks
  <2>2. IllegalAt(text, p)
    BY <1>3, <1>5, <2>1, QuotationIllegal
  <2> QED
    BY <1>2, <1>6, <1>7, <2>2
<1>8. CASE ~AtEnd(tracker)
  <2>1. /\ n + 1 \in 1 .. Len(text) /\ Tracked(t, text, n + 1) /\ Fresh(t, text, n + 1)
        /\ c = text[n + 1] /\ t.stored = tracker.stored
    BY <1>3, <1>4, <1>8, AdvanceTracks
  <2>2. /\ n \in 0 .. Len(text) - 1 /\ n + 1 \in 0 .. Len(text) /\ n \in p .. Len(text) - 1
        /\ n + 1 \in Nat
    BY <1>3, <1>5, <2>1
  <2>3. CASE c = LF \/ (c = "\\" /\ AtEnd(t))
    <3>1. AtEnd(t) => n + 1 = Len(text)
      <4> HIDE DEF t
      <4> QED
        BY <1>3, <2>1, AdvanceTracks
    <3>2. IllegalAt(text, p)
      BY <1>3, <1>5, <2>1, <2>3, <3>1, QuotationIllegal
    <3> QED
      BY <1>2, <1>6, <2>3, <3>2
  <2>4. CASE c = "\\" /\ ~AtEnd(t)
    <3> HIDE DEF t, c
    <3> DEFINE m == n + 2
    <3>1. (n + 1) + 1 = m
      BY <2>2
    <3>2. /\ (n + 1) + 1 \in 1 .. Len(text) /\ Tracked(u, text, (n + 1) + 1)
          /\ u.current = text[(n + 1) + 1] /\ u.stored = t.stored
      BY <1>3, <2>1, <2>4, AdvanceTracks
    <3>3. ConsumeEscape(u)
      BY <1>2, <1>8, <2>4 DEF LF
    <3>4. m \in 1 .. Len(text) /\ Tracked(u, text, m) /\ u.current = text[m] /\ u.stored = tracker.stored
      BY <2>1, <3>1, <3>2
    <3>5. text[n + 1] = "\\" /\ m = n + 2
      BY <2>1, <2>4
    <3> HIDE DEF u, m
    <3> QED
      BY <1>2, <1>4, <3>3, <3>4, <3>5, ConsumeEscapeKeeps
  <2>5. CASE c \notin {LF, "\\"} /\ c = Head(curword)
    <3> HIDE DEF t
    <3>1. CloseQuote(t)
      BY <1>2, <1>8, <2>5
    <3>2. /\ SubSeq(text, p, n + 1) = Append(curword, c)
          /\ Len(Append(curword, c)) = Len(curword) + 1
      <4>1. SubSeq(text, p, n + 1) = Append(SubSeq(text, p, n), text[n + 1])
        BY <1>3, <1>5, <2>2, PartGrows
      <4>2. c \in UnixCharacters
        <5>1. n + 1 \in Int
          BY <2>2
        <5> QED
          BY <1>3, <2>1, <5>1, CharIs
      <4> HIDE DEF c
      <4> QED
        BY <1>5, <2>1, <4>1, <4>2, LenAppend DEF Texts
    <3>3. Len(Append(curword, c)) <= 2 <=> n = p
      BY <1>5, <1>05, <3>2
    <3>4. c = text[p] /\ text[n + 1] = text[p]
      BY <1>5, <2>1, <2>5
    <3>5. CASE c = "'" /\ n = p
      <4>1. IllegalAt(text, p)
        BY <1>3, <1>5, <3>4, <3>5, QuotationIllegal
      <4>2. at' = "failed" /\ UNCHANGED <<tracker, curword, tokens>>
        BY <3>1, <3>3, <3>5 DEF CloseQuote, Throw
      <4> QED
        BY <1>6, <4>1, <4>2
    <3>6. CASE ~(c = "'" /\ n = p)
      <4> DEFINE type == IF c = "'" THEN "CHAR" ELSE "STRINGLITERAL"
      <4>1. StoreToken(type, SubSeq(text, p, n + 1), t) /\ UNCHANGED statics
        BY <3>1, <3>2, <3>3, <3>6 DEF CloseQuote
      <4>2. type \in TokenTypes
        BY DEF TokenTypes
      <4>3. Longest(text, p, n + 1)
        BY <1>3, <1>5, <2>2, <3>4, <3>6, QuotedLongest
      <4>4. ~notDoneYet'
        BY <1>2, <4>1 DEF statics
      <4> HIDE DEF type
      <4> QED
        BY <1>5, <2>1, <4>1, <4>2, <4>3, <4>4, TokenReturned
    <3> QED
      BY <3>5, <3>6
  <2>6. CASE c \notin {LF, "\\"} /\ c # Head(curword)
    <3> HIDE DEF t
    <3>1. InQuoted(text, e, n + 1, t.stored, curword \o <<c>>)
      BY <1>3, <1>4, <2>1, <2>2, <2>6, InQuotedGoesOn
    <3>2. curword' = curword \o <<c>> /\ at' = "quoted" /\ tracker' = t /\ tokens' = tokens
      BY <1>2, <1>8, <2>6
    <3>3. Place(n + 1)'
      BY <2>1, <3>1, <3>2 DEF Place
    <3> QED
      BY <2>2, <3>2, <3>3, StaysIn
  <2> QED
    BY <2>3, <2>4, <2>5, <2>6
<1> QED
  BY <1>7, <1>8

(* A digit is no quote, and starts no escape sequence. *)
LEMMA DigitsEndNoQuotation ==
  ASSUME NEW c \in HexDigits
  PROVE  c \notin {LF, "\\"} \union Quotes
BY DEF HexDigits, HexLetters, Digits, OctalDigits, LF, Quotes

(* The digits behind \x, the last of which was read ahead. *)
LEMMA ConsumeHexKeeps ==
  ASSUME LexInv, notDoneYet => at = "idle", text' = text, ConsumeHex
  PROVE  LexInv'
<1>1. PICK n \in 0 .. Len(text) : Place(n)
  BY DEF LexInv
<1> DEFINE v == Advance(tracker)
           c == tracker.current
           e == EndsAt(text, tokens)
           word == curword \o <<c>>
<1>2. /\ at = "hex" /\ tokens' = tokens
      /\ c \in HexDigits => curword' = word /\ at' = "hex" /\ tracker' = v
      /\ c \notin HexDigits => curword' = curword /\ at' = "quoted" /\ tracker' = Rewind(tracker)
  BY DEF ConsumeHex, Extend, Skip, Goto
<1>3. text \in Texts /\ Len(text) \in Nat
  BY DEF LexInv, Texts
<1>4. /\ Tracked(tracker, text, n)
      /\ \/ AtEnd(tracker) /\ c \in HexDigits
         \/ Fresh(tracker, text, n) /\ InQuoted(text, e, n - 1, tracker.stored, curword)
  BY <1>1, <1>2 DEF Place
<1>5. AtEnd(tracker) => v = tracker
  BY <1>3, <1>4, AdvanceTracks
<1>6. CASE AtEnd(tracker) /\ c \in HexDigits
  <2>1. Place(n)'
    BY <1>2, <1>4, <1>5, <1>6 DEF Place
  <2> QED
    BY <1>2, <2>1, StaysIn
<1>7. CASE Fresh(tracker, text, n) /\ InQuoted(text, e, n - 1, tracker.stored, curword)
  <2>1. /\ n \in Nat \ {0} /\ n - 1 \in 0 .. Len(text) - 1 /\ n - 1 \in 0 .. Len(text)
        /\ (n - 1) + 1 = n
    BY <1>3, <1>7 DEF Fresh
  <2>2. c = text[n]
    BY <1>4, <2>1 DEF Tracked, Last
  <2>3. CASE c \notin HexDigits
    <3>1. Tracked(Rewind(tracker), text, n - 1) /\ Rewind(tracker).stored = tracker.stored
      BY <1>3, <1>4, <1>7, RewindTracks
    <3>2. Place(n - 1)'
      BY <1>2, <1>7, <2>3, <3>1 DEF Place
    <3> QED
      BY <1>2, <2>1, <2>3, <3>2, StaysIn
  <2>4. CASE c \in HexDigits
    <3>1. Head(curword) \in Quotes
      BY <1>3, <1>7, <2>1, InQuotedIs
    <3>2. c \notin {LF, "\\"} /\ c # Head(curword)
      BY <2>4, <3>1, DigitsEndNoQuotation
    <3> HIDE DEF c
    <3>3. InQuoted(text, e, (n - 1) + 1, tracker.stored, curword \o <<text[(n - 1) + 1]>>)
      BY <1>3, <1>7, <2>1, <2>2, <3>2, InQuotedGoesOn
    <3>4. InQuoted(text, e, n, tracker.stored, word)
      BY <2>1, <2>2, <3>3
    <3>5. CASE AtEnd(tracker)
      BY <1>6, <2>4, <3>5
    <3>6. CASE ~AtEnd(tracker)
      <4>1. /\ n + 1 \in 1 .. Len(text) /\ Tracked(v, text, n + 1) /\ Fresh(v, text, n + 1)
            /\ v.stored = tracker.stored
        BY <1>3, <1>4, <3>6, AdvanceTracks
      <4>2. n + 1 \in 0 .. Len(text) /\ (n + 1) - 1 = n
        BY <1>3, <4>1
      <4> HIDE DEF v, word
      <4>3. InQuoted(text, e, (n + 1) - 1, v.stored, word)
        BY <3>4, <4>1, <4>2
      <4>4. Place(n + 1)'
        BY <1>2, <2>4, <4>1, <4>3 DEF Place
      <4> QED
        BY <1>2, <4>2, <4>4, StaysIn
    <3> QED
      BY <3>5, <3>6
  <2> QED
    BY <2>3, <2>4
<1> QED
  BY <1>4, <1>6, <1>7

(* The digits of an octal escape. *)
LEMMA ConsumeOctalKeeps ==
  ASSUME LexInv, notDoneYet => at = "idle", text' = text, ConsumeOctal
  PROVE  LexInv'
<1>1. PICK n \in 0 .. Len(text) : Place(n)
  BY DEF LexInv
<1> DEFINE t == Advance(tracker)
           c == t.current
           e == EndsAt(text, tokens)
<1>2. /\ at = "octal" /\ tokens' = tokens
      /\ c \in OctalDigits => curword' = curword \o <<c>> /\ at' = "octal" /\ tracker' = t
      /\ c \notin OctalDigits => curword' = curword /\ at' = "quoted" /\ tracker' = Rewind(t)
  BY DEF ConsumeOctal, Extend, Skip, Goto
<1>3. text \in Texts /\ Len(text) \in Nat
  BY DEF LexInv, Texts
<1>4. /\ Tracked(tracker, text, n) /\ tracker.current \in OctalDigits
      /\ AtEnd(tracker) \/ InQuoted(text, e, n, tracker.stored, curword)
  BY <1>1, <1>2 DEF Place
<1>5. CASE AtEnd(tracker)
  <2>1. t = tracker
    BY <1>3, <1>4, <1>5, AdvanceTracks
  <2>2. Place(n)'
    BY <1>2, <1>4, <1>5, <2>1 DEF Place
  <2> QED
    BY <1>2, <2>2, StaysIn
<1>6. CASE ~AtEnd(tracker)
  <2>1. /\ n + 1 \in 1 .. Len(text) /\ Tracked(t, text, n + 1) /\ Fresh(t, text, n + 1)
        /\ c = text[n + 1] /\ t.stored = tracker.stored
    BY <1>3, <1>4, <1>6, AdvanceTracks
  <2>2. n \in 0 .. Len(text) - 1 /\ n + 1 \in 0 .. Len(text) /\ (n + 1) - 1 = n
    BY <1>3, <2>1
  <2> HIDE DEF t
  <2>3. CASE c \in OctalDigits
    <3>1. Head(curword) \in Quotes
      BY <1>3, <1>4, <1>6, InQuotedIs
    <3>2. c \notin {LF, "\\"} /\ c # Head(curword)
      BY <2>3, <3>1, DigitsEndNoQuotation DEF HexDigits, HexLetters, Digits
    <3>3. InQuoted(text, e, n + 1, t.stored, curword \o <<c>>)
      BY <1>3, <1>4, <1>6, <2>1, <2>2, <3>2, InQuotedGoesOn
    <3>4. Place(n + 1)'
      BY <1>2, <2>1, <2>3, <3>3 DEF Place
    <3> QED
      BY <1>2, <2>2, <2>3, <3>4, StaysIn
  <2>4. CASE c \notin OctalDigits
    <3>1. Tracked(Rewind(t), text, n) /\ Rewind(t).stored = t.stored
      BY <1>3, <2>1, <2>2, RewindTracks
    <3>2. Place(n)'
      BY <1>2, <1>4, <1>6, <2>1, <2>4, <3>1 DEF Place
    <3> QED
      BY <1>2, <2>4, <3>2, StaysIn
  <2> QED
    BY <2>3, <2>4
<1> QED
  BY <1>5, <1>6

-----------------------------------------------------------------------------
(* Punctuators. *)
LEMMA InPunctuatorIs ==
  ASSUME NEW w \in Texts, NEW e, NEW n \in 0 .. Len(w), NEW pos, NEW word, NEW t,
         InPunctuator(w, e, n, pos, word, t)
  PROVE  \E p \in 1 .. n :
           /\ Begun(w, e, p) /\ pos = PositionOf(w, p) /\ word = SubSeq(w, p, n)
           /\ Punctuation(w, p, n) /\ (p < n => Fresh(t, w, n))
           /\ p \in 1 .. Len(w) /\ n \in p .. Len(w) /\ n \in Nat /\ p \in Nat /\ Len(w) \in Nat
           /\ word \in Texts
<1>1. PICK p \in 1 .. n : /\ InToken(w, e, p, n, pos, word) /\ Punctuation(w, p, n)
                          /\ p < n => Fresh(t, w, n)
  BY DEF InPunctuator
<1>2. /\ Begun(w, e, p) /\ pos = PositionOf(w, p) /\ word = SubSeq(w, p, n)
      /\ p \in 1 .. Len(w) /\ n \in p .. Len(w) /\ n \in Nat /\ p \in Nat /\ Len(w) \in Nat
  BY <1>1, InTokenBegun
<1>3. word \in Texts
  BY <1>2, PartIs
<1> QED
  BY <1>1, <1>2, <1>3

(* Nothing is put before a sequence. *)
LEMMA NothingBefore ==
  ASSUME NEW S, NEW s \in Seq(S)
  PROVE  <<>> \o s = s
OBVIOUS

(* The half token that was kept is taken up again. *)
LEMMA ResumePunctuatorKeeps ==
  ASSUME LexInv, text' = text, ResumePunctuator
  PROVE  LexInv'
<1>1. PICK n \in 0 .. Len(text) : Place(n)
  BY DEF LexInv
<1> DEFINE t == StorePosition(tracker, tmpPos)
           e == EndsAt(text, tokens)
<1>2. /\ at = "idle" /\ notDoneYet /\ ~notDoneYet' /\ at' = "punctuator" /\ tracker' = t
      /\ tokens' = tokens /\ curword' = curword /\ partial' = partial
  BY DEF ResumePunctuator, Goto
<1>3. /\ Tracked(tracker, text, n) /\ curword = <<>>
      /\ InPunctuator(text, e, n, tmpPos, partial, tracker)
  BY <1>1, <1>2 DEF Place
<1>4. /\ Tracked(t, text, n) /\ t.stored = tmpPos
      /\ Fresh(tracker, text, n) => Fresh(t, text, n)
  <2>1. DOMAIN tracker = Fields
    BY <1>3 DEF Tracked
  <2> QED
    BY <1>3, <2>1, StoreTracks
<1>5. InPunctuator(text, e, n, t.stored, partial, t)
  BY <1>3, <1>4 DEF InPunctuator
<1>6. Place(n)'
  BY <1>2, <1>3, <1>4, <1>5 DEF Place
<1> QED
  BY <1>2, <1>6, StaysIn

(* A longer punctuator is tried. *)
LEMMA MatchPunctuatorKeeps ==
  ASSUME LexInv, notDoneYet => at = "idle", text' = text, MatchPunctuator
  PROVE  LexInv'
<1>1. PICK n \in 0 .. Len(text) : Place(n)
  BY DEF LexInv
<1> DEFINE t == Advance(tracker)
           c == t.current
           e == EndsAt(text, tokens)
<1>2. /\ at = "punctuator" /\ partial \in Punctuators
      /\ AtEnd(tracker) => /\ StoreToken("PUNCTUATOR", curword \o partial, tracker)
                           /\ UNCHANGED statics
      /\ ~AtEnd(tracker) => /\ partial' = Append(partial, c) /\ at' = "punctuator" /\ tracker' = t
                            /\ UNCHANGED <<curword, notDoneYet, tokens>>
  BY DEF MatchPunctuator, Goto
<1>3. text \in Texts /\ Len(text) \in Nat
  BY DEF LexInv, Texts
<1>4. /\ Tracked(tracker, text, n) /\ curword = <<>>
      /\ InPunctuator(text, e, n, tracker.stored, partial, tracker)
  BY <1>1, <1>2 DEF Place
<1>5. PICK p \in 1 .. n :
        /\ Begun(text, e, p) /\ tracker.stored = PositionOf(text, p)
        /\ partial = SubSeq(text, p, n) /\ Punctuation(text, p, n)
        /\ p \in 1 .. Len(text) /\ n \in p .. Len(text) /\ n \in Nat /\ p \in Nat
        /\ partial \in Texts
  BY <1>3, <1>4, InPunctuatorIs, SMTT(40)
<1>6. CASE AtEnd(tracker)
  <2>1. n = Len(text)
    BY <1>3, <1>4, <1>6, AdvanceTracks
  <2>2. Longest(text, p, n)
    BY <1>2, <1>3, <1>5, <2>1, PunctuationEnds
  <2>3. curword \o partial = SubSeq(text, p, n)
    BY <1>4, <1>5, NothingBefore DEF Texts
  <2>4. "PUNCTUATOR" \in TokenTypes /\ ~notDoneYet'
    BY <1>2, <1>6 DEF TokenTypes, statics
  <2> QED
    BY <1>2, <1>4, <1>5, <1>6, <2>2, <2>3, <2>4, TokenReturned
<1>7. CASE ~AtEnd(tracker)
  <2>1. /\ n + 1 \in 1 .. Len(text) /\ Tracked(t, text, n + 1) /\ Fresh(t, text, n + 1)
        /\ c = text[n + 1] /\ t.stored = tracker.stored
    BY <1>3, <1>4, <1>7, AdvanceTracks
  <2>2. /\ n \in p .. Len(text) - 1 /\ n + 1 \in 0 .. Len(text) /\ (n + 1) - 1 = n
        /\ p \in 1 .. n + 1 /\ p <= n + 1
    BY <1>3, <1>5, <2>1
  <2> HIDE DEF t
  <2>3. partial' = SubSeq(text, p, n + 1)
    BY <1>2, <1>3, <1>5, <1>7, <2>1, <2>2, PartGrows, ZenonT(60)
  <2>4. InToken(text, e, p, n + 1, t.stored, partial')
    BY <1>5, <2>1, <2>2, <2>3 DEF InToken
  <2>5. Punctuation(text, p, n + 1)
    BY <1>2, <1>5, <2>2 DEF Punctuation
  <2>6. InPunctuator(text, e, n + 1, t.stored, partial', t)
    BY <2>1, <2>2, <2>4, <2>5 DEF InPunctuator
  <2>7. Place(n + 1)'
    BY <1>2, <1>4, <1>7, <2>1, <2>6 DEF Place
  <2> QED
    BY <1>2, <1>7, <2>2, <2>7, StaysIn
<1> QED
  BY <1>6, <1>7

(* A part of a part is a part. *)
LEMMA PartOfPart ==
  ASSUME NEW w \in Texts, NEW p \in 1 .. Len(w), NEW n \in p .. Len(w), NEW i \in 1 .. n - p + 1,
         NEW j \in i .. n - p + 1
  PROVE  SubSeq(SubSeq(w, p, n), i, j) = SubSeq(w, p + i - 1, p + j - 1)
BY DEF Texts

(* One character too many: it is given back. *)
LEMMA GiveBackKeeps ==
  ASSUME LexInv, notDoneYet => at = "idle", text' = text, GiveBack
  PROVE  LexInv'
<1>1. PICK n \in 0 .. Len(text) : Place(n)
  BY DEF LexInv
<1> DEFINE t == Rewind(tracker)
           e == EndsAt(text, tokens)
           shorter == SubSeq(partial, 1, Len(partial) - 1)
<1>2. /\ at = "punctuator" /\ partial \notin Punctuators \union OpenEnded
      /\ StoreToken("PUNCTUATOR", curword \o shorter, t)
      /\ ~notDoneYet'
  BY DEF GiveBack
<1>3. text \in Texts /\ Len(text) \in Nat
  BY DEF LexInv, Texts
<1>4. /\ Tracked(tracker, text, n) /\ curword = <<>>
      /\ InPunctuator(text, e, n, tracker.stored, partial, tracker)
  BY <1>1, <1>2 DEF Place
<1>5. PICK p \in 1 .. n :
        /\ Begun(text, e, p) /\ tracker.stored = PositionOf(text, p)
        /\ partial = SubSeq(text, p, n) /\ Punctuation(text, p, n)
        /\ (p < n => Fresh(tracker, text, n))
        /\ p \in 1 .. Len(text) /\ n \in p .. Len(text) /\ n \in Nat /\ p \in Nat
        /\ partial \in Texts
  BY <1>3, <1>4, InPunctuatorIs
<1>6. p < n /\ Longest(text, p, n - 1)
  BY <1>2, <1>3, <1>5, PunctuationGivesBack
<1>7. Tracked(t, text, n - 1) /\ t.stored = tracker.stored
  BY <1>3, <1>4, <1>5, <1>6, RewindTracks
<1>8. curword \o shorter = SubSeq(text, p, n - 1)
  <2>1. Len(partial) = n - p + 1
    BY <1>3, <1>5, PartIs
  <2>2. /\ 1 \in 1 .. n - p + 1 /\ n - p \in 1 .. n - p + 1 /\ Len(partial) - 1 = n - p
        /\ p + 1 - 1 = p /\ p + (n - p) - 1 = n - 1 /\ n - 1 \in p .. Len(text)
    BY <1>3, <1>5, <1>6, <2>1
  <2>3. shorter = SubSeq(text, p, n - 1)
    BY <1>3, <1>5, <2>2, PartOfPart
  <2>4. shorter \in Texts
    <3> DEFINE q == n - 1
    <3>1. q \in p .. Len(text)
      BY <2>2
    <3> HIDE DEF q
    <3>2. SubSeq(text, p, q) \in Texts
      BY <1>3, <1>5, <3>1, PartIs
    <3> QED
      BY <2>3, <3>2 DEF q
  <2> HIDE DEF shorter
  <2> QED
    BY <1>4, <2>3, <2>4, NothingBefore DEF Texts
<1>9. "PUNCTUATOR" \in TokenTypes
  BY DEF TokenTypes
<1> QED
  BY <1>2, <1>5, <1>6, <1>7, <1>8, <1>9, TokenReturned

(* `%:%' or `..' with what follows: a punctuator, or two. *)
LEMMA ReadAheadKeeps ==
  ASSUME LexInv, notDoneYet => at = "idle", text' = text, ReadAhead
  PROVE  LexInv'
<1>1. PICK n \in 0 .. Len(text) : Place(n)
  BY DEF LexInv
<1> DEFINE t == Advance(tracker)
           c == t.current
           e == EndsAt(text, tokens)
           longer == IF AtEnd(tracker) THEN partial ELSE Append(partial, c)
           taken  == IF Head(partial) = "." THEN <<".">> ELSE <<"%", ":">>
           rest == SubSeq(longer, Len(taken) + 1, Len(longer))
<1>2. /\ at = "punctuator" /\ partial \in OpenEnded /\ tmpPos' = tracker.position
      /\ longer \in Punctuators => /\ StoreToken("PUNCTUATOR", longer, t)
                                   /\ ~notDoneYet'
      /\ longer \notin Punctuators => /\ StoreToken("PUNCTUATOR", taken, t)
                                      /\ partial' = rest /\ notDoneYet'
  BY DEF ReadAhead
<1>3. text \in Texts /\ Len(text) \in Nat
  BY DEF LexInv, Texts
<1>4. /\ Tracked(tracker, text, n) /\ tracker.position = Here(text, n)
      /\ InPunctuator(text, e, n, tracker.stored, partial, tracker)
  BY <1>1, <1>2 DEF Place, Tracked
<1>5. PICK p \in 1 .. n :
        /\ Begun(text, e, p) /\ tracker.stored = PositionOf(text, p)
        /\ partial = SubSeq(text, p, n) /\ Punctuation(text, p, n)
        /\ p \in 1 .. Len(text) /\ n \in p .. Len(text) /\ n \in Nat /\ p \in Nat
        /\ partial \in Texts
  BY <1>3, <1>4, InPunctuatorIs
<1>6. PICK m \in n .. Len(text) :
      /\ m \in p .. Len(text) /\ m \in 0 .. Len(text)
      /\ Tracked(t, text, m) /\ t.stored = tracker.stored /\ longer = SubSeq(text, p, m)
      /\ \/ m = n /\ n = Len(text)
         \/ /\ m = n + 1 /\ n \in p .. Len(text) - 1
            /\ ~AtEnd(tracker) /\ Fresh(t, text, n + 1)
  <2>1. CASE AtEnd(tracker)
    <3>1. n = Len(text) /\ t = tracker
      BY <1>3, <1>4, <2>1, AdvanceTracks
    <3> QED
      BY <1>3, <1>4, <1>5, <2>1, <3>1
  <2>2. CASE ~AtEnd(tracker)
    <3>1. /\ n + 1 \in 1 .. Len(text) /\ Tracked(t, text, n + 1) /\ Fresh(t, text, n + 1)
          /\ c = text[n + 1] /\ t.stored = tracker.stored
      BY <1>3, <1>4, <2>2, AdvanceTracks
    <3>2. /\ n \in p .. Len(text) - 1 /\ n + 1 \in n .. Len(text) /\ n + 1 \in p .. Len(text)
          /\ n + 1 \in 0 .. Len(text)
      BY <1>3, <1>5, <3>1
    <3> HIDE DEF t
    <3>3. Append(partial, c) = SubSeq(text, p, n + 1)
      BY <1>3, <1>5, <3>1, <3>2, PartGrows
    <3> QED
      BY <2>2, <3>1, <3>2, <3>3
  <2> QED
    BY <2>1, <2>2
<1>7. partial \notin Punctuators
  BY <1>2, <1>3, <1>5, OpenEndedIs
<1>8. "PUNCTUATOR" \in TokenTypes
  BY DEF TokenTypes
<1> HIDE DEF t, longer
<1>9. CASE longer \in Punctuators
  <2>1. m = n + 1 /\ n \in p .. Len(text) - 1
    BY <1>5, <1>6, <1>7, <1>9
  <2>2. Longest(text, p, n + 1)
    BY <1>2, <1>3, <1>5, <1>6, <1>9, <2>1, PunctuationCloses
  <2> QED
    BY <1>2, <1>5, <1>6, <1>8, <1>9, <2>1, <2>2, TokenReturned
<1>10. CASE longer \notin Punctuators
  <2>1. n = Len(text) \/ SubSeq(text, p, n + 1) \notin Punctuators
    BY <1>6, <1>10
  <2>2. /\ p < n /\ Longest(text, p, n - 1)
        /\ SubSeq(text, p, n - 1) = IF text[p] = "." THEN <<".">> ELSE <<"%", ":">>
        /\ text[n] # LF /\ Punctuation(text, n, n) /\ Punctuation(text, n, n + 1)
    BY <1>2, <1>3, <1>5, <2>1, PunctuationSplits
  <2>3. Head(partial) = text[p]
    BY <1>3, <1>5, SubSeqHead DEF Texts
  <2>4. taken = SubSeq(text, p, n - 1)
    BY <2>2, <2>3
  <2> HIDE DEF taken
  <2>5. /\ TokensIn(text', tokens') /\ EndsAt(text', tokens') = n - 1
        /\ tracker' = t /\ at' = "idle" /\ curword' = <<>>
        /\ n - 1 \in 0 .. Len(text) /\ Gap(text', (n - 1) + 1, (n - 1) + 1)
    BY <1>2, <1>5, <1>6, <1>8, <1>10, <2>2, <2>4, StoreKeeps
  <2>6. (n - 1) + 1 = n /\ n \in 1 .. Len(text) /\ n \in Nat \ {0} /\ n \in 1 .. m /\ n <= m
    BY <1>3, <1>5, <1>6
  <2>7. Begun(text, n - 1, n)
    BY <2>5, <2>6 DEF Begun
  <2>8. tmpPos' = PositionOf(text, n)
    BY <1>2, <1>4, <2>2, <2>6, PositionIsHere
  <2>9. rest = SubSeq(text, n, m)
    <3>1. Len(taken) = n - p
      <4> DEFINE q == n - 1
      <4>1. q \in p .. Len(text) /\ q - p + 1 = n - p
        BY <1>3, <1>5, <2>2
      <4>2. taken = SubSeq(text, p, q)
        BY <2>4
      <4> HIDE DEF q
      <4>3. Len(SubSeq(text, p, q)) = q - p + 1
        BY <1>3, <1>5, <4>1, PartIs
      <4> QED
        BY <4>1, <4>2, <4>3
    <3>2. Len(longer) = m - p + 1
      BY <1>3, <1>5, <1>6, PartIs
    <3> DEFINE i == n - p + 1
               j == m - p + 1
    <3>3. i \in 1 .. m - p + 1 /\ j \in i .. m - p + 1 /\ p + i - 1 = n /\ p + j - 1 = m
      <4>1. m \in Int /\ n \in Int /\ p \in Int /\ p <= n /\ n <= m
        BY <1>3, <1>5
      <4> QED
        BY <4>1
    <3>4. rest = SubSeq(SubSeq(text, p, m), i, j)
      BY <1>6, <3>1, <3>2
    <3> HIDE DEF i, j, rest
    <3>5. SubSeq(SubSeq(text, p, m), i, j) = SubSeq(text, p + i - 1, p + j - 1)
      BY <1>3, <1>5, <1>6, <3>3, PartOfPart
    <3> QED
      BY <3>3, <3>4, <3>5
  <2> HIDE DEF rest
  <2>10. InToken(text, n - 1, n, m, tmpPos', partial')
    BY <1>2, <1>10, <2>6, <2>7, <2>8, <2>9 DEF InToken
  <2>11. Punctuation(text, n, m) /\ (n < m => Fresh(t, text, m))
    <3>1. m = n \/ (m = n + 1 /\ Fresh(t, text, n + 1))
      BY <1>6
    <3>2. ~(n < n)
      BY <1>5
    <3> QED
      BY <2>2, <3>1, <3>2
  <2>12. InPunctuator(text, n - 1, m, tmpPos', partial', t)
    BY <2>6, <2>10, <2>11 DEF InPunctuator
  <2>13. Place(m)'
    BY <1>2, <1>6, <1>10, <2>5, <2>12 DEF Place
  <2> QED
    BY <1>3, <1>6, <2>5, <2>13 DEF LexInv
<1> QED
  BY <1>9, <1>10

-----------------------------------------------------------------------------
(* Every step of the lexer keeps the invariant ... *)
LEMMA LexerStepKeeps ==
  ASSUME LexInv, notDoneYet => at = "idle", text' = text, LexerStep
  PROVE  LexInv'
<1>1. CASE SkipText
  BY <1>1, ReachEndKeeps, StartBlankKeeps, ConsumeWhitespaceKeeps, StartCommentKeeps,
     ConsumeLineCommentKeeps, ConsumeBlockCommentKeeps DEF SkipText
<1>2. CASE StartToken
  BY <1>2, StartTokenKeeps
<1>3. CASE ReadWord
  BY <1>3, ConsumeIdentKeeps, ConsumeDecimalKeeps DEF ReadWord
<1>4. CASE ReadQuoted
  BY <1>4, ConsumeQuotedKeeps, ConsumeHexKeeps, ConsumeOctalKeeps DEF ReadQuoted
<1>5. CASE ReadPunctuator
  BY <1>5, ResumePunctuatorKeeps, MatchPunctuatorKeeps, ReadAheadKeeps, GiveBackKeeps
     DEF ReadPunctuator
<1> QED
  BY <1>1, <1>2, <1>3, <1>4, <1>5 DEF LexerStep

(* ... it holds of a new lexer on any file, now and after a step ... *)
IsNewLexer ==
  /\ \E s \in Seq(Characters) : tracker = NewTracker(s) /\ text = UnixText(s)
  /\ curword = <<>> /\ at = "idle" /\ tokens = <<>> /\ ~notDoneYet

(* A new lexer is at the start of its file. *)
LEMMA NewLexerBegins == IsNewLexer => LexInv
<1> SUFFICES ASSUME IsNewLexer PROVE LexInv
  OBVIOUS
<1> USE DEF IsNewLexer
<1>1. text \in Texts /\ Tracked(tracker, text, 0)
  BY NewTracks
<1>2. 0 \in 0 .. Len(text) /\ 1 \in 1 .. Len(text) + 1 /\ 0 + 1 = 1
  BY <1>1 DEF Texts
<1>3. TokensIn(text, tokens) /\ EndsAt(text, tokens) = 0
  <2>1. tokens \in Seq(TokensOf(text)) /\ DOMAIN tokens = {}
    OBVIOUS
  <2> QED
    BY <2>1 DEF TokensIn, EndsAt
<1>4. Gap(text, 1, 1)
  BY <1>1, <1>2, GapGrows
<1>5. Place(0)
  BY <1>1, <1>2, <1>3, <1>4 DEF Place
<1> QED
  BY <1>1, <1>2, <1>3, <1>5 DEF LexInv

(* The same after a step. *)
LEMMA NewLexerBegun == IsNewLexer' => LexInv'
BY NewLexerBegins, PTL

(* ... and no other step of the driver touches what it is about. *)
LEMMA LexInit == DriverInit => LexInv
<1>1. <<>> \in Seq(Characters)
  OBVIOUS
<1>2. UnixText(<<>>) = <<>>
  BY <1>1, UnixRead
<1> QED
  BY <1>1, <1>2, NewLexerBegins DEF DriverInit, IsNewLexer

(* A file is opened. *)
LEMMA FileOpened ==
  ASSUME CountInv, KeptInv, OpenFile
  PROVE  LexInv'
<1>1. NextFile.text \in Seq(Characters)
  <2>1. command \in CommandLines /\ file \in 0 .. Len(command.files) /\ file < Len(command.files)
    BY DEF CountInv, Bookkeeping, OpenFile, FilesLeft
  <2> DEFINE Files == [text : Seq(Characters), opens : BOOLEAN]
             files == command.files
  <2>2. files \in Seq(Files)
    BY <2>1, CommandLinesAssumption
  <2>3. NextFile \in Files
    <3> HIDE DEF Files, files
    <3>1. Len(files) \in Nat /\ \A k \in 1 .. Len(files) : files[k] \in Files
      BY <2>2
    <3>2. file + 1 \in 1 .. Len(files)
      BY <2>1, <3>1 DEF files
    <3> QED
      BY <3>1, <3>2 DEF NextFile, files
  <2> QED
    BY <2>3
<1>2. /\ tracker' = NewTracker(NextFile.text) /\ text' = UnixText(NextFile.text)
      /\ curword' = <<>> /\ at' = "idle" /\ tokens' = <<>> /\ ~notDoneYet'
  BY DEF OpenFile, FilesLeft, NewLexer, KeptInv, statics
<1> QED
  BY <1>1, <1>2, NewLexerBegun DEF IsNewLexer

(* So every step of the driver keeps it. *)
LEMMA LexStep == LexInv /\ CountInv /\ KeptInv /\ [DriverNext]_vars => LexInv'
<1> SUFFICES ASSUME LexInv, CountInv, KeptInv, [DriverNext]_vars PROVE LexInv'
  OBVIOUS
<1>1. CASE UNCHANGED <<lexerVars, text>>
  BY <1>1 DEF LexInv, Place, lexerVars, statics
<1>2. CASE ReadFile
  BY <1>2, LexerStepKeeps DEF ReadFile, driverVars, KeptInv
<1>3. CASE OpenFile
  BY <1>3, FileOpened
<1>4. CASE ReadOptions \/ OpenFails \/ CloseFile \/ Catch \/ AllFilesTaken
             \/ PrintDiagnosticSummary
  BY <1>1, <1>4 DEF ReadOptions, OpenFails, CloseFile, Catch, AllFilesTaken, PrintDiagnosticSummary
<1> QED
  BY <1>1, <1>2, <1>3, <1>4 DEF DriverNext, vars, driverVars

-----------------------------------------------------------------------------
(* What the invariant says of a token, in the words of the properties. *)
LEMMA TokenStands ==
  ASSUME LexInv, NEW k \in DOMAIN tokens
  PROVE  LET i == StartOf(tokens[k])  j == EndOf(tokens[k]) IN
         /\ Starts(tokens[k]) # {} /\ Longest(text, i, j)
         /\ SubSeq(text, i, j) = tokens[k].value
         /\ i \in 1 .. Len(text) /\ j \in i .. Len(text)
         /\ j = EndIn(text, tokens[k])
         /\ Gap(text, EndBefore(text, tokens, k) + 1, i)
<1> DEFINE token == tokens[k]
<1>1. text \in Texts /\ Len(text) \in Nat /\ TokensIn(text, tokens)
  BY DEF LexInv, Texts
<1>2. token \in TokensOf(text)
  BY <1>1 DEF TokensIn
<1>3. PICK p \in 1 .. Len(text) : token.pos = PositionOf(text, p)
  BY <1>2 DEF TokensOf
<1>4. StartIn(text, token.pos) = p /\ Starts(token) = {p}
  BY <1>1, <1>3, StartIs DEF Starts
<1>5. StartOf(token) = p
  BY <1>4 DEF StartOf
<1>6. EndOf(token) = EndIn(text, token)
  BY <1>4, <1>5 DEF EndOf, EndIn
<1>7. /\ SubSeq(text, p, EndIn(text, token)) = token.value
      /\ Longest(text, p, EndIn(text, token))
      /\ Gap(text, EndBefore(text, tokens, k) + 1, p)
  BY <1>1, <1>4 DEF TokensIn
<1>8. EndIn(text, token) \in p .. Len(text)
  BY <1>1, <1>7 DEF Longest
<1> QED
  BY <1>4, <1>5, <1>6, <1>7, <1>8

(* The end of the last token. *)
LEMMA EndOfTokensIs ==
  ASSUME LexInv
  PROVE  EndOfTokens = EndsAt(text, tokens)
<1>1. tokens \in Seq(TokensOf(text))
  BY DEF LexInv, TokensIn
<1>2. tokens # <<>> => Len(tokens) \in DOMAIN tokens
  BY <1>1
<1> QED
  BY <1>2, TokenStands DEF EndOfTokens, EndsAt

(* Every token stands where its position says, in every file: whatever is  *)
(* read ahead and given back, over line ends of any kind.                  *)
THEOREM TokensAreWhereTheySay == DriverSpec => []TokensStandWhereTheySay
<1>1. LexInv => TokensStandWhereTheySay
  <2> SUFFICES ASSUME LexInv, NEW k \in DOMAIN tokens
               PROVE  /\ Starts(tokens[k]) # {}
                      /\ Part(text, StartOf(tokens[k]), EndOf(tokens[k])) = tokens[k].value
    BY DEF TokensStandWhereTheySay
  <2> DEFINE i == StartOf(tokens[k])
             j == EndOf(tokens[k])
  <2>1. /\ Starts(tokens[k]) # {} /\ SubSeq(text, i, j) = tokens[k].value
        /\ j \in i .. Len(text)
    BY TokenStands
  <2>2. Part(text, i, j) = SubSeq(text, i, j)
    BY <2>1 DEF Part
  <2> QED
    BY <2>1, <2>2
<1> QED
  BY <1>1, LexInit, LexStep, CountInit, CountStep, KeptInit, KeptStep, PTL DEF DriverSpec

(* No token of any file could have been longer, and none is the start of a *)
(* comment.                                                                *)
THEOREM TokensAreLongest == DriverSpec => []MaximalMunch
<1>1. LexInv => MaximalMunch
  <2> SUFFICES ASSUME LexInv, NEW k \in DOMAIN tokens
               PROVE  LET i == StartOf(tokens[k]) IN
                      /\ IsToken(tokens[k].value) /\ ~StartsComment(text, i)
                      /\ \A j \in EndOf(tokens[k]) + 1 .. Len(text) : ~IsToken(SubSeq(text, i, j))
    BY DEF MaximalMunch
  <2> QED
    BY TokenStands DEF Longest
<1> QED
  BY <1>1, LexInit, LexStep, CountInit, CountStep, KeptInit, KeptStep, PTL DEF DriverSpec

(* Between the tokens of a file there is nothing but white space and       *)
(* comments: no character is lost.                                         *)
THEOREM NothingElseIsSkipped == DriverSpec => []OnlyBlanksSkipped
<1>1. LexInv => OnlyBlanksSkipped
  <2> SUFFICES ASSUME LexInv PROVE OnlyBlanksSkipped
    OBVIOUS
  <2>1. text \in Texts /\ Len(text) \in Nat
    BY DEF LexInv, Texts
  <2>2. ASSUME NEW k \in DOMAIN tokens
        PROVE  IsBlankText(SubSeq(text, (IF k = 1 THEN 0 ELSE EndOf(tokens[k - 1])) + 1,
                                  StartOf(tokens[k]) - 1))
    <3>1. Gap(text, EndBefore(text, tokens, k) + 1, StartOf(tokens[k]))
      BY <2>2, TokenStands
    <3>2. k # 1 => k - 1 \in DOMAIN tokens
      <4>1. tokens \in Seq(TokensOf(text))
        BY DEF LexInv, TokensIn
      <4> QED
        BY <2>2, <4>1
    <3>3. EndBefore(text, tokens, k) = IF k = 1 THEN 0 ELSE EndOf(tokens[k - 1])
      BY <3>2, TokenStands DEF EndBefore
    <3> QED
      BY <2>1, <3>1, <3>3, GapIsBlank
  <2>3. ASSUME at = "end"
        PROVE  IsBlankText(SubSeq(text, EndOfTokens + 1, Len(text)))
    <3>1. PICK n \in 0 .. Len(text) : Place(n)
      BY DEF LexInv
    <3>2. n = Len(text) /\ Gap(text, EndsAt(text, tokens) + 1, n + 1)
      BY <2>3, <3>1 DEF Place
    <3>3. (n + 1) - 1 = Len(text)
      BY <2>1, <3>2
    <3> QED
      BY <2>1, <3>2, <3>3, GapIsBlank, EndOfTokensIs
  <2> QED
    BY <2>2, <2>3 DEF OnlyBlanksSkipped
<1> QED
  BY <1>1, LexInit, LexStep, CountInit, CountStep, KeptInit, KeptStep, PTL DEF DriverSpec

(* The lexer refuses a file only where neither a token nor a comment can   *)
(* be read.                                                                *)
THEOREM OnlyIllegalIsRefused == DriverSpec => []RefusedTextIsIllegal
<1>1. LexInv => RefusedTextIsIllegal
  <2> SUFFICES ASSUME LexInv, at = "failed"
               PROVE  \E i \in EndOfTokens + 1 .. Len(text) :
                        /\ IsBlankText(SubSeq(text, EndOfTokens + 1, i - 1))
                        /\ IllegalAt(text, i)
    BY DEF RefusedTextIsIllegal
  <2>1. text \in Texts /\ Len(text) \in Nat /\ EndOfTokens = EndsAt(text, tokens)
    BY EndOfTokensIs DEF LexInv, Texts
  <2>2. Refused(text, EndOfTokens)
    BY <2>1 DEF LexInv, Place
  <2>3. PICK i \in 1 .. Len(text) : Gap(text, EndOfTokens + 1, i) /\ IllegalAt(text, i)
    BY <2>2 DEF Refused, Begun
  <2>4. i \in EndOfTokens + 1 .. Len(text)
    BY <2>1, <2>3 DEF Gap
  <2>5. IsBlankText(SubSeq(text, EndOfTokens + 1, i - 1))
    BY <2>1, <2>3, GapIsBlank
  <2> QED
    BY <2>3, <2>4, <2>5
<1> QED
  BY <1>1, LexInit, LexStep, CountInit, CountStep, KeptInit, KeptStep, PTL DEF DriverSpec
=============================================================================
