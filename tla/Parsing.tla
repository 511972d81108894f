------------------------------ MODULE Parsing ------------------------------
(***************************************************************************)
(* The parser on every text: the next token may be any as long as the      *)
(* parser has not refused one.                                             *)
(***************************************************************************)
EXTENDS Printer

CONSTANT Tasks
  \* What is parsed, and bounds: how the texts begin, with which tokens they
  \* go on, how many they have, and how many follow one that is refused.

VARIABLE task

vars == <<task, text>>

(* The tree of the text, if the parser accepts it. *)
Read == {result.node : result \in {r \in {Parse(task.start)} : r.ok /\ Token(r.next) = "END"}}

Written == INSTANCE Parser WITH Verbatim <- TRUE
Reader(printed) == INSTANCE Parser WITH text <- printed

(* The parser has not refused a token, or did just now. *)
MayGoOn == Parse(task.start).next > Len(text) - task.after

Init == task \in Tasks /\ text = task.prefix

ReadToken ==
  /\ Len(text) < task.length
  /\ MayGoOn
  /\ \E t \in task.tokens : text' = Append(text, t)
  /\ UNCHANGED task

Next == ReadToken
Spec == Init /\ [][Next]_vars

-----------------------------------------------------------------------------
Meaning ==
  LET n == Len(text) IN
  CASE task.start = "expression" -> ExpressionIn(1, n)
    [] task.start = "statement"  -> StatementsIn(1, n, FALSE)
    [] task.start = "unit"       -> UnitsIn(1, n)

(* Declarations that are known to be read otherwise (README, section 4).   *)
Item(lo, hi) ==
  /\ lo = 1 \/ Token(lo - 1) \in {";", "{", "}"}
  /\ text[lo] \in TypeSpecifiers
  /\ \A k \in lo .. hi - 1 : text[k] \notin {";", "{", "}"}

(* () for a parameter without name. *)
EmptyParentheses ==
  \E i \in DOMAIN text :
    text[i] = "(" /\ Token(i + 1) = ")" /\ Token(i - 1) \notin {"x", ")"}

(* A declaration without name. *)
NoName ==
  \E lo, hi \in DOMAIN text :
    Item(lo, hi) /\ text[hi] = ";" /\ NameIn(lo + 1, hi - 1) = 0

(* The definition of a function whose own parameters are not those next to *)
(* its body, or whose name stands in parentheses.                          *)
ParenthesizedDefinition ==
  \E lo, k, hi \in DOMAIN text :
    /\ Item(lo, hi) /\ text[hi] = "{" /\ k \in lo + 1 .. hi - 1
    /\ text[k] = "(" /\ text[k - 1] = ")" /\ Level(lo, k) = 0

(* One of several parameters is of function type. *)
FunctionAmongParameters ==
  \E o, c \in DOMAIN text :
    /\ text[o] = "(" /\ text[c] = ")" /\ Opener(1, c) = o /\ IsParameterList(o)
    /\ LET parts == Between(o + 1, c - 1) IN
       Len(parts) > 1 /\ \E n \in DOMAIN parts :
         /\ Token(parts[n][1]) \in TypeSpecifiers
         /\ IsFunctionType(DeclaredType(parts[n][1] + 1, parts[n][2], IntDeclaration))

ReadOtherwise ==
  EmptyParentheses \/ NoName \/ ParenthesizedDefinition \/ FunctionAmongParameters

Agrees == Read = Meaning

(* What the parser reads, with one token of lookahead and precedence       *)
(* climbing, is what the grammar says: operators group by their strength   *)
(* and direction, an else belongs to the nearest if, an identifier is a    *)
(* label only before a colon, and no text outside the grammar is accepted  *)
(* or one in it refused.                                                   *)
ReadAsWritten == task.start = "unit" \/ Agrees \/ ReadOtherwise

(* A declaration declares the type that C reads from its declarator, from  *)
(* the name outwards, and so does a definition; each is accepted just when *)
(* it is legal.                                                            *)
DeclaresAsWritten == task.start # "unit" \/ Agrees \/ ReadOtherwise

(* What --print-ast prints. *)
PrintTree(tree) ==
  CASE task.start = "expression" -> PrintExpression(tree)
    [] task.start = "statement"  -> PrintStatement(tree)
    [] task.start = "unit"       -> PrintUnit(tree)

(* The printed text is the program: read again, it gives the same tree and *)
(* the same types, so no parentheses are missing and none are wrong, which *)
(* pprinter.cc is in doubt about for declarators.                          *)
PrintedReadsBack ==
  Read # {} =>
    \E printed \in {PrintTree(Written!Parse(task.start).node)} :
      \/ EmptyParentheses \/ NoName \/ \E k \in DOMAIN printed : printed[k] = Names
      \/ Read = {again.node : again \in {r \in {Reader(printed)!Parse(task.start)} :
                                           r.ok /\ r.next = Len(printed) + 1}}
=============================================================================
