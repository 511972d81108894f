---------------------------- MODULE CodeGenerator ----------------------------
(***************************************************************************)
(* The control flow that the code generator builds: the emitIR,            *)
(* emit_condition and emit_rvalue functions of cogen.cc with the basic     *)
(* blocks, break and continue points and label map of the IRCreator.       *)
(*                                                                         *)
(* The generator walks a syntax tree by recursion; the calls it has still  *)
(* to make are the agenda.  The tree is not given: whenever a statement or *)
(* an expression is next, any form the parser accepts there may follow, so *)
(* the behaviours cover every translation unit within the two bounds.      *)
(* Instructions that are not terminators are left out.                     *)
(***************************************************************************)
EXTENDS Integers, Sequences, FiniteSets

CONSTANTS
  FunctionNames,   \* the functions a translation unit may define
  None,            \* no function: a null pointer
  Labels,          \* the label names their statements may use
  Extents          \* the kinds of translation unit that are compiled

(* What a unit may contain: the functions it declares at file scope, those *)
(* it declares inside a function body, and two bounds: the statements that *)
(* are listed or have a body, and the operators that matter here.          *)
ASSUME CodeGeneratorAssumption ==
  /\ None \notin FunctionNames
  /\ Extents \subseteq [labels          : SUBSET Labels,
                       prototyped      : SUBSET FunctionNames,
                       innerPrototyped : SUBSET FunctionNames,
                       maxStatements   : Nat,
                       maxOperators    : Nat]

(* Blocks are numbered; a null block pointer is 0. *)
Null == 0

VARIABLES
  extent,          \* the kind of unit, one of Extents
  declared,        \* functions whose node has an associatedValue
  defined,         \* functions whose definition was emitted
  currentFunction, \* IRCreator::currentFunction, None between functions
  blocks,          \* every block of the module, in order of creation
  insertBlock,     \* block the Builder inserts into
  breakPoint,      \* IRCreator::currentBreakPoint
  continuePoint,   \* IRCreator::currentContinuePoint
  mapLabel,        \* IRCreator::mapLabel, Null where a label is missing
  agenda,          \* calls the recursion has still to make, next one first
  statements,      \* statements used so far
  operators,       \* operators used so far
  loops,           \* history: loops around the next statement, by number
  loopBlocks,      \* history: test and end block of each loop of the unit
  jumps,           \* history: breaks and continues with their loop
  placed,          \* history: block where each label of the function stands
  gotos            \* history: the gotos of the function with their target

ir      == <<currentFunction, blocks, insertBlock, mapLabel>>
points  == <<breakPoint, continuePoint>>
unit    == <<extent, declared, defined>>
history == <<loops, loopBlocks, jumps, placed, gotos>>
vars    == <<ir, points, unit, agenda, statements, operators, history>>

-----------------------------------------------------------------------------
(* Basic blocks.  A block keeps the list of terminators it was given, each *)
(* the sequence of its successors: <<>> for a return, one block for br,    *)
(* two for a conditional br.  `incoming' is the incoming list of the phi   *)
(* node at its start, empty if there is none.                              *)
Block == DOMAIN blocks
Fresh(k) == Len(blocks) + k

EmptyBlock == [of |-> currentFunction, terminators |-> <<>>, incoming |-> <<>>]
(* Mutant: a makeBlock is forgotten wherever several are made. *)
Created_OneShort(n) ==
  blocks \o [k \in 1 .. (IF n > 1 THEN n - 1 ELSE n) |-> EmptyBlock]
Created(n) == blocks \o [k \in 1 .. n |-> EmptyBlock]

Terminated(bs, b, succs) ==
  [bs EXCEPT ![b].terminators = Append(@, succs)]

Task(do)           == [do |-> do]
InsertAt(b)        == [do |-> "insertAt", block |-> b]
Connect(b)         == [do |-> "connect", to |-> b]
ConnectFrom(a, b)  == [do |-> "connectFrom", from |-> a, to |-> b]
ConnectPhi(b)      == [do |-> "connectPhi", to |-> b]
Condition(t, f)    == [do |-> "condition", true |-> t, false |-> f]
EndWhile(h, e)     == [do |-> "endWhile", header |-> h, end |-> e]
DoTest(b)          == [do |-> "doTest", content |-> b]

Calls(do)    == agenda # <<>> /\ Head(agenda).do = do
call         == Head(agenda)
Proceed(ts)  == agenda' = ts \o Tail(agenda)
UseStatement == statements < extent.maxStatements /\ statements' = statements + 1
UseOperator  == operators < extent.maxOperators /\ operators' = operators + 1

NoLabels == [l \in Labels |-> Null]

TypeOK ==
  /\ extent \in Extents
  /\ declared \subseteq FunctionNames
  /\ defined \subseteq declared
  /\ currentFunction \in FunctionNames \union {None}
  /\ blocks \in Seq([of : FunctionNames,
                     terminators : Seq(Seq(Block \union {Null})),
                     incoming : Seq(Block)])
  /\ {insertBlock, breakPoint, continuePoint} \subseteq Block \union {Null}
  /\ currentFunction # None => insertBlock # Null
  /\ mapLabel \in [Labels -> Block \union {Null}]
  /\ agenda \in Seq(
       [do : {"compound", "statement", "rvalue", "return"}]
         \union [do : {"insertAt"}, block : Block]
         \union [do : {"connect", "connectPhi"}, to : Block]
         \union [do : {"connectFrom"}, from : Block, to : Block]
         \union [do : {"condition", "conditionalBranch"}, true : Block, false : Block]
         \union [do : {"endWhile"}, header : Block, end : Block]
         \union [do : {"doTest"}, content : Block])
  /\ statements \in 0 .. extent.maxStatements
  /\ operators \in 0 .. extent.maxOperators
  /\ loops \in Seq(DOMAIN loopBlocks)
  /\ loopBlocks \in Seq([test : Block \union {Null}, end : Block \union {Null}])
  /\ jumps \subseteq [loop : DOMAIN loopBlocks, kind : {"break", "continue"},
                      to : Block \union {Null}]
  /\ placed \in [Labels -> Block \union {Null}]
  /\ gotos \subseteq [label : Labels, to : Block]

Init ==
  /\ extent \in Extents
  /\ declared = {} /\ defined = {}
  /\ currentFunction = None /\ blocks = <<>> /\ insertBlock = Null
  /\ breakPoint = Null /\ continuePoint = Null
  /\ mapLabel = NoLabels
  /\ agenda = <<>> /\ statements = 0 /\ operators = 0
  /\ loops = <<>> /\ loopBlocks = <<>> /\ jumps = {}
  /\ placed = NoLabels /\ gotos = {}

-----------------------------------------------------------------------------
(* External declarations.                                                  *)

(* startFunction with definition = false: a prototype. *)
StartPrototype(f) ==
  /\ f \notin declared
  /\ declared' = declared \union {f}
  /\ mapLabel' = NoLabels

DeclareFunction(f) ==
  /\ currentFunction = None
  /\ f \in extent.prototyped
  /\ StartPrototype(f)
  /\ UNCHANGED <<extent, defined, currentFunction, blocks, insertBlock, points,
                 agenda, statements, operators, history>>

(* Mutant: the label map is never cleared. *)
DefineFunction_KeepsLabels(f) ==
  /\ currentFunction = None
  /\ f \notin defined
  /\ declared' = declared \union {f}
  /\ defined' = defined \union {f}
  /\ currentFunction' = f
  /\ blocks' = Append(blocks, [EmptyBlock EXCEPT !.of = f])
  /\ insertBlock' = Fresh(1)
  /\ agenda' = <<Task("compound")>>
  /\ placed' = NoLabels
  /\ gotos' = {}
  /\ UNCHANGED <<extent, points, mapLabel, statements, operators, loops,
                 loopBlocks, jumps>>

(* The label map is cleared by startFunction, which a function that was     *)
(* declared before does not go through: startAlreadyDefinedFunction.        *)
DefineFunction(f) ==
  /\ currentFunction = None
  /\ f \notin defined
  /\ mapLabel' = IF f \in declared THEN mapLabel ELSE NoLabels
  /\ declared' = declared \union {f}
  /\ defined' = defined \union {f}
  /\ currentFunction' = f
  /\ blocks' = Append(blocks, [EmptyBlock EXCEPT !.of = f])
  /\ insertBlock' = Fresh(1)
  /\ agenda' = <<Task("compound")>>
  /\ placed' = NoLabels
  /\ gotos' = {}
  /\ UNCHANGED <<extent, points, statements, operators, loops, loopBlocks,
                 jumps>>

(* The parser has seen to it that every label of a goto is in the function *)
(* (SemanticTree::checkGotoLabels).                                        *)
FinishFunction ==
  /\ currentFunction # None
  /\ agenda = <<>>
  /\ \A g \in gotos : placed[g.label] # Null
  /\ blocks' = IF blocks[insertBlock].terminators = <<>>
                 THEN Terminated(blocks, insertBlock, <<>>) ELSE blocks
  /\ currentFunction' = None
  /\ UNCHANGED <<unit, insertBlock, mapLabel, points, agenda, statements,
                 operators, history>>

-----------------------------------------------------------------------------
(* Statements.                                                             *)

(* One more statement of a compound statement, or its end. *)
CompoundStatement ==
  /\ Calls("compound")
  /\ \/ UseStatement /\ agenda' = <<Task("statement")>> \o agenda
     \/ Proceed(<<>>) /\ UNCHANGED statements
  /\ UNCHANGED <<ir, points, unit, operators, history>>

InnerDeclaration(f) ==
  /\ Calls("compound")
  /\ f \in extent.innerPrototyped
  /\ StartPrototype(f)
  /\ UNCHANGED <<extent, defined, currentFunction, blocks, insertBlock, points,
                 agenda, statements, operators, history>>

NestedCompoundStatement ==
  /\ Calls("statement")
  /\ Proceed(<<Task("compound")>>)
  /\ UNCHANGED <<ir, points, unit, statements, operators, history>>

ExpressionStatement ==
  /\ Calls("statement")
  /\ Proceed(<<Task("rvalue")>>)
  /\ UNCHANGED <<ir, points, unit, statements, operators, history>>

(* The returned expression, if there is one, is evaluated first. *)
ReturnStatement ==
  /\ Calls("statement")
  /\ Proceed(<<Task("rvalue"), Task("return")>>)
  /\ UNCHANGED <<ir, points, unit, statements, operators, history>>

MakeReturn ==
  /\ Calls("return")
  /\ blocks' = Terminated(Created(1), insertBlock, <<>>)
  /\ insertBlock' = Fresh(1)
  /\ Proceed(<<>>)
  /\ UNCHANGED <<currentFunction, mapLabel, points, unit, statements,
                 operators, history>>

(* Mutant: a label never looks for the block its gotos have made. *)
LabeledStatement_Remade(l) ==
  /\ Calls("statement")
  /\ placed[l] = Null
  /\ blocks' = Terminated(Created(1), insertBlock, <<Fresh(1)>>)
  /\ mapLabel' = [mapLabel EXCEPT ![l] = Fresh(1)]
  /\ insertBlock' = Fresh(1)
  /\ placed' = [placed EXCEPT ![l] = Fresh(1)]
  /\ Proceed(<<Task("statement")>>)
  /\ UNCHANGED <<currentFunction, points, unit, statements, operators, loops,
                 loopBlocks, jumps, gotos>>

(* The statement behind the label is parsed before the label is entered; a *)
(* second definition of the label in the function is an error.              *)
LabeledStatement(l) ==
  LET known == mapLabel[l] # Null
      block == IF known THEN mapLabel[l] ELSE Fresh(1) IN
  /\ Calls("statement")
  /\ placed[l] = Null
  /\ blocks' = Terminated(Created(IF known THEN 0 ELSE 1), insertBlock, <<block>>)
  /\ mapLabel' = [mapLabel EXCEPT ![l] = block]
  /\ insertBlock' = block
  /\ placed' = [placed EXCEPT ![l] = block]
  /\ Proceed(<<Task("statement")>>)
  /\ UNCHANGED <<currentFunction, points, unit, statements, operators, loops,
                 loopBlocks, jumps, gotos>>

GotoStatement(l) ==
  LET known == mapLabel[l] # Null
      block == IF known THEN mapLabel[l] ELSE Fresh(2) IN
  /\ Calls("statement")
  /\ blocks' = Terminated(Created(IF known THEN 1 ELSE 2), insertBlock, <<block>>)
  /\ mapLabel' = [mapLabel EXCEPT ![l] = block]
  /\ insertBlock' = Fresh(1)
  /\ gotos' = gotos \union {[label |-> l, to |-> block]}
  /\ Proceed(<<>>)
  /\ UNCHANGED <<currentFunction, points, unit, statements, operators, loops,
                 loopBlocks, jumps, placed>>

(* break and continue, which the parser accepts inside a loop only. *)
Jump(kind, point) ==
  /\ Calls("statement")
  /\ loops # <<>>
  /\ blocks' = Terminated(Created(1), insertBlock, <<point>>)
  /\ insertBlock' = Fresh(1)
  /\ jumps' = jumps \union {[loop |-> Head(loops), kind |-> kind, to |-> point]}
  /\ Proceed(<<>>)
  /\ UNCHANGED <<currentFunction, mapLabel, points, unit, statements,
                 operators, loops, loopBlocks, placed, gotos>>

BreakStatement    == Jump("break", breakPoint)
ContinueStatement == Jump("continue", continuePoint)

(* while: header, content and end blocks, in this order.  The continue      *)
(* point is the content block.                                              *)
WhileStatement ==
  LET header == Fresh(1) content == Fresh(2) end == Fresh(3) IN
  /\ Calls("statement")
  /\ UseStatement
  /\ blocks' = Terminated(Created(3), insertBlock, <<header>>)
  /\ insertBlock' = header
  /\ breakPoint' = end
  /\ continuePoint' = content
  /\ Proceed(<<Condition(content, end), InsertAt(content), Task("statement"),
               EndWhile(header, end)>>)
  /\ loopBlocks' = Append(loopBlocks, [test |-> header, end |-> end])
  /\ loops' = <<Len(loopBlocks')>> \o loops
  /\ UNCHANGED <<currentFunction, mapLabel, unit, operators, jumps, placed,
                 gotos>>

EndWhileStatement ==
  /\ Calls("endWhile")
  /\ blocks' = Terminated(blocks, insertBlock, <<call.header>>)
  /\ insertBlock' = call.end
  /\ loops' = Tail(loops)
  /\ Proceed(<<>>)
  /\ UNCHANGED <<currentFunction, mapLabel, points, unit, statements,
                 operators, loopBlocks, jumps, placed, gotos>>

(* do: the test and end blocks and with them the break and continue points *)
(* are made after the body.                                                *)
DoStatement ==
  /\ Calls("statement")
  /\ UseStatement
  /\ blocks' = Terminated(Created(1), insertBlock, <<Fresh(1)>>)
  /\ insertBlock' = Fresh(1)
  /\ Proceed(<<Task("statement"), DoTest(Fresh(1))>>)
  /\ loopBlocks' = Append(loopBlocks, [test |-> Null, end |-> Null])
  /\ loops' = <<Len(loopBlocks')>> \o loops
  /\ UNCHANGED <<currentFunction, mapLabel, points, unit, operators, jumps,
                 placed, gotos>>

(* Mutant: the condition of a do loop is emitted where its body ends. *)
EndDoStatement_NoTestBlock ==
  /\ Calls("doTest")
  /\ blocks' = Created(1)
  /\ breakPoint' = Fresh(1)
  /\ continuePoint' = call.content
  /\ loopBlocks' = [loopBlocks EXCEPT ![Head(loops)] =
                      [test |-> insertBlock, end |-> Fresh(1)]]
  /\ loops' = Tail(loops)
  /\ Proceed(<<Condition(call.content, Fresh(1)), InsertAt(Fresh(1))>>)
  /\ UNCHANGED <<currentFunction, insertBlock, mapLabel, unit, statements,
                 operators, jumps, placed, gotos>>

EndDoStatement ==
  LET test == Fresh(1) end == Fresh(2) IN
  /\ Calls("doTest")
  /\ blocks' = Terminated(Created(2), insertBlock, <<test>>)
  /\ insertBlock' = test
  /\ breakPoint' = end
  /\ continuePoint' = call.content
  /\ loopBlocks' = [loopBlocks EXCEPT ![Head(loops)] =
                      [test |-> test, end |-> end]]
  /\ loops' = Tail(loops)
  /\ Proceed(<<Condition(call.content, end), InsertAt(end)>>)
  /\ UNCHANGED <<currentFunction, mapLabel, unit, statements, operators,
                 jumps, placed, gotos>>

(* Mutant: without an else the alternative block is left open. *)
SelectionStatement_OpenAlternative(hasElse) ==
  LET header == Fresh(1) consequence == Fresh(2)
      alternative == Fresh(3) end == Fresh(4) IN
  /\ Calls("statement")
  /\ UseStatement
  /\ blocks' = Terminated(Created(4), insertBlock, <<header>>)
  /\ insertBlock' = header
  /\ Proceed(<<Condition(consequence, alternative), InsertAt(consequence),
               Task("statement"), Connect(end)>>
             \o (IF hasElse
                   THEN <<InsertAt(alternative), Task("statement"), Connect(end)>>
                   ELSE <<>>)
             \o <<InsertAt(end)>>)
  /\ UNCHANGED <<currentFunction, mapLabel, points, unit, operators, history>>

(* if: header, consequence, alternative and end blocks, in this order. *)
SelectionStatement(hasElse) ==
  LET header == Fresh(1) consequence == Fresh(2)
      alternative == Fresh(3) end == Fresh(4) IN
  /\ Calls("statement")
  /\ UseStatement
  /\ blocks' = Terminated(Created(4), insertBlock, <<header>>)
  /\ insertBlock' = header
  /\ Proceed(<<Condition(consequence, alternative), InsertAt(consequence),
               Task("statement"), Connect(end)>>
             \o (IF hasElse
                   THEN <<InsertAt(alternative), Task("statement"), Connect(end)>>
                   ELSE <<ConnectFrom(alternative, end)>>)
             \o <<InsertAt(end)>>)
  /\ UNCHANGED <<currentFunction, mapLabel, points, unit, operators, history>>

-----------------------------------------------------------------------------
(* Expressions as conditions.                                              *)

ConditionLeaf ==
  /\ Calls("condition")
  /\ Proceed(<<Task("rvalue"), [call EXCEPT !.do = "conditionalBranch"]>>)
  /\ UNCHANGED <<ir, points, unit, statements, operators, history>>

MakeConditionalBranch ==
  /\ Calls("conditionalBranch")
  /\ blocks' = Terminated(blocks, insertBlock, <<call.true, call.false>>)
  /\ Proceed(<<>>)
  /\ UNCHANGED <<currentFunction, insertBlock, mapLabel, points, unit,
                 statements, operators, history>>

(* An operator evaluated by control flow: n blocks are made, then ts done. *)
ConditionOperator(n, ts) ==
  /\ Calls("condition")
  /\ UseOperator
  /\ blocks' = Created(n)
  /\ Proceed(ts)
  /\ UNCHANGED <<currentFunction, insertBlock, mapLabel, points, unit,
                 statements, history>>

ConditionAnd ==
  ConditionOperator(1, <<Condition(Fresh(1), call.false), InsertAt(Fresh(1)),
                         Condition(call.true, call.false)>>)
ConditionOr ==
  ConditionOperator(1, <<Condition(call.true, Fresh(1)), InsertAt(Fresh(1)),
                         Condition(call.true, call.false)>>)
ConditionNot ==
  ConditionOperator(0, <<Condition(call.false, call.true)>>)
ConditionTernary ==
  ConditionOperator(2, <<Condition(Fresh(1), Fresh(2)),
                         InsertAt(Fresh(1)), Condition(call.true, call.false),
                         InsertAt(Fresh(2)), Condition(call.true, call.false)>>)

(* Expressions as values.  Only the ternary operator has control flow; any *)
(* other operator evaluates its operands one after the other.              *)
RvalueLeaf ==
  /\ Calls("rvalue")
  /\ Proceed(<<>>)
  /\ UNCHANGED <<ir, points, unit, statements, operators, history>>

RvalueBinary ==
  /\ Calls("rvalue")
  /\ UseOperator
  /\ Proceed(<<Task("rvalue"), Task("rvalue")>>)
  /\ UNCHANGED <<ir, points, unit, statements, history>>

(* Mutant: the phi lists the blocks the arms started in. *)
RvalueTernary_FirstBlocks ==
  LET consequence == Fresh(1) alternative == Fresh(2) end == Fresh(3) IN
  /\ Calls("rvalue")
  /\ UseOperator
  /\ blocks' = [Created(3) EXCEPT ![end].incoming = <<consequence, alternative>>]
  /\ Proceed(<<Condition(consequence, alternative),
               InsertAt(consequence), Task("rvalue"), Connect(end),
               InsertAt(alternative), Task("rvalue"), Connect(end),
               InsertAt(end)>>)
  /\ UNCHANGED <<currentFunction, insertBlock, mapLabel, points, unit,
                 statements, history>>

RvalueTernary ==
  LET consequence == Fresh(1) alternative == Fresh(2) end == Fresh(3) IN
  /\ Calls("rvalue")
  /\ UseOperator
  /\ blocks' = Created(3)
  /\ Proceed(<<Condition(consequence, alternative),
               InsertAt(consequence), Task("rvalue"), ConnectPhi(end),
               InsertAt(alternative), Task("rvalue"), ConnectPhi(end),
               InsertAt(end)>>)
  /\ UNCHANGED <<currentFunction, insertBlock, mapLabel, points, unit,
                 statements, history>>

-----------------------------------------------------------------------------
(* The calls of the IRCreator that the functions above leave for later.    *)

SetCurrentBasicBlock ==
  /\ Calls("insertAt")
  /\ insertBlock' = call.block
  /\ Proceed(<<>>)
  /\ UNCHANGED <<currentFunction, blocks, mapLabel, points, unit, statements,
                 operators, history>>

ConnectCurrent ==
  /\ Calls("connect")
  /\ blocks' = Terminated(blocks, insertBlock, <<call.to>>)
  /\ Proceed(<<>>)
  /\ UNCHANGED <<currentFunction, insertBlock, mapLabel, points, unit,
                 statements, operators, history>>

ConnectBlocks ==
  /\ Calls("connectFrom")
  /\ blocks' = Terminated(blocks, call.from, <<call.to>>)
  /\ Proceed(<<>>)
  /\ UNCHANGED <<currentFunction, insertBlock, mapLabel, points, unit,
                 statements, operators, history>>

(* connect returns the block the arm of a ternary ended in; the phi node    *)
(* made in the end block lists it.                                          *)
ConnectArm ==
  /\ Calls("connectPhi")
  /\ blocks' = [Terminated(blocks, insertBlock, <<call.to>>)
                  EXCEPT ![call.to].incoming = Append(@, insertBlock)]
  /\ Proceed(<<>>)
  /\ UNCHANGED <<currentFunction, insertBlock, mapLabel, points, unit,
                 statements, operators, history>>

Statement ==
  \/ CompoundStatement \/ NestedCompoundStatement
  \/ ExpressionStatement
  \/ ReturnStatement \/ MakeReturn
  \/ BreakStatement \/ ContinueStatement
  \/ WhileStatement \/ EndWhileStatement
  \/ DoStatement \/ EndDoStatement
  \/ \E hasElse \in BOOLEAN : SelectionStatement(hasElse)
  \/ \E l \in extent.labels : LabeledStatement(l) \/ GotoStatement(l)

Expression ==
  \/ ConditionLeaf \/ MakeConditionalBranch
  \/ ConditionAnd \/ ConditionOr \/ ConditionNot \/ ConditionTernary
  \/ RvalueLeaf \/ RvalueBinary \/ RvalueTernary
  \/ SetCurrentBasicBlock \/ ConnectCurrent \/ ConnectBlocks \/ ConnectArm

Next ==
  \/ \E f \in FunctionNames :
       DeclareFunction(f) \/ DefineFunction(f) \/ InnerDeclaration(f)
  \/ FinishFunction
  \/ Statement
  \/ Expression

Spec == Init /\ [][Next]_vars

-----------------------------------------------------------------------------
(* Properties of the functions that are finished.                          *)
Finished == currentFunction = None

Successors(b) ==
  UNION {{t[k] : k \in DOMAIN t} : t \in {blocks[b].terminators[i] :
                                          i \in DOMAIN blocks[b].terminators}}
Predecessors(b) == {a \in Block : b \in Successors(a)}

(***************************************************************************)
(* No code is ever put behind a terminator, and once a function is         *)
(* finished each of its blocks has one: finishFunction looks at the last   *)
(* block only (ircreator.cc:132), every other block must have been closed  *)
(* by the statement or expression it belongs to.                           *)
(***************************************************************************)
EveryBlockEndsOnce ==
  \A b \in Block : /\ Len(blocks[b].terminators) <= 1
                   /\ Finished => Len(blocks[b].terminators) = 1

(***************************************************************************)
(* The phi node of a ternary lists exactly the predecessors of its block,  *)
(* each once, though the arms may have ended in other blocks than they     *)
(* started in (cogen.cc:729, :734).                                        *)
(***************************************************************************)
PhiMatchesPredecessors ==
  Finished =>
    \A b \in Block : blocks[b].incoming # <<>> =>
      /\ {blocks[b].incoming[k] : k \in DOMAIN blocks[b].incoming} = Predecessors(b)
      /\ Len(blocks[b].incoming) = Cardinality(Predecessors(b))

(***************************************************************************)
(* No cycle consists of conditional branches alone: every loop of the      *)
(* emitted graph passes an unconditional branch.  SCCP_Pass enqueues the   *)
(* successors of an undecided conditional branch on every visit            *)
(* (sccp_pass.cc:617); it reaches the end of its queue because of this.    *)
(***************************************************************************)
NoConditionalCycle ==
  LET conditional == {b \in Block : \E k \in DOMAIN blocks[b].terminators :
                                      Len(blocks[b].terminators[k]) = 2}
  IN  Finished => \A S \in (SUBSET conditional) \ {{}} :
                    \E b \in S : Successors(b) \cap S = {}

(***************************************************************************)
(* Every goto leads to the block where the statement of its label was      *)
(* emitted, whichever of the two came first (cogen.cc:209-240).            *)
(***************************************************************************)
GotoReachesLabel ==
  Finished => \A g \in gotos : g.to = placed[g.label]

(***************************************************************************)
(* While a function is emitted the label map holds blocks of that function *)
(* only: it is cleared for each function (ircreator.cc:88).                *)
(***************************************************************************)
LabelsAreLocal ==
  ~Finished => \A l \in Labels : mapLabel[l] # Null =>
                 blocks[mapLabel[l]].of = currentFunction

(***************************************************************************)
(* A break leaves the innermost loop around it, and a continue goes on     *)
(* with it where its condition is evaluated: both are accepted in the body *)
(* of any loop (parser.cc:1030), also behind a loop inside that body.      *)
(***************************************************************************)
JumpsFollowTheLoop ==
  Finished => \A j \in jumps :
    j.to = IF j.kind = "break" THEN loopBlocks[j.loop].end ELSE loopBlocks[j.loop].test
=============================================================================
