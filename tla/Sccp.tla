-------------------------------- MODULE Sccp --------------------------------
(***************************************************************************)
(* The analysis half of SCCP_Pass::runOnFunction: the Transition object    *)
(* with its block table, constant table and work queue, driven until the   *)
(* queue holds no reachable block.  One action per visit function; each    *)
(* visits the instruction at the head of todo.                             *)
(*                                                                         *)
(* Every behaviour fixes one function fn of Functions in its first state.  *)
(***************************************************************************)
EXTENDS LlvmIr, ConstantLattice, Functions

CONSTANTS
  Functions,    \* the IR functions the pass may be run on
  IntModulus,   \* number of values of a C int (2^32 on the target)
  CharModulus,  \* number of values of a char (2^8)
  GarbageInts,  \* what an uninitialized int on the stack may hold
  GarbageStates \* what an uninitialized LatticeState may hold

ASSUME SccpAssumption ==
  /\ \A f \in Functions : IsFunction(f)
  /\ IntModulus \in Nat \ {0}
  /\ CharModulus \in Nat \ {0}
  /\ GarbageInts \subseteq Int
  /\ GarbageStates \subseteq {"bottom", "value", "top"}

VARIABLES
  fn,             \* the function being optimised; never changes
  blockTable,     \* BlockTable: block -> "top" (reachable) or "bottom"
  constantTable,  \* ConstantTable: instruction -> lattice element or Absent
  workQueue,      \* deque of blocks still to visit
  todo,           \* instructions of the current block not yet visited
  phase,          \* where runOnFunction stands
  visited         \* history: the blocks getNextBlock has returned so far

vars == <<fn, blockTable, constantTable, workQueue, todo, phase, visited>>

-----------------------------------------------------------------------------
Int32(v) == Signed(v, IntModulus)

Reachable(b) == blockTable[b] = "top"

(* Mutant of LatticeElem: of a table entry only the value is read. *)
LatticeElem_ValueOnly(o) ==
  CASE o.kind = "int" -> Val(Int32(o.value % o.size))
    [] o.kind = "inst" -> IF constantTable[o.id].state = "top"
                            THEN Top ELSE Val(constantTable[o.id].value)
    [] OTHER -> Top

(* getConstantLatticeElem: an integer constant is read without its sign. *)
LatticeElem(o) ==
  CASE o.kind = "int" -> Val(Int32(o.value % o.size))
    [] o.kind = "inst" -> IF constantTable[o.id] = Absent
                            THEN Bottom ELSE constantTable[o.id]
    [] OTHER -> Top

(* ... and looking up instructions enters bottom for those not yet there. *)
LookUp(S) == [i \in Insts(fn) |->
                IF i \in S /\ constantTable[i] = Absent
                  THEN Bottom ELSE constantTable[i]]

-----------------------------------------------------------------------------
inst    == Head(todo)
instr   == fn.inst[Head(todo)]
arg(k)  == instr.args[k]
old     == LatticeElem(Ref(inst))
Visiting(ops) == phase = "analyse" /\ todo # <<>> /\ instr.op \in ops

(* The instructions among the operand slots K. *)
Operands(K) == {j \in Insts(fn) : \E k \in K : arg(k) = Ref(j)}

(* The uses of the visited instruction that lie in reachable blocks. *)
LiveUses == {u \in Uses(fn, inst) : Reachable(fn.parent[u[1]])}

(* Mutant of CFGSuccessors: the users themselves instead of their blocks. *)
CFGSuccessors_Users ==
  LET n == Cardinality(LiveUses)
  IN  {[k \in 1 .. n |-> order[k][1]] : order \in Bijection(1 .. n, LiveUses)}

(* The blocks enqueueCFGSuccessors(inst) pushes: the block of every use in  *)
(* a reachable block, in the order of the use list, which may be any order. *)
CFGSuccessors ==
  LET n == Cardinality(LiveUses)
  IN  {[k \in 1 .. n |-> fn.parent[order[k][1]]] :
         order \in Bijection(1 .. n, LiveUses)}

(* The visit leaves no trace but the entries it looked up. *)
Keep(table) ==
  /\ constantTable' = table
  /\ todo' = Tail(todo)
  /\ UNCHANGED <<fn, blockTable, workQueue, phase, visited>>

(* constantTable.checkedInsert(inst, new), whose assertion throws, followed *)
(* by pushing the blocks q and marking those of B reachable.                *)
Insert(table, new, q, B) ==
  IF Rank(table[inst]) <= Rank(new)
    THEN /\ constantTable' = [table EXCEPT ![inst] = new]
         /\ workQueue' = workQueue \o q
         /\ blockTable' = [b \in Blocks(fn) |->
                             IF b \in B THEN "top" ELSE blockTable[b]]
         /\ todo' = Tail(todo)
         /\ UNCHANGED <<fn, phase, visited>>
    ELSE /\ phase' = "descended"
         /\ UNCHANGED <<fn, blockTable, constantTable, workQueue, todo, visited>>

(* Insert new and enqueue the users. *)
Raise(table, new) == \E q \in CFGSuccessors : Insert(table, new, q, {})

-----------------------------------------------------------------------------
(* Mutant of Init: only the entry block is queued. *)
Init_EntryOnly ==
  /\ fn \in Functions
  /\ blockTable = [b \in Blocks(fn) |->
                     IF b = Entry(fn) THEN "top" ELSE "bottom"]
  /\ constantTable = [i \in Insts(fn) |-> Absent]
  /\ workQueue = <<Entry(fn)>>
  /\ todo = <<>>
  /\ phase = "analyse"
  /\ visited = {}

(***************************************************************************)
(* runOnFunction and the Transition constructor: only the entry block is   *)
(* reachable, and every block is queued in layout order.                   *)
(***************************************************************************)
Init ==
  /\ fn \in Functions
  /\ blockTable = [b \in Blocks(fn) |->
                     IF b = Entry(fn) THEN "top" ELSE "bottom"]
  /\ constantTable = [i \in Insts(fn) |-> Absent]
  /\ workQueue = fn.layout
  /\ todo = <<>>
  /\ phase = "analyse"
  /\ visited = {}

(* Mutant of GetNextBlock: the first block, reachable or not. *)
GetNextBlock_Unfiltered ==
  /\ phase = "analyse" /\ todo = <<>> /\ workQueue # <<>>
  /\ todo' = fn.body[Head(workQueue)]
  /\ workQueue' = Tail(workQueue)
  /\ visited' = visited \union {Head(workQueue)}
  /\ UNCHANGED <<fn, blockTable, constantTable, phase>>

(* getNextBlock: drop unreachable blocks up to the first reachable one. *)
GetNextBlock ==
  /\ phase = "analyse" /\ todo = <<>>
  /\ \E k \in DOMAIN workQueue :
       /\ Reachable(workQueue[k])
       /\ \A j \in 1 .. (k - 1) : ~Reachable(workQueue[j])
       /\ todo' = fn.body[workQueue[k]]
       /\ workQueue' = SubSeq(workQueue, k + 1, Len(workQueue))
       /\ visited' = visited \union {workQueue[k]}
  /\ UNCHANGED <<fn, blockTable, constantTable, phase>>

(* getNextBlock returns nullptr: the analysis is over. *)
QueueExhausted ==
  /\ phase = "analyse" /\ todo = <<>>
  /\ \A k \in DOMAIN workQueue : ~Reachable(workQueue[k])
  /\ workQueue' = <<>>
  /\ phase' = "analysed"
  /\ UNCHANGED <<fn, blockTable, constantTable, todo, visited>>

(* Nothing is known about the result of a memory operation or a call.  A    *)
(* store is recorded like the others.                                       *)
MapToTop == IF old = Top THEN Keep(constantTable)
                         ELSE Raise(LookUp({inst}), Top)

VisitAlloca        == Visiting({"alloca"})   /\ MapToTop
VisitCall          == Visiting({"call"})     /\ MapToTop
VisitGetElementPtr == Visiting({"gep"})      /\ MapToTop
VisitLoad          == Visiting({"load"})     /\ MapToTop
VisitStore         == Visiting({"store"})    /\ MapToTop
VisitPtrToInt      == Visiting({"ptrtoint"}) /\ MapToTop
VisitIntToPtr      == Visiting({"inttoptr"}) /\ MapToTop

VisitMemory == \/ VisitAlloca \/ VisitCall \/ VisitGetElementPtr \/ VisitLoad
               \/ VisitStore \/ VisitPtrToInt \/ VisitIntToPtr

-----------------------------------------------------------------------------
(* The switch over the operator.  Nothing is assigned for an operator the   *)
(* switch does not name (xor, sdiv).                                        *)
Arithmetic(fun, a, b) ==
  CASE fun \in Operators -> {Calculate(fun, a, b, IntModulus)}
    [] fun = "or"  -> {ToInt(a # 0 \/ b # 0)}
    [] fun = "and" -> {ToInt(a # 0 /\ b # 0)}
    [] OTHER -> GarbageInts

(* newInfo when at least one operand is top: an operand that decides "or"   *)
(* or "and" alone is looked for; without one newInfo stays uninitialized.   *)
ShortCircuit(fun, l, r) ==
  LET known == {e.value : e \in {l, r} \ {Top}}
  IN  CASE fun = "or"  /\ \E v \in known : v # 0 -> {Val(1)}
        [] fun = "and" /\ 0 \in known -> {Val(0)}
        [] fun \in {"or", "and"} ->
             {IF s = "top" THEN Top ELSE Elem(s, v) :
                s \in GarbageStates, v \in GarbageInts}
        [] OTHER -> {Top}

VisitBinaryOperator ==
  LET l     == LatticeElem(arg(1))
      r     == LatticeElem(arg(2))
      table == LookUp(Operands({1, 2}) \union {inst})
  IN
  /\ Visiting({"binop"})
  /\ CASE "top" \in {l.state, r.state} ->
            \E new \in ShortCircuit(instr.fun, l, r) :
              IF new.state # old.state \/ (new.state = "value" /\ new # old)
                THEN Raise(table, new)
                ELSE Keep(table)
       [] "bottom" \in {l.state, r.state} /\ "top" \notin {l.state, r.state} ->
            IF old.state = "bottom" THEN Keep(table) ELSE Raise(table, Bottom)
       [] OTHER ->
            \E v \in Arithmetic(instr.fun, l.value, r.value) :
              IF v # old.value THEN Raise(table, Val(v)) ELSE Keep(table)

(* visitCastInst (bitcast): the operand's element, and no one is told. *)
VisitCast ==
  /\ Visiting({"cast"})
  /\ Insert(LookUp(Operands({1})), LatticeElem(arg(1)), <<>>, {})

(* visitICmpInst: predicates other than these three leave the entry be. *)
VisitICmp ==
  LET l     == LatticeElem(arg(1))
      r     == LatticeElem(arg(2))
      table == LookUp(Operands({1, 2}) \union {inst})
      new   == IF "top" \in {l.state, r.state} THEN Top ELSE Bottom
  IN
  /\ Visiting({"icmp"})
  /\ CASE {l.state, r.state} # {"value"} ->
            IF old.state = new.state THEN Keep(table) ELSE Raise(table, new)
       [] {l.state, r.state} = {"value"} ->
            IF instr.fun \in Predicates
              THEN Insert(table, Val(ToInt(Holds(instr.fun, l.value, r.value))),
                          <<>>, {})
              ELSE Keep(table)

(* visitZExtInst, visitSExtInst and visitTruncInst.  An extension copies    *)
(* the operand's element; a truncation looks at its source type only.       *)
Converted(r, e) ==
  CASE r.op = "trunc" /\ r.fun = "i8" -> [e EXCEPT !.value = @ % CharModulus]
    [] r.op = "trunc" /\ r.fun = "i1" -> [e EXCEPT !.value = ToInt(@ # 0)]
    [] OTHER -> e

VisitExtOrTrunc ==
  LET new   == Converted(instr, LatticeElem(arg(1)))
      table == LookUp(Operands({1}) \union {inst})
  IN
  /\ Visiting({"zext", "sext", "trunc"})
  /\ IF old.state # new.state THEN Raise(table, new) ELSE Keep(table)

-----------------------------------------------------------------------------
(* An incoming value of a phi.  Here a constant keeps its sign. *)
Incoming(o) ==
  IF o.kind = "int"
    THEN Val(IF o.size <= IntModulus THEN o.value ELSE Int32(1337))
    ELSE LatticeElem(o)

(* visitPHINode: join over the edges from reachable blocks.  The scan stops *)
(* at the first argument among them, with top.                              *)
VisitPHI ==
  LET live  == {k \in DOMAIN instr.args : Reachable(instr.from[k])}
      seen  == {k \in live : \A a \in live : arg(a) = Arg => k < a}
      new   == Join({Incoming(arg(k)) : k \in live})
      table == LookUp(Operands(seen) \union {inst})
  IN
  /\ Visiting({"phi"})
  /\ CASE new = Bottom ->    \* ASSERT_THAT(!values.empty()) fails
            /\ phase' = "phi_without_value"
            /\ UNCHANGED <<fn, blockTable, constantTable, workQueue, todo, visited>>
       [] new # Bottom /\ new.state = old.state /\ new.value = old.value ->
            Keep(table)
       [] OTHER -> Raise(table, new)

(* Mutant of VisitBr: the successor is queued at every visit. *)
VisitBr_Enqueues ==
  LET succ == instr.succs[1] IN
  /\ Visiting({"br"})
  /\ workQueue' = Append(workQueue, succ)
  /\ blockTable' = [blockTable EXCEPT ![succ] = "top"]
  /\ todo' = Tail(todo)
  /\ UNCHANGED <<fn, constantTable, phase, visited>>

(* visitBranchInst on an unconditional branch.  enqueueCFGSuccessors looks  *)
(* for users of the branch, and a branch has none.                          *)
VisitBr ==
  LET succ == instr.succs[1] IN
  /\ Visiting({"br"})
  /\ \E q \in CFGSuccessors : workQueue' = workQueue \o q
  /\ blockTable' = [blockTable EXCEPT ![succ] = "top"]
  /\ todo' = Tail(todo)
  /\ UNCHANGED <<fn, constantTable, phase, visited>>

(* Mutant of Taken: the successors are confused. *)
Taken_Swapped(cond) == instr.succs[IF cond.value = 0 THEN 1 ELSE 2]

(* The successor a known condition selects. *)
Taken(cond) == instr.succs[IF cond.value = 0 THEN 2 ELSE 1]

(* visitBranchInst on a conditional branch: a known condition selects one   *)
(* successor, and the branch is recorded only if that is news; otherwise    *)
(* both become reachable and both are queued, whether or not they were.     *)
VisitCondBr ==
  LET cond  == LatticeElem(arg(1))
      table == LookUp(Operands({1}))
      both  == <<instr.succs[1], instr.succs[2]>>
  IN
  /\ Visiting({"condbr"})
  /\ CASE cond.state # "value" ->
            /\ constantTable' = table
            /\ blockTable' = [b \in Blocks(fn) |->
                                IF b \in {both[1], both[2]}
                                  THEN "top" ELSE blockTable[b]]
            /\ workQueue' = workQueue \o both
            /\ todo' = Tail(todo)
            /\ UNCHANGED <<fn, phase, visited>>
       [] cond.state = "value" /\ Reachable(Taken(cond)) -> Keep(table)
       [] OTHER -> Insert(table, cond, <<Taken(cond)>>, {Taken(cond)})

VisitReturn ==
  /\ Visiting({"ret"})
  /\ Insert(constantTable, Top, <<>>, {})

(* The pass goes on to tear down the function, or the compiler has died. *)
Finished == phase # "analyse" /\ UNCHANGED vars

-----------------------------------------------------------------------------
Visit == \/ VisitMemory \/ VisitBinaryOperator \/ VisitCast \/ VisitICmp
         \/ VisitExtOrTrunc \/ VisitPHI \/ VisitBr \/ VisitCondBr
         \/ VisitReturn

Next == GetNextBlock \/ QueueExhausted \/ Visit \/ Finished

Spec == Init /\ [][Next]_vars

(* The pass is one thread that never waits: it takes a step when it can. *)
Fairness == WF_vars(GetNextBlock \/ QueueExhausted \/ Visit)
FairSpec == Spec /\ Fairness

-----------------------------------------------------------------------------
(***************************************************************************)
(* Properties.                                                             *)
(***************************************************************************)

(* Type invariant: the queue holds blocks of the function, todo the tail of *)
(* a block, and the tables cover the function.                              *)
TypeOK ==
  /\ IsFunction(fn)
  /\ blockTable \in [Blocks(fn) -> {"bottom", "top"}]
  /\ constantTable \in [Insts(fn) -> Elements]
  /\ workQueue \in Seq(Blocks(fn))
  /\ todo \in Seq(Insts(fn))
  /\ phase \in {"analyse", "analysed", "descended", "phi_without_value"}
  /\ visited \subseteq Blocks(fn)

(* The assertion of ConstantTable::checkedInsert never fires, whatever the  *)
(* order of visits: no handler computes less than is already recorded.      *)
NeverDescends == phase # "descended"

(* The assertion in visitPHINode never fires: some reachable predecessor    *)
(* has delivered a value before a phi is visited.                           *)
PhiHasValue == phase # "phi_without_value"

(* A reachable block has been handed out by getNextBlock or still will be:  *)
(* becoming reachable after its first turn in the queue does not lose it.   *)
NoLostBlock ==
  \A b \in Blocks(fn) :
    Reachable(b) => b \in visited \/ \E k \in DOMAIN workQueue : workQueue[k] = b

(* Reachability is not invented: a reachable block lies on a path of the    *)
(* control flow graph from the entry (it is in every set of blocks that     *)
(* contains the entry and is closed under successors).                      *)
ReachableOnPath ==
  \A S \in SUBSET Blocks(fn) :
    /\ Entry(fn) \in S
    /\ \A b \in S : Succs(fn, b) \subseteq S
    => \A b \in Blocks(fn) : Reachable(b) => b \in S

(* An element only ascends in the flat order: in particular a recorded      *)
(* value never turns into a different value (the check commented out in     *)
(* ConstantTable::checkedInsert).                                           *)
LatticeAscends ==
  [][\A i \in Insts(fn) : Leq(constantTable[i], constantTable'[i])]_vars

(* The worklist is an implementation of sparse conditional constant         *)
(* propagation: every visit takes a justified step, and the queue runs      *)
(* empty only when the tables cover everything the function can do.         *)
Abstract == INSTANCE ConstantAnalysis WITH
  reach <- {b \in Blocks(fn) : Reachable(b)},
  known <- [i \in Insts(fn) |-> LatticeElem(Ref(i))],
  done  <- phase = "analysed"

ImplementsAnalysis == Abstract!Spec

(* The queue runs empty although a conditional branch on an unknown value   *)
(* queues both successors at every visit.                                   *)
Terminates == <>(phase # "analyse")
=============================================================================
