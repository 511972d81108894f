----------------------------- MODULE SccpProofs -----------------------------
(***************************************************************************)
(* What holds of the analysis for every function and every width of the    *)
(* integers: the types, and that no block is called reachable that no path *)
(* from the entry leads to; and, for every function without an operator    *)
(* whose visit reads an uninitialized value, that the assertion of         *)
(* ConstantTable::checkedInsert never fires and that elements only ascend. *)
(* (With the function AndInLoop of MCFunctions, which has one,             *)
(* NeverDescends fails.)                                                   *)
(***************************************************************************)
EXTENDS Sccp, LatticeProofs, FiniteSetTheorems, TLAPS

(* Wrapping to two's complement yields an integer. *)
LEMMA SignedIsInt ==
  ASSUME NEW v \in Int, NEW m \in Nat \ {0}
  PROVE  Signed(v, m) \in Int
BY DEF Signed

(* Arithmetic yields an integer. *)
LEMMA CalculateIsInt ==
  ASSUME NEW fun \in Operators, NEW a \in Int, NEW b \in Int,
         NEW m \in Nat \ {0}
  PROVE  Calculate(fun, a, b, m) \in Int
<1>1. a + b \in Int /\ a - b \in Int /\ a * b \in Int
  OBVIOUS
<1>2. CASE fun = "add"
  BY <1>1, <1>2, SignedIsInt DEF Calculate
<1>3. CASE fun = "sub"
  BY <1>1, <1>3, SignedIsInt DEF Calculate
<1>4. CASE fun = "mul"
  BY <1>1, <1>4, SignedIsInt DEF Calculate
<1> QED
  BY <1>2, <1>3, <1>4 DEF Operators

(* The constructors yield lattice elements. *)
LEMMA ElementTypes ==
  /\ Bottom \in Elements /\ Top \in Elements /\ Absent \in Elements
  /\ \A v \in Int : Val(v) \in Elements
BY DEF Bottom, Top, Absent, Val, Elem, Elements

(* What is known of an operand is a lattice element. *)
LEMMA LatticeElemType ==
  ASSUME TypeOK, NEW o, IsOperand(fn, o)
  PROVE  LatticeElem(o) \in Elements
<1>1. CASE o.kind = "int"
  <2>1. o.value \in Int /\ o.size \in Nat \ {0}
    BY <1>1 DEF IsOperand, Arg, OtherConstant
  <2>2. Int32(o.value % o.size) \in Int
    BY <2>1, SignedIsInt, SccpAssumption DEF Int32
  <2> QED
    BY <1>1, <2>2, ElementTypes DEF LatticeElem
<1>2. CASE o.kind = "inst"
  BY <1>2, ElementTypes
  DEF LatticeElem, TypeOK, IsOperand, Arg, OtherConstant, Insts
<1>3. CASE o.kind # "int" /\ o.kind # "inst"
  BY <1>3, ElementTypes DEF LatticeElem
<1> QED
  BY <1>1, <1>2, <1>3

(* Looking up keeps the type of the table. *)
LEMMA LookUpType ==
  ASSUME TypeOK, NEW S
  PROVE  LookUp(S) \in [Insts(fn) -> Elements]
BY ElementTypes DEF LookUp, TypeOK

(* A visit is to an instruction of the function. *)
LEMMA VisitedInst ==
  ASSUME TypeOK, NEW ops, Visiting(ops)
  PROVE  /\ inst \in Insts(fn) /\ instr = fn.inst[inst] /\ instr.op \in ops
         /\ IsInst(fn, inst)
         /\ Tail(todo) \in Seq(Insts(fn))
         /\ \A k \in DOMAIN instr.args : IsOperand(fn, arg(k))
<1>1. inst \in Insts(fn) /\ Tail(todo) \in Seq(Insts(fn))
  BY DEF Visiting, TypeOK, inst
<1>2. IsInst(fn, inst)
  BY <1>1 DEF TypeOK, IsFunction
<1> QED
  BY <1>1, <1>2 DEF Visiting, instr, inst, arg, IsInst

(* The recorded element of the visited instruction is an element. *)
LEMMA OldType ==
  ASSUME TypeOK, inst \in Insts(fn)
  PROVE  old \in Elements
<1>1. IsOperand(fn, Ref(inst))
  BY DEF IsOperand, Ref, Insts
<1> QED
  BY <1>1, LatticeElemType DEF old

(* The blocks that are queued for the users of an instruction are blocks. *)
LEMMA SuccessorsType ==
  ASSUME TypeOK, inst \in Insts(fn), NEW q \in CFGSuccessors
  PROVE  q \in Seq(Blocks(fn))
<1> DEFINE n == Cardinality(LiveUses)
<1>1. IsFiniteSet(LiveUses)
  <2>1. IsFiniteSet(Uses(fn, inst))
    BY DEF TypeOK, IsFunction, IsInst
  <2> QED
    BY <2>1, FS_Subset DEF LiveUses
<1>2. n \in Nat
  BY <1>1, FS_CardinalityType
<1>3. PICK order \in Bijection(1 .. n, LiveUses) :
        q = [k \in 1 .. n |-> fn.parent[order[k][1]]]
  BY DEF CFGSuccessors
<1>4. \A k \in 1 .. n : order[k] \in LiveUses
  BY <1>3 DEF Bijection, Injection
<1>5. \A u \in LiveUses : u[1] \in Insts(fn)
  BY DEF LiveUses, Uses
<1>6. \A k \in 1 .. n : fn.parent[order[k][1]] \in Blocks(fn)
  BY <1>4, <1>5 DEF TypeOK, IsFunction
<1> QED
  BY <1>2, <1>3, <1>6

(* The ways in which a visit ends keep the types. *)
LEMMA KeepType ==
  ASSUME TypeOK, NEW ops, Visiting(ops),
         NEW table \in [Insts(fn) -> Elements], Keep(table)
  PROVE  TypeOK'
BY VisitedInst DEF Keep, TypeOK

(* checkedInsert keeps the types. *)
LEMMA InsertType ==
  ASSUME TypeOK, NEW ops, Visiting(ops),
         NEW table \in [Insts(fn) -> Elements], NEW new \in Elements,
         NEW q \in Seq(Blocks(fn)), NEW B, Insert(table, new, q, B)
  PROVE  TypeOK'
<1>1. CASE Rank(table[inst]) <= Rank(new)
  <2>1. [table EXCEPT ![inst] = new] \in [Insts(fn) -> Elements]
    OBVIOUS
  <2>2. workQueue \o q \in Seq(Blocks(fn))
    BY DEF TypeOK
  <2> QED
    BY <1>1, <2>1, <2>2, VisitedInst DEF Insert, TypeOK
<1>2. CASE ~(Rank(table[inst]) <= Rank(new))
  BY <1>2 DEF Insert, TypeOK
<1> QED
  BY <1>1, <1>2

(* Inserting and enqueueing the users keeps the types. *)
LEMMA RaiseType ==
  ASSUME TypeOK, NEW ops, Visiting(ops),
         NEW table \in [Insts(fn) -> Elements], NEW new \in Elements,
         Raise(table, new)
  PROVE  TypeOK'
<1>1. PICK q \in CFGSuccessors : Insert(table, new, q, {})
  BY DEF Raise
<1>2. q \in Seq(Blocks(fn))
  BY VisitedInst, SuccessorsType
<1> QED
  BY <1>1, <1>2, InsertType

-----------------------------------------------------------------------------
(* What the handlers compute are lattice elements. *)
LEMMA ArithmeticType ==
  ASSUME NEW fun, NEW a \in Int, NEW b \in Int
  PROVE  Arithmetic(fun, a, b) \subseteq Int
<1>1. ToInt(a # 0 \/ b # 0) \in Int /\ ToInt(a # 0 /\ b # 0) \in Int
  BY DEF ToInt
<1>2. fun \in Operators => Calculate(fun, a, b, IntModulus) \in Int
  BY CalculateIsInt, SccpAssumption
<1>3. GarbageInts \subseteq Int
  BY SccpAssumption
<1> QED
  BY <1>1, <1>2, <1>3 DEF Arithmetic, Operators

(* What decides an operator with one unknown operand is an element. *)
LEMMA ShortCircuitType ==
  ASSUME NEW fun, NEW l, NEW r
  PROVE  ShortCircuit(fun, l, r) \subseteq Elements
<1>1. \A s \in GarbageStates, v \in GarbageInts :
        (IF s = "top" THEN Top ELSE Elem(s, v)) \in Elements
  BY SccpAssumption, ElementTypes DEF Elem, Elements
<1>2. Val(0) \in Elements /\ Val(1) \in Elements /\ Top \in Elements
  BY ElementTypes
<1> QED
  BY <1>1, <1>2 DEF ShortCircuit

(* A converted element is an element. *)
LEMMA ConvertedType ==
  ASSUME NEW r, NEW e \in Elements
  PROVE  Converted(r, e) \in Elements
<1>1. e.value % CharModulus \in Int
  BY SccpAssumption DEF Elements
<1>2. ToInt(e.value # 0) \in Int
  BY DEF ToInt
<1> QED
  BY <1>1, <1>2 DEF Converted, Elements

(* An incoming value of a phi is an element. *)
LEMMA IncomingType ==
  ASSUME TypeOK, NEW o, IsOperand(fn, o)
  PROVE  Incoming(o) \in Elements
<1>1. CASE o.kind = "int"
  <2>1. o.value \in Int
    BY <1>1 DEF IsOperand, Arg, OtherConstant
  <2>2. Int32(1337) \in Int
    BY SignedIsInt, SccpAssumption DEF Int32
  <2> QED
    BY <1>1, <2>1, <2>2, ElementTypes DEF Incoming
<1>2. CASE o.kind # "int"
  BY <1>2, LatticeElemType DEF Incoming
<1> QED
  BY <1>1, <1>2

(* The join of elements is an element. *)
LEMMA JoinType ==
  ASSUME NEW S \in SUBSET Elements
  PROVE  Join(S) \in Elements
<1> DEFINE values == {e \in S : e.state = "value"}
           tops   == {e \in S : e.state = "top"}
<1>1. CASE tops = {} /\ values = {}
  BY <1>1, ElementTypes DEF Join
<1>2. CASE ~(tops = {} /\ values = {}) /\ tops = {} /\ \E x \in S : values = {x}
  <2>1. Join(S) = CHOOSE x \in S : values = {x}
    BY <1>2 DEF Join
  <2> QED
    BY <1>2, <2>1
<1>3. CASE ~(tops = {} /\ values = {}) /\ ~(tops = {} /\ \E x \in S : values = {x})
  BY <1>3, ElementTypes DEF Join
<1> QED
  BY <1>1, <1>2, <1>3

-----------------------------------------------------------------------------
(* The visit functions one by one. *)
LEMMA VisitMemoryType == TypeOK /\ VisitMemory => TypeOK'
<1> SUFFICES ASSUME TypeOK, VisitMemory PROVE TypeOK'
  OBVIOUS
<1>1. LookUp({inst}) \in [Insts(fn) -> Elements] /\ Top \in Elements
  BY LookUpType, ElementTypes
<1>2. constantTable \in [Insts(fn) -> Elements]
  BY DEF TypeOK
<1>3. (\E ops : Visiting(ops)) /\ MapToTop
  BY DEF VisitMemory, VisitAlloca, VisitCall, VisitGetElementPtr, VisitLoad,
         VisitStore, VisitPtrToInt, VisitIntToPtr
<1> QED
  BY <1>1, <1>2, <1>3, KeepType, RaiseType DEF MapToTop

(* visitBinaryOperator keeps the types. *)
LEMMA VisitBinaryOperatorType == TypeOK /\ VisitBinaryOperator => TypeOK'
<1> SUFFICES ASSUME TypeOK, VisitBinaryOperator PROVE TypeOK'
  OBVIOUS
<1> DEFINE l     == LatticeElem(arg(1))
           r     == LatticeElem(arg(2))
           table == LookUp(Operands({1, 2}) \union {inst})
<1>1. Visiting({"binop"})
  BY DEF VisitBinaryOperator
<1>2. table \in [Insts(fn) -> Elements]
  BY LookUpType
<1>3. l \in Elements /\ r \in Elements
  <2>1. DOMAIN instr.args = 1 .. 2
    BY <1>1, VisitedInst DEF IsInst, Arity
  <2> QED
    BY <1>1, <2>1, VisitedInst, LatticeElemType
<1> HIDE DEF table
<1>4. ASSUME NEW new \in ShortCircuit(instr.fun, l, r),
             Raise(table, new) \/ Keep(table)
      PROVE  TypeOK'
  BY <1>1, <1>2, <1>4, ShortCircuitType, KeepType, RaiseType
<1>5. ASSUME Keep(table) \/ Raise(table, Bottom) PROVE TypeOK'
  BY <1>1, <1>2, <1>5, ElementTypes, KeepType, RaiseType
<1>6. ASSUME NEW v \in Arithmetic(instr.fun, l.value, r.value),
             Raise(table, Val(v)) \/ Keep(table)
      PROVE  TypeOK'
  <2>1. Val(v) \in Elements
    BY <1>3, <1>6, ArithmeticType, ElementTypes DEF Elements
  <2> QED
    BY <1>1, <1>2, <1>6, <2>1, KeepType, RaiseType
<1>7. CASE "top" \in {l.state, r.state}
  <2>1. \E new \in ShortCircuit(instr.fun, l, r) :
          Raise(table, new) \/ Keep(table)
    BY <1>7 DEF VisitBinaryOperator, table
  <2> QED
    BY <1>4, <2>1
<1>8. CASE "bottom" \in {l.state, r.state} /\ "top" \notin {l.state, r.state}
  BY <1>5, <1>8 DEF VisitBinaryOperator, table
<1>9. CASE ~("bottom" \in {l.state, r.state}) /\ ~("top" \in {l.state, r.state})
  <2>1. \E v \in Arithmetic(instr.fun, l.value, r.value) :
          Raise(table, Val(v)) \/ Keep(table)
    BY <1>9 DEF VisitBinaryOperator, table
  <2> QED
    BY <1>6, <2>1
<1> QED
  BY <1>7, <1>8, <1>9

(* visitCastInst keeps the types. *)
LEMMA VisitCastType == TypeOK /\ VisitCast => TypeOK'
<1> SUFFICES ASSUME TypeOK, VisitCast PROVE TypeOK'
  OBVIOUS
<1>1. Visiting({"cast"})
  BY DEF VisitCast
<1>2. LatticeElem(arg(1)) \in Elements
  BY <1>1, VisitedInst, LatticeElemType DEF IsInst, Arity
<1>3. LookUp(Operands({1})) \in [Insts(fn) -> Elements]
  BY LookUpType
<1>4. <<>> \in Seq(Blocks(fn))
  OBVIOUS
<1> QED
  BY <1>1, <1>2, <1>3, <1>4, InsertType DEF VisitCast

(* visitICmpInst keeps the types. *)
LEMMA VisitICmpType == TypeOK /\ VisitICmp => TypeOK'
<1> SUFFICES ASSUME TypeOK, VisitICmp PROVE TypeOK'
  OBVIOUS
<1> DEFINE l     == LatticeElem(arg(1))
           r     == LatticeElem(arg(2))
           table == LookUp(Operands({1, 2}) \union {inst})
           new   == IF "top" \in {l.state, r.state} THEN Top ELSE Bottom
           holds == Val(ToInt(Holds(instr.fun, l.value, r.value)))
<1>1. Visiting({"icmp"})
  BY DEF VisitICmp
<1>2. table \in [Insts(fn) -> Elements]
  BY LookUpType
<1>3. new \in Elements /\ holds \in Elements /\ <<>> \in Seq(Blocks(fn))
  <2>1. ToInt(Holds(instr.fun, l.value, r.value)) \in Int
    BY DEF ToInt
  <2> QED
    BY <2>1, ElementTypes
<1>4. Keep(table) \/ Raise(table, new) \/ Insert(table, holds, <<>>, {})
  BY DEF VisitICmp
<1> HIDE DEF table, new, holds
<1> QED
  BY <1>1, <1>2, <1>3, <1>4, KeepType, RaiseType, InsertType

(* visitZExtInst, visitSExtInst and visitTruncInst keep the types. *)
LEMMA VisitExtOrTruncType == TypeOK /\ VisitExtOrTrunc => TypeOK'
<1> SUFFICES ASSUME TypeOK, VisitExtOrTrunc PROVE TypeOK'
  OBVIOUS
<1> DEFINE new   == Converted(instr, LatticeElem(arg(1)))
           table == LookUp(Operands({1}) \union {inst})
<1>1. Visiting({"zext", "sext", "trunc"})
  BY DEF VisitExtOrTrunc
<1>2. LatticeElem(arg(1)) \in Elements
  BY <1>1, VisitedInst, LatticeElemType DEF IsInst, Arity
<1>3. new \in Elements /\ table \in [Insts(fn) -> Elements]
  BY <1>2, ConvertedType, LookUpType
<1> QED
  BY <1>1, <1>3, KeepType, RaiseType DEF VisitExtOrTrunc

(* visitPHINode keeps the types. *)
LEMMA VisitPHIType == TypeOK /\ VisitPHI => TypeOK'
<1> SUFFICES ASSUME TypeOK, VisitPHI PROVE TypeOK'
  OBVIOUS
<1> DEFINE live  == {k \in DOMAIN instr.args : Reachable(instr.from[k])}
           seen  == {k \in live : \A a \in live : arg(a) = Arg => k < a}
           new   == Join({Incoming(arg(k)) : k \in live})
           table == LookUp(Operands(seen) \union {inst})
<1>1. Visiting({"phi"})
  BY DEF VisitPHI
<1>2. new \in Elements
  <2>1. \A k \in live : Incoming(arg(k)) \in Elements
    BY <1>1, VisitedInst, IncomingType
  <2> QED
    BY <2>1, JoinType
<1>3. table \in [Insts(fn) -> Elements]
  BY LookUpType
<1>4. \/ Keep(table) \/ Raise(table, new)
      \/ /\ phase' = "phi_without_value"
         /\ UNCHANGED <<fn, blockTable, constantTable, workQueue, todo, visited>>
  BY DEF VisitPHI
<1>5. ASSUME phase' = "phi_without_value",
             UNCHANGED <<fn, blockTable, constantTable, workQueue, todo, visited>>
      PROVE  TypeOK'
  BY <1>5 DEF TypeOK
<1> HIDE DEF table, new
<1> QED
  BY <1>1, <1>2, <1>3, <1>4, <1>5, KeepType, RaiseType

(* An unconditional branch keeps the types. *)
LEMMA VisitBrType == TypeOK /\ VisitBr => TypeOK'
<1> SUFFICES ASSUME TypeOK, VisitBr PROVE TypeOK'
  OBVIOUS
<1>1. Visiting({"br"})
  BY DEF VisitBr
<1>2. PICK q \in CFGSuccessors : workQueue' = workQueue \o q
  BY DEF VisitBr
<1>3. q \in Seq(Blocks(fn))
  BY <1>1, VisitedInst, SuccessorsType
<1>4. workQueue' \in Seq(Blocks(fn))
  BY <1>2, <1>3 DEF TypeOK
<1>5. blockTable' \in [Blocks(fn) -> {"bottom", "top"}]
  BY DEF VisitBr, TypeOK
<1> QED
  BY <1>1, <1>4, <1>5, VisitedInst DEF VisitBr, TypeOK

(* A conditional branch keeps the types. *)
LEMMA VisitCondBrType == TypeOK /\ VisitCondBr => TypeOK'
<1> SUFFICES ASSUME TypeOK, VisitCondBr PROVE TypeOK'
  OBVIOUS
<1> DEFINE cond  == LatticeElem(arg(1))
           table == LookUp(Operands({1}))
           both  == <<instr.succs[1], instr.succs[2]>>
<1>1. Visiting({"condbr"})
  BY DEF VisitCondBr
<1>2. IsInst(fn, inst) /\ instr = fn.inst[inst] /\ instr.op = "condbr"
  BY <1>1, VisitedInst
<1>3. instr.succs[1] \in Blocks(fn) /\ instr.succs[2] \in Blocks(fn)
  BY <1>2 DEF IsInst, NumSuccs
<1>4. cond \in Elements
  BY <1>1, <1>2, VisitedInst, LatticeElemType DEF IsInst, Arity
<1>5. table \in [Insts(fn) -> Elements]
  BY LookUpType
<1>6. CASE cond.state # "value"
  <2>1. both \in Seq(Blocks(fn))
    BY <1>3
  <2>2. workQueue' \in Seq(Blocks(fn))
    <3>1. workQueue' = workQueue \o both
      BY <1>6 DEF VisitCondBr
    <3>2. workQueue \in Seq(Blocks(fn))
      BY DEF TypeOK
    <3> HIDE DEF both
    <3> QED
      BY <2>1, <3>1, <3>2
  <2>3. constantTable' \in [Insts(fn) -> Elements]
    BY <1>5, <1>6 DEF VisitCondBr
  <2>4. blockTable' \in [Blocks(fn) -> {"bottom", "top"}]
    BY <1>6 DEF VisitCondBr, TypeOK
  <2> QED
    BY <1>1, <1>6, <2>2, <2>3, <2>4, VisitedInst DEF VisitCondBr, TypeOK
<1>7. CASE cond.state = "value" /\ Reachable(Taken(cond))
  BY <1>1, <1>5, <1>7, KeepType DEF VisitCondBr
<1>8. CASE cond.state = "value" /\ ~Reachable(Taken(cond))
  <2>1. <<Taken(cond)>> \in Seq(Blocks(fn))
    BY <1>3 DEF Taken
  <2>2. Insert(table, cond, <<Taken(cond)>>, {Taken(cond)})
    BY <1>8 DEF VisitCondBr
  <2> QED
    BY <1>1, <1>4, <1>5, <2>1, <2>2, InsertType
<1> QED
  BY <1>6, <1>7, <1>8

(* visitReturnInst keeps the types. *)
LEMMA VisitReturnType == TypeOK /\ VisitReturn => TypeOK'
<1> SUFFICES ASSUME TypeOK, VisitReturn PROVE TypeOK'
  OBVIOUS
<1>1. /\ Visiting({"ret"}) /\ Top \in Elements
      /\ constantTable \in [Insts(fn) -> Elements] /\ <<>> \in Seq(Blocks(fn))
  BY ElementTypes DEF VisitReturn, TypeOK
<1> QED
  BY <1>1, InsertType DEF VisitReturn

(* getNextBlock keeps the types. *)
LEMMA GetNextBlockType == TypeOK /\ GetNextBlock => TypeOK'
<1> SUFFICES ASSUME TypeOK, GetNextBlock PROVE TypeOK'
  OBVIOUS
<1>1. PICK k \in DOMAIN workQueue :
        /\ todo' = fn.body[workQueue[k]]
        /\ workQueue' = SubSeq(workQueue, k + 1, Len(workQueue))
        /\ visited' = visited \union {workQueue[k]}
  BY DEF GetNextBlock
<1>2. workQueue[k] \in Blocks(fn) /\ workQueue' \in Seq(Blocks(fn))
  BY <1>1 DEF TypeOK
<1>3. todo' \in Seq(Insts(fn))
  BY <1>1, <1>2 DEF TypeOK, IsFunction
<1> QED
  BY <1>1, <1>2, <1>3 DEF GetNextBlock, TypeOK

(* The Transition constructor establishes the types. *)
LEMMA InitType == Init => TypeOK
<1> SUFFICES ASSUME Init PROVE TypeOK
  OBVIOUS
<1>1. IsFunction(fn)
  BY SccpAssumption DEF Init
<1>2. fn.layout \in Seq(Blocks(fn))
  BY <1>1 DEF IsFunction
<1>3. constantTable \in [Insts(fn) -> Elements]
  BY ElementTypes DEF Init
<1> QED
  BY <1>1, <1>2, <1>3 DEF Init, TypeOK

(* Every step keeps the types. *)
LEMMA NextType == TypeOK /\ [Next]_vars => TypeOK'
<1> SUFFICES ASSUME TypeOK, [Next]_vars PROVE TypeOK'
  OBVIOUS
<1>1. CASE QueueExhausted
  BY <1>1 DEF QueueExhausted, TypeOK
<1>2. CASE UNCHANGED vars
  BY <1>2 DEF vars, TypeOK
<1>3. CASE Visit
  BY <1>3, VisitMemoryType, VisitBinaryOperatorType, VisitCastType,
     VisitICmpType, VisitExtOrTruncType, VisitPHIType, VisitBrType,
     VisitCondBrType, VisitReturnType DEF Visit
<1> QED
  BY <1>1, <1>2, <1>3, GetNextBlockType DEF Next, Finished

(* The queue and todo hold blocks and instructions of the function and the  *)
(* tables cover it, whatever function is analysed and whatever the widths   *)
(* of its integers.                                                         *)
THEOREM TypeCorrect == Spec => []TypeOK
BY InitType, NextType, PTL DEF Spec

-----------------------------------------------------------------------------
(* ReachableOnPath is not inductive: a branch is visited from todo, and that *)
(* its block is reachable has to be remembered from GetNextBlock.            *)
TodoReachable == \A k \in DOMAIN todo : Reachable(fn.parent[todo[k]])

ReachInv ==
  /\ TypeOK
  /\ TodoReachable
  /\ ReachableOnPath

(* A step that marks only successors of the visited block keeps ReachInv. *)
LEMMA MarkingStays ==
  ASSUME ReachInv, TypeOK', NEW ops, Visiting(ops), fn' = fn,
         todo' = todo \/ todo' = Tail(todo),
         \A b \in Blocks(fn) : Reachable(b) => Reachable(b)',
         \A b \in Blocks(fn) : Reachable(b)' =>
           Reachable(b) \/ b \in Succs(fn, fn.parent[inst])
  PROVE  ReachInv'
<1>1. /\ inst \in Insts(fn) /\ fn.parent[inst] \in Blocks(fn)
      /\ Reachable(fn.parent[inst])
  <2>1. inst \in Insts(fn)
    BY VisitedInst DEF ReachInv
  <2>2. 1 \in DOMAIN todo /\ inst = todo[1]
    BY DEF Visiting, ReachInv, TypeOK, inst
  <2> QED
    BY <2>1, <2>2 DEF ReachInv, TodoReachable, TypeOK, IsFunction
<1>2. TodoReachable'
  <2>1. \A k \in DOMAIN todo' : \E m \in DOMAIN todo : todo'[k] = todo[m]
    <3>1. todo \in Seq(Insts(fn)) /\ todo # <<>>
      BY DEF ReachInv, TypeOK, Visiting
    <3>2. CASE todo' = Tail(todo)
      <4>1. ASSUME NEW k \in DOMAIN todo'
            PROVE  k + 1 \in DOMAIN todo /\ todo'[k] = todo[k + 1]
        BY <3>1, <3>2
      <4> QED
        BY <4>1
    <3> QED
      BY <3>2
  <2>2. ASSUME NEW m \in DOMAIN todo PROVE blockTable'[fn.parent[todo[m]]] = "top"
    <3>1. fn.parent[todo[m]] \in Blocks(fn) /\ Reachable(fn.parent[todo[m]])
      BY DEF ReachInv, TodoReachable, TypeOK, IsFunction
    <3> QED
      BY <3>1 DEF Reachable
  <2> QED
    BY <2>1, <2>2 DEF TodoReachable, Reachable
<1>3. ReachableOnPath'
  <2> SUFFICES ASSUME NEW S \in SUBSET Blocks(fn), Entry(fn) \in S,
                      \A b \in S : Succs(fn, b) \subseteq S,
                      NEW b \in Blocks(fn), Reachable(b)'
               PROVE  b \in S
    BY DEF ReachableOnPath
  <2>1. \A c \in Blocks(fn) : Reachable(c) => c \in S
    BY DEF ReachInv, ReachableOnPath
  <2>2. Succs(fn, fn.parent[inst]) \subseteq S
    BY <1>1, <2>1
  <2> QED
    BY <2>1, <2>2
<1> QED
  BY <1>2, <1>3 DEF ReachInv

(* A visit that marks no block. *)
LEMMA QuietStays ==
  ASSUME ReachInv, TypeOK', NEW ops, Visiting(ops), fn' = fn,
         todo' = todo \/ todo' = Tail(todo), blockTable' = blockTable
  PROVE  ReachInv'
BY MarkingStays DEF Reachable

(* A visit without news marks nothing. *)
LEMMA KeepStays ==
  ASSUME ReachInv, TypeOK', NEW ops, Visiting(ops), NEW table, Keep(table)
  PROVE  ReachInv'
BY QuietStays DEF Keep

(* An insertion that marks successors of the visited block only. *)
LEMMA InsertStays ==
  ASSUME ReachInv, TypeOK', NEW ops, Visiting(ops), NEW table, NEW new, NEW q,
         NEW B \in SUBSET Succs(fn, fn.parent[inst]), Insert(table, new, q, B)
  PROVE  ReachInv'
<1>1. CASE Rank(table[inst]) <= Rank(new)
  <2>1. blockTable' = [b \in Blocks(fn) |->
                         IF b \in B THEN "top" ELSE blockTable[b]]
    BY <1>1 DEF Insert
  <2> QED
    BY <1>1, <2>1, MarkingStays DEF Insert, Reachable
<1>2. CASE ~(Rank(table[inst]) <= Rank(new))
  BY <1>2, QuietStays DEF Insert
<1> QED
  BY <1>1, <1>2

(* Inserting and enqueueing the users marks nothing. *)
LEMMA RaiseStays ==
  ASSUME ReachInv, TypeOK', NEW ops, Visiting(ops), NEW table, NEW new,
         Raise(table, new)
  PROVE  ReachInv'
BY InsertStays DEF Raise

(* The successors a branch names are those of its block. *)
LEMMA BranchSuccs ==
  ASSUME TypeOK, NEW ops, Visiting(ops), instr.op \in {"br", "condbr"}
  PROVE  \A k \in 1 .. NumSuccs[instr.op] :
           instr.succs[k] \in Succs(fn, fn.parent[inst])
<1>1. IsInst(fn, inst) /\ instr = fn.inst[inst]
  BY VisitedInst
<1>2. inst = Terminator(fn, fn.parent[inst])
  BY <1>1 DEF IsInst, NumSuccs
<1>3. DOMAIN instr.succs = 1 .. NumSuccs[instr.op]
  BY <1>1 DEF IsInst, NumSuccs
<1> QED
  BY <1>1, <1>2, <1>3 DEF Succs

-----------------------------------------------------------------------------
(* The visits of memory operations are the visits mapped to top. *)
LEMMA MemoryVisit ==
  ASSUME VisitMemory
  PROVE  MapToTop /\ \E ops : Visiting(ops)
BY DEF VisitMemory, VisitAlloca, VisitCall, VisitGetElementPtr, VisitLoad,
       VisitStore, VisitPtrToInt, VisitIntToPtr

(* Of the visits only those to branches mark blocks. *)
LEMMA PlainVisitStays ==
  ASSUME ReachInv, TypeOK',
         VisitMemory \/ VisitBinaryOperator \/ VisitCast \/ VisitICmp
           \/ VisitExtOrTrunc \/ VisitPHI \/ VisitReturn
  PROVE  ReachInv'
<1>1. \E ops : Visiting(ops)
  BY MemoryVisit DEF VisitBinaryOperator, VisitCast, VisitICmp,
         VisitExtOrTrunc, VisitPHI, VisitReturn
<1>2. ASSUME NEW table, NEW new, NEW q,
             Keep(table) \/ Raise(table, new) \/ Insert(table, new, q, {})
      PROVE  ReachInv'
  BY <1>1, <1>2, KeepStays, RaiseStays, InsertStays
<1>3. CASE VisitMemory
  BY <1>2, <1>3, MemoryVisit DEF MapToTop
<1>4. CASE VisitBinaryOperator
  <2>1. \E table, new : Keep(table) \/ Raise(table, new)
    BY <1>4 DEF VisitBinaryOperator
  <2> QED
    BY <1>2, <2>1
<1>5. CASE VisitCast
  BY <1>2, <1>5 DEF VisitCast
<1>6. CASE VisitICmp
  <2>1. \E table, new :
          Keep(table) \/ Raise(table, new) \/ Insert(table, new, <<>>, {})
    BY <1>6 DEF VisitICmp
  <2> QED
    BY <1>2, <2>1
<1>7. CASE VisitExtOrTrunc
  BY <1>2, <1>7 DEF VisitExtOrTrunc
<1>8. CASE VisitPHI
  <2>1. \/ \E table, new : Keep(table) \/ Raise(table, new)
        \/ UNCHANGED <<fn, blockTable, constantTable, workQueue, todo, visited>>
    BY <1>8 DEF VisitPHI
  <2> QED
    BY <1>1, <1>2, <2>1, QuietStays
<1>9. CASE VisitReturn
  BY <1>2, <1>9 DEF VisitReturn
<1> QED
  BY <1>3, <1>4, <1>5, <1>6, <1>7, <1>8, <1>9

(* An unconditional branch marks its successor. *)
LEMMA VisitBrStays ==
  ASSUME ReachInv, TypeOK', VisitBr
  PROVE  ReachInv'
<1>1. Visiting({"br"}) /\ instr.op = "br"
  BY DEF VisitBr, Visiting
<1>2. instr.succs[1] \in Succs(fn, fn.parent[inst])
  BY <1>1, BranchSuccs DEF ReachInv, NumSuccs
<1>3. /\ blockTable' = [blockTable EXCEPT ![instr.succs[1]] = "top"]
      /\ todo' = Tail(todo) /\ fn' = fn
  BY DEF VisitBr
<1>4. \A b \in Blocks(fn) : Reachable(b) => Reachable(b)'
  BY <1>3 DEF Reachable, ReachInv, TypeOK
<1>5. \A b \in Blocks(fn) : Reachable(b)' => Reachable(b) \/ b = instr.succs[1]
  BY <1>3 DEF Reachable, ReachInv, TypeOK
<1> QED
  BY <1>1, <1>2, <1>3, <1>4, <1>5, MarkingStays

(* A conditional branch marks successors of its own. *)
LEMMA VisitCondBrStays ==
  ASSUME ReachInv, TypeOK', VisitCondBr
  PROVE  ReachInv'
<1> DEFINE cond  == LatticeElem(arg(1))
           table == LookUp(Operands({1}))
<1>1. Visiting({"condbr"}) /\ instr.op = "condbr"
  BY DEF VisitCondBr, Visiting
<1>2. {instr.succs[1], instr.succs[2]} \subseteq Succs(fn, fn.parent[inst])
  BY <1>1, BranchSuccs DEF ReachInv, NumSuccs
<1>3. CASE cond.state # "value"
  <2>1. /\ blockTable' = [b \in Blocks(fn) |->
                            IF b \in {instr.succs[1], instr.succs[2]}
                              THEN "top" ELSE blockTable[b]]
        /\ todo' = Tail(todo) /\ fn' = fn
    BY <1>3 DEF VisitCondBr
  <2> QED
    BY <1>1, <1>2, <2>1, MarkingStays DEF Reachable
<1>4. CASE cond.state = "value" /\ Reachable(Taken(cond))
  BY <1>1, <1>4, KeepStays DEF VisitCondBr
<1>5. CASE cond.state = "value" /\ ~Reachable(Taken(cond))
  <2>1. Insert(table, cond, <<Taken(cond)>>, {Taken(cond)})
    BY <1>5 DEF VisitCondBr
  <2>2. {Taken(cond)} \subseteq Succs(fn, fn.parent[inst])
    BY <1>2 DEF Taken
  <2> QED
    BY <1>1, <2>1, <2>2, InsertStays
<1> QED
  BY <1>3, <1>4, <1>5

(* getNextBlock takes up a reachable block. *)
LEMMA GetNextBlockStays ==
  ASSUME ReachInv, TypeOK', GetNextBlock
  PROVE  ReachInv'
<1>1. PICK k \in DOMAIN workQueue :
        Reachable(workQueue[k]) /\ todo' = fn.body[workQueue[k]]
  BY DEF GetNextBlock
<1>2. fn' = fn /\ blockTable' = blockTable
  BY DEF GetNextBlock
<1>3. workQueue[k] \in Blocks(fn)
  BY DEF ReachInv, TypeOK
<1>4. \A m \in DOMAIN todo' : fn.parent[todo'[m]] = workQueue[k]
  BY <1>1, <1>3 DEF ReachInv, TypeOK, IsFunction
<1>5. TodoReachable'
  BY <1>1, <1>2, <1>4 DEF TodoReachable, Reachable
<1>6. ReachableOnPath'
  BY <1>2 DEF ReachInv, ReachableOnPath, Reachable
<1> QED
  BY <1>5, <1>6 DEF ReachInv

(* At the start only the entry is marked. *)
LEMMA InitReach == Init => ReachInv
<1> SUFFICES ASSUME Init PROVE ReachInv
  OBVIOUS
<1>1. TodoReachable
  BY DEF Init, TodoReachable
<1>2. ReachableOnPath
  BY DEF Init, ReachableOnPath, Reachable
<1> QED
  BY <1>1, <1>2, InitType DEF ReachInv

(* Every step preserves the invariant. *)
LEMMA NextReach == ReachInv /\ [Next]_vars => ReachInv'
<1> SUFFICES ASSUME ReachInv, [Next]_vars PROVE ReachInv'
  OBVIOUS
<1>1. TypeOK'
  BY NextType DEF ReachInv
<1>2. CASE Visit
  BY <1>1, <1>2, PlainVisitStays, VisitBrStays, VisitCondBrStays DEF Visit
<1>3. CASE GetNextBlock
  BY <1>1, <1>3, GetNextBlockStays
<1>4. CASE QueueExhausted \/ UNCHANGED vars
  <2>1. fn' = fn /\ blockTable' = blockTable /\ todo' = todo
    BY <1>4 DEF QueueExhausted, vars
  <2> QED
    BY <1>1, <2>1 DEF ReachInv, TodoReachable, ReachableOnPath, Reachable
<1> QED
  BY <1>2, <1>3, <1>4 DEF Next, Finished

(* A block the analysis calls reachable lies on a path from the entry.  So  *)
(* deleteDeadBlocks, which keeps the reachable blocks, keeps no block that  *)
(* the control flow graph cannot enter.                                     *)
THEOREM ReachabilityJustified == Spec => []ReachableOnPath
<1>1. ReachInv => ReachableOnPath
  BY DEF ReachInv
<1> QED
  BY <1>1, InitReach, NextReach, PTL DEF Spec

-----------------------------------------------------------------------------

(* The functions the theorems are about: + - * are the only operators. *)
OnlyArithmetic ==
  \A f \in Functions : \A i \in Insts(f) :
    f.inst[i].op = "binop" => f.inst[i].fun \in Operators

(* The entries that handlers produce. *)
CanonicalEntry(e) == e = Absent \/ Canonical(e)

Merging(i) == {Incoming(fn.inst[i].args[k]) :
                k \in {k \in DOMAIN fn.inst[i].args :
                         Reachable(fn.inst[i].from[k])}}

Strict(d, e, value) ==
  IF "top" \in {d.state, e.state} THEN Top
  ELSE IF "bottom" \in {d.state, e.state} THEN Bottom
  ELSE value

(* What a visit to instruction i would compute from the present tables. *)
Result(i) ==
  LET r    == fn.inst[i]
      e(k) == LatticeElem(r.args[k])
  IN
  CASE r.op = "binop" ->
         Strict(e(1), e(2),
                Val(Calculate(r.fun, e(1).value, e(2).value, IntModulus)))
    [] r.op = "icmp" ->
         Strict(e(1), e(2),
                IF r.fun \in Predicates
                  THEN Val(ToInt(Holds(r.fun, e(1).value, e(2).value)))
                  ELSE Top)
    [] r.op \in {"cast", "condbr"} -> e(1)
    [] r.op \in {"zext", "sext", "trunc"} -> Converted(r, e(1))
    [] r.op = "phi" -> Join(Merging(i))
    [] OTHER -> Top

(* The inductive invariant.  That the next element is not below the present *)
(* one follows only because no entry is ever ahead of what its operands     *)
(* justify, and the justification ascends with the operands.                *)
Justified ==
  \A i \in Insts(fn) : /\ CanonicalEntry(constantTable[i])
                       /\ Leq(constantTable[i], Result(i))

AscentInv ==
  /\ TypeOK
  /\ \A i \in Insts(fn) : fn.inst[i].op = "binop" => fn.inst[i].fun \in Operators
  /\ Justified
  /\ NeverDescends

Ascends == \A i \in Insts(fn) : Leq(constantTable[i], constantTable'[i])

-----------------------------------------------------------------------------
(* An element is below itself. *)
LEMMA LeqReflexive ==
  ASSUME NEW e, CanonicalEntry(e)
  PROVE  Leq(e, e)
BY DEF Leq, CanonicalEntry, Canonical, Absent, Bottom, Top, Val, Elem

(* The flat order refines the order of the enumerators. *)
LEMMA LeqRank ==
  ASSUME NEW d, NEW e, CanonicalEntry(d), CanonicalEntry(e), Leq(d, e)
  PROVE  Rank(d) <= Rank(e)
BY DEF Leq, Rank, CanonicalEntry, Canonical, Absent, Bottom, Top, Val, Elem

(* Strict evaluation is monotone. *)
LEMMA StrictMonotone ==
  ASSUME NEW d, NEW e, NEW x, NEW f, NEW g, NEW y,
         Canonical(d), Canonical(e), Canonical(f), Canonical(g),
         Leq(d, f), Leq(e, g), Canonical(x), Canonical(y),
         d = f /\ e = g => x = y
  PROVE  Leq(Strict(d, e, x), Strict(f, g, y))
<1>1. CASE "top" \in {f.state, g.state}
  BY <1>1 DEF Strict, Leq, Top, Elem
<1>2. CASE "top" \notin {f.state, g.state} /\ "bottom" \in {d.state, e.state}
  BY <1>2 DEF Strict, Leq, Canonical, Bottom, Top, Val, Elem
<1>3. CASE "top" \notin {f.state, g.state} /\ "bottom" \notin {d.state, e.state}
  <2>1. d = f /\ e = g
    BY <1>3 DEF Leq, Canonical, Bottom, Top, Val, Elem
  <2> QED
    BY <1>3, <2>1 DEF Strict, Leq, Canonical, Bottom, Top, Val, Elem
<1> QED
  BY <1>1, <1>2, <1>3

(* Truncation and extension respect the order. *)
LEMMA ConvertedMonotone ==
  ASSUME NEW r, NEW d, NEW e, Canonical(d), Canonical(e), Leq(d, e)
  PROVE  /\ Canonical(Converted(r, d))
         /\ Leq(Converted(r, d), Converted(r, e))
<1>1. /\ 0 % CharModulus = 0
      /\ ToInt(0 # 0) = 0
  BY SccpAssumption DEF ToInt
<1> QED
  BY <1>1 DEF Converted, Leq, Canonical, Bottom, Top, Val, Elem

-----------------------------------------------------------------------------
(* What is read of an operand is canonical. *)
LEMMA ReadsCanonical ==
  ASSUME TypeOK, Justified, NEW o, IsOperand(fn, o)
  PROVE  Canonical(LatticeElem(o)) /\ Canonical(Incoming(o))
<1>1. Canonical(Top) /\ Canonical(Bottom) /\ \A v : Canonical(Val(v))
  BY DEF Canonical, Val, Elem
<1>2. o.kind = "inst" => Canonical(LatticeElem(o))
  BY <1>1
  DEF IsOperand, LatticeElem, Justified, CanonicalEntry, Insts, Arg, OtherConstant
<1>3. Canonical(LatticeElem(o))
  BY <1>1, <1>2 DEF LatticeElem
<1> QED
  BY <1>1, <1>3 DEF Incoming

(* The hypotheses under which reads and results ascend from a state to the  *)
(* next: entries ascend and no block ceases to be reachable.                *)
Upward ==
  /\ TypeOK /\ Justified
  /\ fn' = fn
  /\ \A i \in Insts(fn) : CanonicalEntry(constantTable'[i])
  /\ Ascends
  /\ \A b \in Blocks(fn) : blockTable[b] = "top" => blockTable'[b] = "top"

(* When the tables ascend, so does what is read of an operand. *)
LEMMA ReadsAscend ==
  ASSUME Upward, NEW o, IsOperand(fn, o)
  PROVE  /\ Leq(LatticeElem(o), LatticeElem(o)')
         /\ Leq(Incoming(o), Incoming(o)')
         /\ Canonical(LatticeElem(o)') /\ Canonical(Incoming(o)')
<1>1. Canonical(Top) /\ Canonical(Bottom) /\ \A v : Canonical(Val(v))
  BY DEF Canonical, Val, Elem
<1>2. CASE o.kind = "int"
  <2>1. LatticeElem(o)' = LatticeElem(o) /\ Incoming(o)' = Incoming(o)
    BY <1>2 DEF LatticeElem, Incoming
  <2>2. Canonical(LatticeElem(o)) /\ Canonical(Incoming(o))
    BY ReadsCanonical DEF Upward
  <2> QED
    BY <2>1, <2>2, LeqReflexive DEF CanonicalEntry
<1>3. CASE o.kind = "inst"
  <2> DEFINE e == constantTable[o.id]
             f == constantTable'[o.id]
  <2>1. o.id \in Insts(fn)
    BY <1>3 DEF IsOperand, Insts, Arg, OtherConstant
  <2>2. CanonicalEntry(e) /\ CanonicalEntry(f) /\ Leq(e, f)
    BY <2>1 DEF Upward, Justified, Ascends
  <2>3. /\ LatticeElem(o) = IF e = Absent THEN Bottom ELSE e
        /\ LatticeElem(o)' = IF f = Absent THEN Bottom ELSE f
    BY <1>3 DEF LatticeElem
  <2>4. /\ Incoming(o) = LatticeElem(o)
        /\ Incoming(o)' = LatticeElem(o)'
    BY <1>3 DEF Incoming
  <2> HIDE DEF e, f
  <2> QED
    BY <2>2, <2>3, <2>4
    DEF Leq, CanonicalEntry, Canonical, Absent, Bottom, Top, Val, Elem
<1>4. CASE o.kind # "int" /\ o.kind # "inst"
  BY <1>1, <1>4 DEF LatticeElem, Incoming, Leq, Top, Elem
<1> QED
  BY <1>2, <1>3, <1>4

(* What a phi merges ascends: more edges are live, and each brings more. *)
LEMMA MergingAscends ==
  ASSUME Upward, NEW i \in Insts(fn), fn.inst[i].op = "phi"
  PROVE  /\ \A e \in Merging(i) : Canonical(e)
         /\ \A e \in Merging(i)' : Canonical(e)
         /\ \A d \in Merging(i) : \E e \in Merging(i)' : Leq(d, e)
<1> DEFINE r == fn.inst[i]
           live == {k \in DOMAIN r.args : blockTable[r.from[k]] = "top"}
           next == {k \in DOMAIN r.args : blockTable'[r.from[k]] = "top"}
<1>1. IsInst(fn, i)
  BY DEF Upward, TypeOK, IsFunction
<1>2. \A k \in DOMAIN r.args : IsOperand(fn, r.args[k])
  BY <1>1 DEF IsInst
<1>3. \A k \in DOMAIN r.args : r.from[k] \in Blocks(fn)
  BY <1>1 DEF IsInst, Preds
<1>4. live \subseteq next
  BY <1>3 DEF Upward
<1>5. /\ Merging(i) = {Incoming(r.args[k]) : k \in live}
      /\ Merging(i)' = {Incoming(r.args[k])' : k \in next}
  BY DEF Merging, Reachable, Upward
<1>6. \A k \in DOMAIN r.args :
        /\ Leq(Incoming(r.args[k]), Incoming(r.args[k])')
        /\ Canonical(Incoming(r.args[k]))
        /\ Canonical(Incoming(r.args[k])')
  BY <1>2, ReadsCanonical, ReadsAscend DEF Upward
<1> QED
  BY <1>4, <1>5, <1>6

(* When the tables ascend, so does the result a visit computes. *)
LEMMA ResultAscends ==
  ASSUME Upward, NEW i \in Insts(fn)
  PROVE  Leq(Result(i), Result(i)')
<1> DEFINE r == fn.inst[i]
           e(k) == LatticeElem(r.args[k])
           f(k) == LatticeElem(r.args[k])'
           twice(x, y) == <<Val(Calculate(r.fun, x.value, y.value, IntModulus)),
                            IF r.fun \in Predicates
                              THEN Val(ToInt(Holds(r.fun, x.value, y.value)))
                              ELSE Top>>
<1>1. IsInst(fn, i) /\ fn' = fn
  BY DEF Upward, TypeOK, IsFunction
<1>2. ASSUME NEW k \in DOMAIN r.args
      PROVE  Canonical(e(k)) /\ Canonical(f(k)) /\ Leq(e(k), f(k))
  <2>1. IsOperand(fn, r.args[k])
    BY <1>1 DEF IsInst
  <2> QED
    BY <2>1, ReadsCanonical, ReadsAscend DEF Upward
<1>3. CASE r.op \in {"binop", "icmp"}
  <2>1. 1 \in DOMAIN r.args /\ 2 \in DOMAIN r.args
    BY <1>1, <1>3 DEF IsInst, Arity
  <2>2. \A x, y : Canonical(twice(x, y)[1]) /\ Canonical(twice(x, y)[2])
    BY DEF Canonical, Val, Elem
  <2>3. \A n \in {1, 2} : Leq(Strict(e(1), e(2), twice(e(1), e(2))[n]),
                              Strict(f(1), f(2), twice(f(1), f(2))[n]))
    <3> HIDE DEF twice, e, f
    <3>1. e(1) = f(1) /\ e(2) = f(2) => twice(e(1), e(2)) = twice(f(1), f(2))
      OBVIOUS
    <3> QED
      BY <1>2, <2>1, <2>2, <3>1, StrictMonotone
  <2>4. CASE r.op = "binop"
    <3>1. /\ Result(i) = Strict(e(1), e(2), twice(e(1), e(2))[1])
          /\ Result(i)' = Strict(f(1), f(2), twice(f(1), f(2))[1])
      BY <1>1, <2>4 DEF Result
    <3> QED
      BY <2>3, <3>1
  <2>5. CASE r.op = "icmp"
    <3>1. /\ Result(i) = Strict(e(1), e(2), twice(e(1), e(2))[2])
          /\ Result(i)' = Strict(f(1), f(2), twice(f(1), f(2))[2])
      BY <1>1, <2>5 DEF Result
    <3> QED
      BY <2>3, <3>1
  <2> QED
    BY <1>3, <2>4, <2>5
<1>4. CASE r.op \in {"cast", "condbr", "zext", "sext", "trunc"}
  <2>1. 1 \in DOMAIN r.args
    BY <1>1, <1>4 DEF IsInst, Arity
  <2>2. CASE r.op \in {"cast", "condbr"}
    BY <1>1, <1>2, <2>1, <2>2 DEF Result
  <2>3. CASE r.op \in {"zext", "sext", "trunc"}
    <3>1. Result(i) = Converted(r, e(1)) /\ Result(i)' = Converted(r, f(1))
      BY <1>1, <2>3 DEF Result, Converted
    <3> QED
      BY <1>2, <2>1, <3>1, ConvertedMonotone
  <2> QED
    BY <1>4, <2>2, <2>3
<1>5. CASE r.op = "phi"
  <2>1. Leq(Join(Merging(i)), Join(Merging(i)'))
    BY <1>5, MergingAscends, JoinMonotone
  <2>2. Result(i) = Join(Merging(i)) /\ Result(i)' = Join(Merging(i)')
    BY <1>1, <1>5 DEF Result, Join
  <2> QED
    BY <2>1, <2>2
<1>6. CASE r.op \notin {"binop", "icmp", "cast", "condbr", "zext", "sext",
                        "trunc", "phi"}
  BY <1>1, <1>6 DEF Result, Leq, Top, Elem
<1> QED
  BY <1>3, <1>4, <1>5, <1>6

(* A step that raises no entry above its result keeps the invariant. *)
LEMMA JustifiedStays ==
  ASSUME AscentInv, TypeOK', fn' = fn, phase' # "descended",
         \A b \in Blocks(fn) : blockTable[b] = "top" => blockTable'[b] = "top",
         \A i \in Insts(fn) : /\ CanonicalEntry(constantTable'[i])
                              /\ Leq(constantTable[i], constantTable'[i])
                              /\ Leq(constantTable'[i], Result(i))
  PROVE  AscentInv' /\ Ascends
<1>1. Upward
  BY DEF Upward, AscentInv, Ascends
<1>2. \A i \in Insts(fn) : Leq(constantTable'[i], Result(i)')
  BY <1>1, ResultAscends, LeqTransitive
<1>3. Justified'
  BY <1>2 DEF Justified
<1> QED
  BY <1>1, <1>3 DEF AscentInv, Upward, NeverDescends

-----------------------------------------------------------------------------
(* Entering bottom for what was looked up changes nothing in the order. *)
LEMMA LookUpAscends ==
  ASSUME AscentInv, NEW S, NEW i \in Insts(fn)
  PROVE  /\ CanonicalEntry(LookUp(S)[i])
         /\ Leq(constantTable[i], LookUp(S)[i])
         /\ Leq(LookUp(S)[i], Result(i))
         /\ \A e : Leq(constantTable[i], e) => Leq(LookUp(S)[i], e)
<1>1. CanonicalEntry(constantTable[i]) /\ Leq(constantTable[i], Result(i))
  BY DEF AscentInv, Justified
<1>2. \/ LookUp(S)[i] = constantTable[i]
      \/ LookUp(S)[i] = Bottom /\ constantTable[i] = Absent
  BY DEF LookUp
<1>3. CanonicalEntry(Bottom) /\ \A e : Leq(Bottom, e) /\ Leq(Absent, e)
  BY DEF CanonicalEntry, Canonical, Leq, Bottom, Absent, Elem
<1> QED
  BY <1>1, <1>2, <1>3, LeqReflexive

(* Looking up no instruction changes nothing. *)
LEMMA LookUpNothing ==
  ASSUME TypeOK
  PROVE  LookUp({}) = constantTable
BY DEF TypeOK, LookUp

(* What is recorded for the visited instruction. *)
LEMMA OldFacts ==
  ASSUME AscentInv, NEW ops, Visiting(ops)
  PROVE  /\ inst \in Insts(fn) /\ instr = fn.inst[inst] /\ instr.op \in ops
         /\ Canonical(old) /\ Leq(old, Result(inst))
         /\ \A e : Leq(constantTable[inst], e) <=> Leq(old, e)
         /\ \A k \in DOMAIN instr.args : Canonical(LatticeElem(arg(k)))
<1>1. inst \in Insts(fn) /\ instr = fn.inst[inst] /\ instr.op \in ops
  BY VisitedInst DEF AscentInv
<1>2. \A k \in DOMAIN instr.args : Canonical(LatticeElem(arg(k)))
  BY VisitedInst, ReadsCanonical DEF AscentInv
<1>3. old = IF constantTable[inst] = Absent THEN Bottom ELSE constantTable[inst]
  BY DEF old, LatticeElem, Ref
<1>4. CanonicalEntry(constantTable[inst]) /\ Leq(constantTable[inst], Result(inst))
  BY <1>1 DEF AscentInv, Justified
<1>5. Canonical(Bottom) /\ \A e : Leq(Bottom, e) /\ Leq(Absent, e)
  BY DEF Canonical, Leq, Bottom, Absent, Elem
<1> QED
  BY <1>1, <1>2, <1>3, <1>4, <1>5 DEF CanonicalEntry

(* The ways in which a visit ends, none of them a descent. *)
LEMMA KeepAscends ==
  ASSUME AscentInv, TypeOK', NEW S, Keep(LookUp(S))
  PROVE  AscentInv' /\ Ascends
<1>1. /\ constantTable' = LookUp(S) /\ fn' = fn /\ blockTable' = blockTable
      /\ phase' = phase
  BY DEF Keep
<1> QED
  BY <1>1, LookUpAscends, JustifiedStays DEF AscentInv, NeverDescends

(* Inserting an element above the recorded one is an ascent. *)
LEMMA InsertAscends ==
  ASSUME AscentInv, TypeOK', NEW ops, Visiting(ops), NEW S, NEW q, NEW B,
         NEW new, Canonical(new), Leq(old, new), Leq(new, Result(inst)),
         Insert(LookUp(S), new, q, B)
  PROVE  AscentInv' /\ Ascends
<1>1. inst \in Insts(fn)
  BY OldFacts
<1>2. Leq(constantTable[inst], new)
  BY OldFacts
<1>3. Rank(LookUp(S)[inst]) <= Rank(new)
  BY <1>1, <1>2, LookUpAscends, LeqRank DEF CanonicalEntry
<1>4. /\ constantTable' = [LookUp(S) EXCEPT ![inst] = new]
      /\ blockTable' = [b \in Blocks(fn) |->
                          IF b \in B THEN "top" ELSE blockTable[b]]
      /\ fn' = fn /\ phase' = phase
  BY <1>3 DEF Insert
<1>5. ASSUME NEW i \in Insts(fn)
      PROVE  /\ CanonicalEntry(constantTable'[i])
             /\ Leq(constantTable[i], constantTable'[i])
             /\ Leq(constantTable'[i], Result(i))
  <2>1. LookUp(S) \in [Insts(fn) -> Elements]
    BY LookUpType DEF AscentInv
  <2>2. CASE i = inst
    BY <1>2, <1>4, <2>1, <2>2 DEF CanonicalEntry
  <2>3. CASE i # inst
    BY <1>4, <2>1, <2>3, LookUpAscends
  <2> QED
    BY <2>2, <2>3
<1> QED
  BY <1>4, <1>5, JustifiedStays DEF AscentInv, NeverDescends

(* Inserting and enqueueing the users is an ascent. *)
LEMMA RaiseAscends ==
  ASSUME AscentInv, TypeOK', NEW ops, Visiting(ops), NEW S,
         NEW new, Canonical(new), Leq(old, new), Leq(new, Result(inst)),
         Raise(LookUp(S), new)
  PROVE  AscentInv' /\ Ascends
BY InsertAscends DEF Raise

(* An element that is the result itself needs no further argument. *)
LEMMA ResultIsAhead ==
  ASSUME AscentInv, NEW ops, Visiting(ops), NEW new, Canonical(new),
         new = Result(inst)
  PROVE  Leq(old, new) /\ Leq(new, Result(inst))
BY OldFacts, LeqReflexive DEF CanonicalEntry

-----------------------------------------------------------------------------
(* The visits that map to top ascend. *)
LEMMA VisitMemoryAscends ==
  ASSUME AscentInv, TypeOK', VisitMemory
  PROVE  AscentInv' /\ Ascends
<1> DEFINE ops == {"alloca", "call", "gep", "load", "store", "ptrtoint",
                   "inttoptr"}
<1>1. Visiting(ops) /\ MapToTop
  BY DEF VisitMemory, VisitAlloca, VisitCall, VisitGetElementPtr, VisitLoad,
         VisitStore, VisitPtrToInt, VisitIntToPtr, Visiting
<1>2. Result(inst) = Top /\ Canonical(Top)
  BY <1>1, OldFacts DEF Result, Canonical
<1>3. Keep(LookUp({})) \/ Raise(LookUp({inst}), Top)
  BY <1>1, LookUpNothing DEF MapToTop, AscentInv
<1> QED
  BY <1>1, <1>2, <1>3, KeepAscends, RaiseAscends, ResultIsAhead

(* visitBinaryOperator ascends when the operator is an arithmetic one. *)
LEMMA VisitBinaryOperatorAscends ==
  ASSUME AscentInv, TypeOK', VisitBinaryOperator
  PROVE  AscentInv' /\ Ascends
<1> DEFINE l   == LatticeElem(arg(1))
           r   == LatticeElem(arg(2))
           S   == Operands({1, 2}) \union {inst}
           sum == Calculate(instr.fun, l.value, r.value, IntModulus)
<1>1. Visiting({"binop"})
  BY DEF VisitBinaryOperator
<1>2. instr.fun \in Operators
  BY <1>1, OldFacts DEF AscentInv
<1>3. Result(inst) = Strict(l, r, Val(sum))
  BY <1>1, OldFacts DEF Result, arg
<1>4. Canonical(l) /\ Canonical(r)
  <2>1. IsInst(fn, inst)
    BY <1>1, VisitedInst DEF AscentInv
  <2> QED
    BY <1>1, <2>1, OldFacts DEF IsInst, Arity
<1>5. ASSUME NEW new, Canonical(new), new = Result(inst),
             Keep(LookUp(S)) \/ Raise(LookUp(S), new)
      PROVE  AscentInv' /\ Ascends
  BY <1>1, <1>5, KeepAscends, RaiseAscends, ResultIsAhead
<1>6. Canonical(Top) /\ Canonical(Bottom) /\ Canonical(Val(sum))
  BY DEF Canonical, Val, Elem
<1>7. CASE "top" \in {l.state, r.state}
  <2>1. ShortCircuit(instr.fun, l, r) = {Top}
    BY <1>2 DEF ShortCircuit, Operators
  <2>2. Keep(LookUp(S)) \/ Raise(LookUp(S), Top)
    BY <1>7, <2>1 DEF VisitBinaryOperator
  <2> QED
    BY <1>3, <1>5, <1>6, <1>7, <2>2 DEF Strict
<1>8. CASE "bottom" \in {l.state, r.state} /\ "top" \notin {l.state, r.state}
  <2>1. Keep(LookUp(S)) \/ Raise(LookUp(S), Bottom)
    BY <1>8 DEF VisitBinaryOperator
  <2> QED
    BY <1>3, <1>5, <1>6, <1>8, <2>1 DEF Strict
<1>9. CASE ~("bottom" \in {l.state, r.state}) /\ ~("top" \in {l.state, r.state})
  <2>1. Arithmetic(instr.fun, l.value, r.value) = {sum}
    BY <1>2 DEF Arithmetic, Operators
  <2>2. Keep(LookUp(S)) \/ Raise(LookUp(S), Val(sum))
    BY <1>9, <2>1 DEF VisitBinaryOperator
  <2> QED
    BY <1>3, <1>5, <1>6, <1>9, <2>2 DEF Strict
<1> QED
  BY <1>7, <1>8, <1>9

(* visitICmpInst ascends. *)
LEMMA VisitICmpAscends ==
  ASSUME AscentInv, TypeOK', VisitICmp
  PROVE  AscentInv' /\ Ascends
<1> DEFINE l     == LatticeElem(arg(1))
           r     == LatticeElem(arg(2))
           S     == Operands({1, 2}) \union {inst}
           new   == IF "top" \in {l.state, r.state} THEN Top ELSE Bottom
           holds == Val(ToInt(Holds(instr.fun, l.value, r.value)))
<1>1. Visiting({"icmp"})
  BY DEF VisitICmp
<1>2. Result(inst) = Strict(l, r, IF instr.fun \in Predicates THEN holds ELSE Top)
  BY <1>1, OldFacts DEF Result, arg
<1>3. Canonical(l) /\ Canonical(r)
  <2>1. IsInst(fn, inst)
    BY <1>1, VisitedInst DEF AscentInv
  <2> QED
    BY <1>1, <2>1, OldFacts DEF IsInst, Arity
<1>4. Canonical(new) /\ Canonical(holds)
  BY DEF Canonical, Val, Elem
<1>5. CASE {l.state, r.state} # {"value"}
  <2>1. Keep(LookUp(S)) \/ Raise(LookUp(S), new)
    BY <1>5 DEF VisitICmp
  <2>2. new = Result(inst)
    BY <1>2, <1>3, <1>5 DEF Strict, Canonical, Bottom, Top, Val, Elem
  <2> HIDE DEF new
  <2> QED
    BY <1>1, <1>4, <2>1, <2>2, KeepAscends, RaiseAscends, ResultIsAhead
<1>6. CASE {l.state, r.state} = {"value"} /\ instr.fun \in Predicates
  <2>1. Insert(LookUp(S), holds, <<>>, {})
    BY <1>6 DEF VisitICmp
  <2>2. holds = Result(inst)
    BY <1>2, <1>6 DEF Strict
  <2> HIDE DEF holds
  <2> QED
    BY <1>1, <1>4, <2>1, <2>2, InsertAscends, ResultIsAhead
<1>7. CASE {l.state, r.state} = {"value"} /\ instr.fun \notin Predicates
  BY <1>7, KeepAscends DEF VisitICmp
<1> QED
  BY <1>5, <1>6, <1>7

(* visitCastInst ascends. *)
LEMMA VisitCastAscends ==
  ASSUME AscentInv, TypeOK', VisitCast
  PROVE  AscentInv' /\ Ascends
<1> DEFINE new == LatticeElem(arg(1))
<1>1. Visiting({"cast"}) /\ Insert(LookUp(Operands({1})), new, <<>>, {})
  BY DEF VisitCast
<1>2. Canonical(new)
  <2>1. IsInst(fn, inst)
    BY <1>1, VisitedInst DEF AscentInv
  <2> QED
    BY <1>1, <2>1, OldFacts DEF IsInst, Arity
<1>3. new = Result(inst)
  BY <1>1, OldFacts DEF Result, arg
<1> QED
  BY <1>1, <1>2, <1>3, InsertAscends, ResultIsAhead

(* visitZExtInst, visitSExtInst and visitTruncInst ascend. *)
LEMMA VisitExtOrTruncAscends ==
  ASSUME AscentInv, TypeOK', VisitExtOrTrunc
  PROVE  AscentInv' /\ Ascends
<1> DEFINE e   == LatticeElem(arg(1))
           new == Converted(instr, e)
           S   == Operands({1}) \union {inst}
<1>1. Visiting({"zext", "sext", "trunc"})
  BY DEF VisitExtOrTrunc
<1>2. Canonical(e)
  <2>1. IsInst(fn, inst)
    BY <1>1, VisitedInst DEF AscentInv
  <2> QED
    BY <1>1, <2>1, OldFacts DEF IsInst, Arity
<1>3. Canonical(new)
  BY <1>2, LeqReflexive, ConvertedMonotone DEF CanonicalEntry
<1>4. new = Result(inst)
  BY <1>1, OldFacts DEF Result, arg
<1>5. Keep(LookUp(S)) \/ Raise(LookUp(S), new)
  BY DEF VisitExtOrTrunc
<1> HIDE DEF new
<1> QED
  BY <1>1, <1>3, <1>4, <1>5, KeepAscends, RaiseAscends, ResultIsAhead

(* visitPHINode ascends. *)
LEMMA VisitPHIAscends ==
  ASSUME AscentInv, TypeOK', VisitPHI
  PROVE  AscentInv' /\ Ascends
<1> DEFINE live  == {k \in DOMAIN instr.args : Reachable(instr.from[k])}
           seen  == {k \in live : \A a \in live : arg(a) = Arg => k < a}
           new   == Join({Incoming(arg(k)) : k \in live})
           S     == Operands(seen) \union {inst}
<1>1. Visiting({"phi"})
  BY DEF VisitPHI
<1>2. new = Result(inst)
  <2>1. instr = fn.inst[inst] /\ instr.op = "phi"
    BY <1>1, OldFacts
  <2>2. Merging(inst) = {Incoming(arg(k)) : k \in live}
    BY <2>1 DEF Merging, arg
  <2>3. Result(inst) = Join(Merging(inst))
    BY <2>1 DEF Result
  <2> QED
    BY <2>2, <2>3
<1>3. Canonical(new)
  <2>1. \A k \in live : Canonical(Incoming(arg(k)))
    BY <1>1, VisitedInst, ReadsCanonical DEF AscentInv
  <2> QED
    BY <2>1, JoinIsCanonical
<1>4. CASE Keep(LookUp(S)) \/ Raise(LookUp(S), new)
  <2> HIDE DEF new, S
  <2> QED
    BY <1>1, <1>2, <1>3, <1>4, KeepAscends, RaiseAscends, ResultIsAhead
<1>5. CASE /\ phase' = "phi_without_value"
           /\ UNCHANGED <<fn, blockTable, constantTable, workQueue, todo, visited>>
  <2>1. \A i \in Insts(fn) : /\ CanonicalEntry(constantTable[i])
                             /\ Leq(constantTable[i], Result(i))
    BY DEF AscentInv, Justified
  <2> QED
    BY <1>5, <2>1, LeqReflexive, JustifiedStays
<1> QED
  BY <1>4, <1>5 DEF VisitPHI

(* An unconditional branch ascends. *)
LEMMA VisitBrAscends ==
  ASSUME AscentInv, TypeOK', VisitBr
  PROVE  AscentInv' /\ Ascends
<1>1. /\ fn' = fn /\ phase' = phase /\ constantTable' = constantTable
      /\ blockTable' = [blockTable EXCEPT ![instr.succs[1]] = "top"]
  BY DEF VisitBr
<1>2. \A b \in Blocks(fn) : blockTable[b] = "top" => blockTable'[b] = "top"
  BY <1>1 DEF AscentInv, TypeOK
<1>3. \A i \in Insts(fn) : /\ CanonicalEntry(constantTable[i])
                           /\ Leq(constantTable[i], Result(i))
  BY DEF AscentInv, Justified
<1> QED
  BY <1>1, <1>2, <1>3, LeqReflexive, JustifiedStays DEF AscentInv, NeverDescends

(* A conditional branch ascends. *)
LEMMA VisitCondBrAscends ==
  ASSUME AscentInv, TypeOK', VisitCondBr
  PROVE  AscentInv' /\ Ascends
<1> DEFINE cond == LatticeElem(arg(1))
           S    == Operands({1})
<1>1. Visiting({"condbr"})
  BY DEF VisitCondBr
<1>2. Canonical(cond)
  <2>1. IsInst(fn, inst)
    BY <1>1, VisitedInst DEF AscentInv
  <2> QED
    BY <1>1, <2>1, OldFacts DEF IsInst, Arity
<1>3. cond = Result(inst)
  BY <1>1, OldFacts DEF Result, arg
<1>4. CASE cond.state # "value"
  <2>1. /\ constantTable' = LookUp(S) /\ fn' = fn /\ phase' = phase
        /\ \A b \in Blocks(fn) : blockTable[b] = "top" => blockTable'[b] = "top"
    BY <1>4 DEF VisitCondBr
  <2> QED
    BY <2>1, LookUpAscends, JustifiedStays DEF AscentInv, NeverDescends
<1>5. CASE cond.state = "value" /\ Reachable(Taken(cond))
  BY <1>5, KeepAscends DEF VisitCondBr
<1>6. CASE cond.state = "value" /\ ~Reachable(Taken(cond))
  <2>1. Insert(LookUp(S), cond, <<Taken(cond)>>, {Taken(cond)})
    BY <1>6 DEF VisitCondBr
  <2> QED
    BY <1>1, <1>2, <1>3, <2>1, InsertAscends, ResultIsAhead
<1> QED
  BY <1>4, <1>5, <1>6

(* visitReturnInst ascends. *)
LEMMA VisitReturnAscends ==
  ASSUME AscentInv, TypeOK', VisitReturn
  PROVE  AscentInv' /\ Ascends
<1>1. Visiting({"ret"}) /\ Insert(LookUp({}), Top, <<>>, {})
  BY LookUpNothing DEF VisitReturn, AscentInv
<1>2. Top = Result(inst) /\ Canonical(Top)
  BY <1>1, OldFacts DEF Result, Canonical
<1> QED
  BY <1>1, <1>2, InsertAscends, ResultIsAhead

-----------------------------------------------------------------------------
(* The empty tables satisfy the invariant. *)
LEMMA InitAscent == OnlyArithmetic /\ Init => AscentInv
<1> SUFFICES ASSUME OnlyArithmetic, Init PROVE AscentInv
  OBVIOUS
<1>1. Justified
  BY DEF Init, Justified, CanonicalEntry, Leq, Absent, Elem
<1> QED
  BY <1>1, InitType DEF Init, AscentInv, OnlyArithmetic, NeverDescends

(* Every step preserves the invariant and is an ascent. *)
LEMMA NextAscent == AscentInv /\ [Next]_vars => AscentInv' /\ Ascends
<1> SUFFICES ASSUME AscentInv, [Next]_vars PROVE AscentInv' /\ Ascends
  OBVIOUS
<1>1. TypeOK'
  BY NextType DEF AscentInv
<1>2. CASE Visit
  BY <1>1, <1>2, VisitMemoryAscends, VisitBinaryOperatorAscends,
     VisitCastAscends, VisitICmpAscends, VisitExtOrTruncAscends,
     VisitPHIAscends, VisitBrAscends, VisitCondBrAscends, VisitReturnAscends
  DEF Visit
<1>3. CASE GetNextBlock \/ QueueExhausted \/ UNCHANGED vars
  <2>1. /\ fn' = fn /\ constantTable' = constantTable
        /\ blockTable' = blockTable /\ phase' # "descended"
    BY <1>3 DEF GetNextBlock, QueueExhausted, vars, AscentInv, NeverDescends
  <2>2. \A i \in Insts(fn) : /\ CanonicalEntry(constantTable[i])
                             /\ Leq(constantTable[i], Result(i))
    BY DEF AscentInv, Justified
  <2> QED
    BY <1>1, <2>1, <2>2, LeqReflexive, JustifiedStays
<1> QED
  BY <1>2, <1>3 DEF Next, Finished

(* The assertion of ConstantTable::checkedInsert ("Error: Descended in      *)
(* lattice") never fires, in whatever order blocks are visited.             *)
THEOREM NoDescent == OnlyArithmetic => (Spec => []NeverDescends)
<1>1. AscentInv => NeverDescends
  BY DEF AscentInv
<1> QED
  BY <1>1, InitAscent, NextAscent, PTL DEF Spec

(* No entry turns from one value into another or comes down: the check that *)
(* is commented out in checkedInsert would hold.                            *)
THEOREM EntriesAscend == OnlyArithmetic => (Spec => LatticeAscends)
<1>1. AscentInv /\ [Next]_vars =>
        [\A i \in Insts(fn) : Leq(constantTable[i], constantTable'[i])]_vars
  BY NextAscent DEF Ascends
<1> QED
  BY <1>1, InitAscent, NextAscent, PTL DEF Spec, LatticeAscends

=============================================================================
