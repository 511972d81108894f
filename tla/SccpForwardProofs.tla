------------------------- MODULE SccpForwardProofs -------------------------
(***************************************************************************)
(* The analysis of functions whose blocks lie in the order of the control  *)
(* flow: one pass over the queue settles everything, later visits change   *)
(* nothing.  So no block is lost, and what the tables claim at the end is  *)
(* true of every run: the tables keep the promise of ConstantAnalysis, and *)
(* AnalysedRunProofs says what that promise is worth.  (With a block that  *)
(* lies before one of its predecessors both fail: NestedIfInLoop and       *)
(* SetInLaterIteration of MCFunctions.)  If definitions dominate their     *)
(* uses, too, each visit finds its operands with values: the phis have     *)
(* them, the analysis implements ConstantAnalysis step by step, and the    *)
(* rewriting that follows erases nothing that is still in use.             *)
(***************************************************************************)
EXTENDS SccpProofs, SccpRun, SccpCleanup, WellFoundedInduction

(* Where a block is in the layout, and an instruction in its block. *)
Place(f, b) == CHOOSE k \in DOMAIN f.layout : f.layout[k] = b
Line(f, i)  == CHOOSE k \in DOMAIN f.body[f.parent[i]] : f.body[f.parent[i]][k] = i

(* The one comes before the other in the layout. *)
Precedes(f, i, j) ==
  \/ Place(f, f.parent[i]) < Place(f, f.parent[j])
  \/ f.parent[i] = f.parent[j] /\ Line(f, i) < Line(f, j)

(* The functions the theorems are about: no block or instruction is listed  *)
(* twice (so it is with LLVM), branches and uses lead forward, and          *)
(* comparisons are those that visitICmpInst knows.                          *)
IsForward(f) ==
  /\ \A j, k \in DOMAIN f.layout : f.layout[j] = f.layout[k] => j = k
  /\ \A b \in Blocks(f) : \A j, k \in DOMAIN f.body[b] :
       f.body[b][j] = f.body[b][k] => j = k
  /\ \A a \in Blocks(f) : \A b \in Succs(f, a) : Place(f, a) < Place(f, b)
  /\ \A i \in Insts(f) : \A k \in DOMAIN f.inst[i].args :
       f.inst[i].args[k].kind = "inst" => Precedes(f, f.inst[i].args[k].id, i)
  /\ \A i \in Insts(f) : f.inst[i].op = "icmp" => f.inst[i].fun \in Predicates

OnlyForward == OnlyArithmetic /\ \A f \in Functions : IsForward(f)

-----------------------------------------------------------------------------
(* What the table claims of an instruction. *)
Read(e)  == IF e = Absent THEN Bottom ELSE e
Claim(i) == Read(constantTable[i])

(* What another visit would leave in the table: a result 0 is not told from *)
(* no result (sccp_pass.cc:303).                                            *)
Revisit(i) ==
  IF fn.inst[i].op = "binop" /\ Result(i) = Val(0) /\ Claim(i) = Bottom
    THEN Bottom ELSE Result(i)

(* The branch taken, or both, are reachable. *)
BranchSettled(r) ==
  LET c == LatticeElem(r.args[1]) IN
  IF c.state = "value" THEN Reachable(r.succs[IF c.value = 0 THEN 2 ELSE 1])
                       ELSE Reachable(r.succs[1]) /\ Reachable(r.succs[2])

(* Another visit to an instruction would change nothing. *)
Settled(i) ==
  /\ fn.inst[i].op \notin {"br", "condbr"} => Claim(i) = Revisit(i)
  /\ fn.inst[i].op = "br" => Reachable(fn.inst[i].succs[1])
  /\ fn.inst[i].op = "condbr" => BranchSettled(fn.inst[i])

(* The first pass over the layout is at block p, its first d instructions   *)
(* are done; what is behind is settled, what is ahead is queued.            *)
Behind(i, p, d) ==
  \/ Place(fn, fn.parent[i]) < p
  \/ Place(fn, fn.parent[i]) = p /\ Line(fn, i) <= d

(* What lies ahead of block p is queued, in the order of the layout. *)
Queued(p) ==
  /\ Len(workQueue) >= Len(fn.layout) - p
  /\ \A m \in 1 .. Len(fn.layout) - p : workQueue[m] = fn.layout[p + m]

(* The rest of block p is to be visited. *)
InBlock(p, d) ==
  IF p = 0 THEN todo = <<>>
  ELSE /\ Len(todo) = Len(fn.body[fn.layout[p]]) - d
       /\ \A k \in 1 .. Len(todo) : todo[k] = fn.body[fn.layout[p]][d + k]
       /\ Reachable(fn.layout[p])

(* What lies ahead has no claims yet. *)
Unclaimed(p, d) == \A i \in Insts(fn) : Claim(i) # Bottom => Behind(i, p, d)

(* So the pass looks in between. *)
FirstPass(p, d) ==
  /\ p \in 0 .. Len(fn.layout) /\ d \in Nat
  /\ Queued(p) /\ InBlock(p, d) /\ Unclaimed(p, d)
  /\ \A b \in Blocks(fn) : Reachable(b) /\ Place(fn, b) <= p => b \in visited
  /\ \A i \in Insts(fn) : Reachable(fn.parent[i]) /\ Behind(i, p, d) => Settled(i)

(* The pass is over: the queue only repeats what is settled. *)
AllSettled ==
  /\ \A b \in Blocks(fn) : Reachable(b) => b \in visited
  /\ \A i \in Insts(fn) : Reachable(fn.parent[i]) => Settled(i)

(* What does not depend on the progress of the pass. *)
Ordered ==
  /\ AscentInv /\ ReachInv /\ fn \in Functions /\ IsForward(fn)
  /\ Reachable(Entry(fn))

(* The inductive invariant. *)
ForwardInv ==
  /\ Ordered
  /\ AllSettled \/ \E p, d : FirstPass(p, d)
  /\ phase = "analysed" => AllSettled

-----------------------------------------------------------------------------
(* Every block has its place, every instruction its line. *)
LEMMA Places ==
  ASSUME NEW f, IsFunction(f), IsForward(f)
  PROVE  /\ Len(f.layout) \in Nat /\ f.layout \in Seq(Blocks(f))
         /\ \A b \in Blocks(f) : /\ Place(f, b) \in 1 .. Len(f.layout)
                                 /\ f.layout[Place(f, b)] = b
         /\ \A k \in 1 .. Len(f.layout) : /\ f.layout[k] \in Blocks(f)
                                          /\ Place(f, f.layout[k]) = k
<1>1. /\ f.layout \in Seq(Blocks(f)) /\ Len(f.layout) \in Nat
      /\ DOMAIN f.layout = 1 .. Len(f.layout)
      /\ \A k \in 1 .. Len(f.layout) : f.layout[k] \in Blocks(f)
  BY DEF IsFunction
<1>2. \A b \in Blocks(f) : \E k \in DOMAIN f.layout : f.layout[k] = b
  BY DEF IsFunction
<1>3. \A b \in Blocks(f) : Place(f, b) \in DOMAIN f.layout /\ f.layout[Place(f, b)] = b
  BY <1>2 DEF Place
<1>4. \A j, k \in DOMAIN f.layout : f.layout[j] = f.layout[k] => j = k
  BY DEF IsForward
<1> QED
  BY <1>1, <1>3, <1>4

(* Every instruction has its line in the block it belongs to, and every *)
(* line of a block holds one instruction.                               *)
LEMMA Lines ==
  ASSUME NEW f, IsFunction(f), IsForward(f)
  PROVE  /\ \A b \in Blocks(f) : /\ f.body[b] \in Seq(Insts(f))
                                 /\ Len(f.body[b]) \in Nat
         /\ \A i \in Insts(f) : /\ f.parent[i] \in Blocks(f)
                                /\ Line(f, i) \in 1 .. Len(f.body[f.parent[i]])
                                /\ f.body[f.parent[i]][Line(f, i)] = i
         /\ \A b \in Blocks(f) : \A k \in 1 .. Len(f.body[b]) :
              /\ f.body[b][k] \in Insts(f)
              /\ f.parent[f.body[b][k]] = b
              /\ Line(f, f.body[b][k]) = k
<1>1. \A b \in Blocks(f) : /\ f.body[b] \in Seq(Insts(f)) /\ Len(f.body[b]) \in Nat
                           /\ DOMAIN f.body[b] = 1 .. Len(f.body[b])
                           /\ \A k \in 1 .. Len(f.body[b]) : f.body[b][k] \in Insts(f)
  <2>1. \A b \in Blocks(f) : f.body[b] \in Seq(Insts(f))
    BY DEF IsFunction
  <2> QED
    BY <2>1
<1>2. \A i \in Insts(f) : f.parent[i] \in Blocks(f)
  BY DEF IsFunction
<1>3. \A i \in Insts(f) : /\ Line(f, i) \in DOMAIN f.body[f.parent[i]]
                          /\ f.body[f.parent[i]][Line(f, i)] = i
  <2>1. \A i \in Insts(f) : \E k \in DOMAIN f.body[f.parent[i]] :
          f.body[f.parent[i]][k] = i
    BY DEF IsFunction
  <2> QED
    BY <2>1 DEF Line
<1>4. \A b \in Blocks(f) : \A k \in DOMAIN f.body[b] : f.parent[f.body[b][k]] = b
  BY DEF IsFunction
<1>5. \A b \in Blocks(f) : \A j, k \in DOMAIN f.body[b] :
        f.body[b][j] = f.body[b][k] => j = k
  BY DEF IsForward
<1>6. ASSUME NEW b \in Blocks(f), NEW k \in 1 .. Len(f.body[b])
      PROVE  Line(f, f.body[b][k]) = k
  <2>1. f.body[b][k] \in Insts(f) /\ f.parent[f.body[b][k]] = b
    BY <1>1, <1>4
  <2> QED
    BY <1>1, <1>3, <1>5, <2>1
<1> QED
  BY <1>1, <1>2, <1>3, <1>4, <1>6

-----------------------------------------------------------------------------
(* A visit that is not to a branch records, of the visited instruction      *)
(* only, what Revisit says.                                                 *)
Effect ==
  /\ fn' = fn /\ blockTable' = blockTable /\ visited' = visited /\ phase' = phase
  /\ todo' = Tail(todo)
  /\ \E q \in Seq(Blocks(fn)) : workQueue' = workQueue \o q
  /\ \A j \in Insts(fn) \ {inst} : Read(constantTable'[j]) = Claim(j)
  /\ Read(constantTable'[inst]) = Revisit(inst)

(* Claims are what handlers look up. *)
LEMMA ClaimIsElem ==
  ASSUME NEW i
  PROVE  LatticeElem(Ref(i)) = Claim(i)
BY DEF LatticeElem, Ref, Claim, Read

(* What a visit finds of its own instruction is the claim so far. *)
LEMMA OldIsClaim == old = Claim(inst)
BY ClaimIsElem DEF old

(* Looking up changes no claim. *)
LEMMA LookUpKeepsClaims ==
  ASSUME NEW S, NEW i \in Insts(fn)
  PROVE  Read(LookUp(S)[i]) = Claim(i)
BY DEF LookUp, Read, Claim

(* A visit that keeps the table has the effect if the claim is the one that *)
(* the visit would record.                                                  *)
LEMMA KeepEffect ==
  ASSUME AscentInv, NEW ops, Visiting(ops), NEW S, Keep(LookUp(S)),
         Claim(inst) = Revisit(inst)
  PROVE  Effect
<1>1. inst \in Insts(fn)
  BY OldFacts
<1>2. constantTable' = LookUp(S)
  BY DEF Keep
<1>3. \A j \in Insts(fn) : Read(constantTable'[j]) = Claim(j)
  BY <1>2, LookUpKeepsClaims
<1>4. workQueue' = workQueue \o <<>> /\ <<>> \in Seq(Blocks(fn))
  BY DEF Keep, AscentInv, TypeOK
<1> QED
  BY <1>1, <1>3, <1>4 DEF Keep, Effect

(* An insertion has the effect. *)
LEMMA InsertEffect ==
  ASSUME AscentInv, AscentInv', NEW ops, Visiting(ops), NEW S,
         NEW q \in Seq(Blocks(fn)), NEW new, Canonical(new),
         new = Revisit(inst), Insert(LookUp(S), new, q, {})
  PROVE  Effect
<1>1. inst \in Insts(fn)
  BY OldFacts
<1>2. Rank(LookUp(S)[inst]) <= Rank(new)
  BY DEF Insert, AscentInv, NeverDescends
<1>3. /\ constantTable' = [LookUp(S) EXCEPT ![inst] = new]
      /\ workQueue' = workQueue \o q
      /\ blockTable' = [b \in Blocks(fn) |-> blockTable[b]]
      /\ todo' = Tail(todo) /\ fn' = fn /\ phase' = phase /\ visited' = visited
  BY <1>2 DEF Insert
<1>4. blockTable' = blockTable
  BY <1>3 DEF AscentInv, TypeOK
<1>5. LookUp(S) \in [Insts(fn) -> Elements]
  BY LookUpType DEF AscentInv
<1>6. \A j \in Insts(fn) \ {inst} : Read(constantTable'[j]) = Claim(j)
  BY <1>1, <1>3, <1>5, LookUpKeepsClaims
<1>7. Read(constantTable'[inst]) = new
  <2>1. constantTable'[inst] = new
    BY <1>1, <1>3, <1>5
  <2>2. new # Absent
    BY DEF Canonical, Absent, Bottom, Top, Val, Elem
  <2> QED
    BY <2>1, <2>2 DEF Read
<1> QED
  BY <1>3, <1>4, <1>6, <1>7 DEF Effect

(* So has an insertion that queues the successors of the block. *)
LEMMA RaiseEffect ==
  ASSUME AscentInv, AscentInv', NEW ops, Visiting(ops), NEW S,
         NEW new, Canonical(new), new = Revisit(inst), Raise(LookUp(S), new)
  PROVE  Effect
<1>1. PICK q \in CFGSuccessors : Insert(LookUp(S), new, q, {})
  BY DEF Raise
<1>2. q \in Seq(Blocks(fn))
  BY OldFacts, SuccessorsType DEF AscentInv
<1> QED
  BY <1>1, <1>2, InsertEffect

(* An instruction that is no operator is recorded as its result says. *)
LEMMA PlainRevisit ==
  ASSUME NEW i, fn.inst[i].op # "binop"
  PROVE  Revisit(i) = Result(i)
BY DEF Revisit

(* Two elements of the same state, one below the other, are the same. *)
LEMMA SameState ==
  ASSUME NEW d, NEW e, Canonical(d), Canonical(e), Leq(d, e), d.state = e.state
  PROVE  d = e
BY DEF Canonical, Leq, Bottom, Top, Val, Elem

-----------------------------------------------------------------------------
(* The visits one by one. *)
LEMMA MemoryEffect ==
  ASSUME AscentInv, AscentInv', VisitMemory
  PROVE  Effect
<1> DEFINE ops == {"alloca", "call", "gep", "load", "store", "ptrtoint",
                   "inttoptr"}
<1>1. Visiting(ops) /\ MapToTop
  BY DEF VisitMemory, VisitAlloca, VisitCall, VisitGetElementPtr, VisitLoad,
         VisitStore, VisitPtrToInt, VisitIntToPtr, Visiting
<1>2. Result(inst) = Top /\ Canonical(Top) /\ Revisit(inst) = Top
  BY <1>1, OldFacts, PlainRevisit DEF Result, Canonical
<1>3. CASE old = Top
  <2>1. Keep(LookUp({}))
    BY <1>1, <1>3, LookUpNothing DEF MapToTop, AscentInv
  <2> QED
    BY <1>1, <1>2, <1>3, <2>1, OldIsClaim, KeepEffect
<1>4. CASE old # Top
  <2>1. Raise(LookUp({inst}), Top)
    BY <1>1, <1>4 DEF MapToTop
  <2> QED
    BY <1>1, <1>2, <2>1, RaiseEffect
<1> QED
  BY <1>3, <1>4

(* Adding, subtracting and multiplying; the result 0 over no result is the *)
(* case in which the claim stays Bottom.                                   *)
LEMMA BinaryOperatorEffect ==
  ASSUME AscentInv, AscentInv', VisitBinaryOperator
  PROVE  Effect
<1> DEFINE l   == LatticeElem(arg(1))
           r   == LatticeElem(arg(2))
           S   == Operands({1, 2}) \union {inst}
           sum == Calculate(instr.fun, l.value, r.value, IntModulus)
<1>1. Visiting({"binop"})
  BY DEF VisitBinaryOperator
<1>2. instr.fun \in Operators /\ fn.inst[inst].op = "binop"
  BY <1>1, OldFacts DEF AscentInv
<1>3. Result(inst) = Strict(l, r, Val(sum))
  BY <1>1, OldFacts DEF Result, arg
<1>4. Canonical(l) /\ Canonical(r)
  <2>1. IsInst(fn, inst)
    BY <1>1, VisitedInst DEF AscentInv
  <2> QED
    BY <1>1, <2>1, OldFacts DEF IsInst, Arity
<1>5. /\ Canonical(Top) /\ Canonical(Bottom) /\ Canonical(Val(sum))
      /\ Canonical(old) /\ Leq(old, Result(inst)) /\ old = Claim(inst)
  BY <1>1, OldFacts, OldIsClaim DEF Canonical, Val, Elem
<1> HIDE DEF l, r, S, sum
<1>6. ASSUME NEW new, Canonical(new), new = Revisit(inst),
             Raise(LookUp(S), new) \/ (old = new /\ Keep(LookUp(S)))
      PROVE  Effect
  BY <1>1, <1>5, <1>6, KeepEffect, RaiseEffect
<1>7. CASE "top" \in {l.state, r.state}
  <2>1. ShortCircuit(instr.fun, l, r) = {Top}
    BY <1>2 DEF ShortCircuit, Operators
  <2>2. IF Top.state # old.state \/ (Top.state = "value" /\ Top # old)
          THEN Raise(LookUp(S), Top) ELSE Keep(LookUp(S))
    BY <1>7, <2>1 DEF VisitBinaryOperator, l, r, S
  <2>3. Result(inst) = Top
    BY <1>3, <1>7 DEF Strict
  <2>4. Revisit(inst) = Top
    BY <2>3 DEF Revisit, Top, Val, Elem
  <2>5. Raise(LookUp(S), Top) \/ (old = Top /\ Keep(LookUp(S)))
    BY <1>5, <2>2, <2>3, SameState
  <2> QED
    BY <1>5, <1>6, <2>4, <2>5
<1>8. CASE "bottom" \in {l.state, r.state} /\ "top" \notin {l.state, r.state}
  <2>1. IF old.state = "bottom" THEN Keep(LookUp(S)) ELSE Raise(LookUp(S), Bottom)
    BY <1>8 DEF VisitBinaryOperator, l, r, S
  <2>2. Result(inst) = Bottom
    BY <1>3, <1>8 DEF Strict
  <2>3. Revisit(inst) = Bottom
    BY <2>2 DEF Revisit
  <2>4. old = Bottom
    BY <1>5, <2>2 DEF Canonical, Leq, Bottom, Top, Val, Elem
  <2> QED
    BY <1>5, <1>6, <2>1, <2>3, <2>4
<1>9. CASE ~("bottom" \in {l.state, r.state}) /\ ~("top" \in {l.state, r.state})
  <2>1. Arithmetic(instr.fun, l.value, r.value) = {sum}
    BY <1>2 DEF Arithmetic, Operators, sum
  <2>2. IF sum # old.value THEN Raise(LookUp(S), Val(sum)) ELSE Keep(LookUp(S))
    BY <1>9, <2>1 DEF VisitBinaryOperator, l, r, S
  <2>3. Result(inst) = Val(sum)
    BY <1>3, <1>9 DEF Strict
  <2>4. old = Bottom \/ old = Val(sum)
    BY <1>5, <2>3 DEF Canonical, Leq, Bottom, Top, Val, Elem
  <2>5. CASE old = Bottom /\ sum = 0
    <3>1. Revisit(inst) = Bottom
      BY <1>2, <1>5, <2>3, <2>5 DEF Revisit
    <3>2. Keep(LookUp(S))
      BY <2>2, <2>5 DEF Bottom, Elem
    <3> QED
      BY <1>5, <1>6, <2>5, <3>1, <3>2
  <2>6. CASE old = Bottom /\ sum # 0
    <3>1. Revisit(inst) = Val(sum)
      BY <2>3, <2>6 DEF Revisit, Val, Elem
    <3>2. Raise(LookUp(S), Val(sum))
      BY <2>2, <2>6 DEF Bottom, Elem
    <3> QED
      BY <1>5, <1>6, <3>1, <3>2
  <2>7. CASE old = Val(sum)
    <3>1. Revisit(inst) = Val(sum)
      BY <1>5, <2>3, <2>7 DEF Revisit, Bottom, Val, Elem
    <3>2. Keep(LookUp(S))
      BY <2>2, <2>7 DEF Val, Elem
    <3> QED
      BY <1>5, <1>6, <2>7, <3>1, <3>2
  <2> QED
    BY <2>4, <2>5, <2>6, <2>7
<1> QED
  BY <1>7, <1>8, <1>9

(* An element that is the result of an instruction other than an operator. *)
LEMMA ResultEffect ==
  ASSUME AscentInv, AscentInv', NEW ops, Visiting(ops), NEW S, NEW new,
         Canonical(new), new = Result(inst), fn.inst[inst].op # "binop",
         \/ Raise(LookUp(S), new)
         \/ Insert(LookUp(S), new, <<>>, {})
         \/ old.state = new.state /\ Keep(LookUp(S))
  PROVE  Effect
<1>1. new = Revisit(inst) /\ <<>> \in Seq(Blocks(fn))
  BY PlainRevisit
<1>2. CASE old.state = new.state /\ Keep(LookUp(S))
  <2>1. Canonical(old) /\ Leq(old, new) /\ old = Claim(inst)
    BY OldFacts, OldIsClaim
  <2>2. old = new
    BY <1>2, <2>1, SameState
  <2> QED
    BY <1>1, <1>2, <2>1, <2>2, KeepEffect
<1> QED
  BY <1>1, <1>2, RaiseEffect, InsertEffect

(* A comparison whose predicate visitICmpInst knows. *)
LEMMA ICmpEffect ==
  ASSUME AscentInv, AscentInv', IsForward(fn), VisitICmp
  PROVE  Effect
<1> DEFINE l     == LatticeElem(arg(1))
           r     == LatticeElem(arg(2))
           S     == Operands({1, 2}) \union {inst}
           new   == IF "top" \in {l.state, r.state} THEN Top ELSE Bottom
           holds == Val(ToInt(Holds(instr.fun, l.value, r.value)))
<1>1. Visiting({"icmp"})
  BY DEF VisitICmp
<1>2. /\ fn.inst[inst].op = "icmp" /\ instr.fun \in Predicates
      /\ fn.inst[inst].op # "binop"
  BY <1>1, OldFacts DEF IsForward
<1>3. Result(inst) = Strict(l, r, holds)
  BY <1>1, <1>2, OldFacts DEF Result, arg
<1>4. Canonical(l) /\ Canonical(r)
  <2>1. IsInst(fn, inst)
    BY <1>1, VisitedInst DEF AscentInv
  <2> QED
    BY <1>1, <2>1, OldFacts DEF IsInst, Arity
<1>5. Canonical(new) /\ Canonical(holds)
  BY DEF Canonical, Val, Elem
<1>6. CASE {l.state, r.state} # {"value"}
  <2>1. IF old.state = new.state THEN Keep(LookUp(S)) ELSE Raise(LookUp(S), new)
    BY <1>6 DEF VisitICmp
  <2>2. new = Result(inst)
    BY <1>3, <1>4, <1>6 DEF Strict, Canonical, Bottom, Top, Val, Elem
  <2> HIDE DEF new, S
  <2> QED
    BY <1>1, <1>2, <1>5, <2>1, <2>2, ResultEffect
<1>7. CASE {l.state, r.state} = {"value"}
  <2>1. Insert(LookUp(S), holds, <<>>, {})
    BY <1>2, <1>7 DEF VisitICmp
  <2>2. holds = Result(inst)
    BY <1>3, <1>7 DEF Strict
  <2> HIDE DEF holds, S
  <2> QED
    BY <1>1, <1>2, <1>5, <2>1, <2>2, ResultEffect
<1> QED
  BY <1>6, <1>7

(* A cast records what is known of its operand. *)
LEMMA CastEffect ==
  ASSUME AscentInv, AscentInv', VisitCast
  PROVE  Effect
<1> DEFINE new == LatticeElem(arg(1))
<1>1. Visiting({"cast"}) /\ Insert(LookUp(Operands({1})), new, <<>>, {})
  BY DEF VisitCast
<1>2. Canonical(new)
  <2>1. IsInst(fn, inst)
    BY <1>1, VisitedInst DEF AscentInv
  <2> QED
    BY <1>1, <2>1, OldFacts DEF IsInst, Arity
<1>3. new = Result(inst) /\ fn.inst[inst].op # "binop"
  BY <1>1, OldFacts DEF Result, arg
<1> HIDE DEF new
<1> QED
  BY <1>1, <1>2, <1>3, ResultEffect

(* So do extensions and truncations, after conversion. *)
LEMMA ExtOrTruncEffect ==
  ASSUME AscentInv, AscentInv', VisitExtOrTrunc
  PROVE  Effect
<1> DEFINE e   == LatticeElem(arg(1))
           new == Converted(instr, e)
           S   == Operands({1}) \union {inst}
<1>1. Visiting({"zext", "sext", "trunc"})
  BY DEF VisitExtOrTrunc
<1>2. Canonical(e)
  <2>1. IsInst(fn, inst)
    BY <1>1, VisitedInst DEF AscentInv
  <2> QED
    BY <1>1, <2>1, OldFacts DEF IsInst, Arity
<1>3. Canonical(new)
  BY <1>2, LeqReflexive, ConvertedMonotone DEF CanonicalEntry
<1>4. new = Result(inst) /\ fn.inst[inst].op # "binop"
  BY <1>1, OldFacts DEF Result, arg
<1>5. Raise(LookUp(S), new) \/ (old.state = new.state /\ Keep(LookUp(S)))
  BY DEF VisitExtOrTrunc
<1> HIDE DEF new, S
<1> QED
  BY <1>1, <1>3, <1>4, <1>5, ResultEffect

(* A phi is recorded, or else the assertion that it has a value fails. *)
LEMMA PHIEffect ==
  ASSUME AscentInv, AscentInv', VisitPHI, phase' = phase
  PROVE  Effect
<1> DEFINE live  == {k \in DOMAIN instr.args : Reachable(instr.from[k])}
           seen  == {k \in live : \A a \in live : arg(a) = Arg => k < a}
           new   == Join({Incoming(arg(k)) : k \in live})
           S     == Operands(seen) \union {inst}
<1>1. Visiting({"phi"})
  BY DEF VisitPHI
<1>2. new = Result(inst) /\ fn.inst[inst].op # "binop"
  <2>1. instr = fn.inst[inst] /\ instr.op = "phi"
    BY <1>1, OldFacts
  <2>2. Merging(inst) = {Incoming(arg(k)) : k \in live}
    BY <2>1 DEF Merging, arg
  <2>3. Result(inst) = Join(Merging(inst))
    BY <2>1 DEF Result
  <2> QED
    BY <2>1, <2>2, <2>3
<1>3. Canonical(new)
  <2>1. \A k \in live : Canonical(Incoming(arg(k)))
    BY <1>1, VisitedInst, ReadsCanonical DEF AscentInv
  <2> QED
    BY <2>1, JoinIsCanonical
<1>4. phase' # "phi_without_value"
  BY <1>1 DEF Visiting
<1>5. Raise(LookUp(S), new) \/ (old.state = new.state /\ Keep(LookUp(S)))
  BY <1>4 DEF VisitPHI
<1> HIDE DEF new, S
<1> QED
  BY <1>1, <1>2, <1>3, <1>5, ResultEffect

(* A return is recorded as Top. *)
LEMMA ReturnEffect ==
  ASSUME AscentInv, AscentInv', VisitReturn
  PROVE  Effect
<1>1. Visiting({"ret"}) /\ Insert(LookUp({}), Top, <<>>, {})
  BY LookUpNothing DEF VisitReturn, AscentInv
<1>2. Top = Result(inst) /\ Canonical(Top) /\ fn.inst[inst].op # "binop"
  BY <1>1, OldFacts DEF Result, Canonical
<1> QED
  BY <1>1, <1>2, ResultEffect

(* A visit to anything but a branch, unless it dies. *)
PlainVisit ==
  \/ VisitMemory \/ VisitBinaryOperator \/ VisitCast \/ VisitICmp
  \/ VisitExtOrTrunc \/ VisitPHI \/ VisitReturn

(* A visit to anything but a branch has the effect, or the pass is aborted *)
(* by the assertion that a phi has a value.                                *)
LEMMA PlainVisitEffect ==
  ASSUME AscentInv, AscentInv', IsForward(fn), PlainVisit
  PROVE  \/ /\ Effect /\ inst \in Insts(fn)
            /\ fn.inst[inst].op \notin {"br", "condbr"}
            /\ todo # <<>>
         \/ /\ phase' = "phi_without_value"
            /\ UNCHANGED <<fn, blockTable, constantTable, workQueue, todo, visited>>
<1>1. CASE VisitPHI /\ phase' # phase
  <2> DEFINE live  == {k \in DOMAIN instr.args : Reachable(instr.from[k])}
             seen  == {k \in live : \A a \in live : arg(a) = Arg => k < a}
             new   == Join({Incoming(arg(k)) : k \in live})
             table == LookUp(Operands(seen) \union {inst})
  <2>1. ~Keep(table)
    BY <1>1 DEF Keep
  <2>2. ~Raise(table, new)
    <3>1. phase' # "descended"
      BY DEF AscentInv, NeverDescends
    <3> HIDE DEF table, new
    <3> QED
      BY <1>1, <3>1 DEF Raise, Insert
  <2>3. CASE new = Bottom
    BY <1>1, <2>3 DEF VisitPHI
  <2>4. CASE new # Bottom
    <3>1. Keep(table) \/ Raise(table, new)
      BY <1>1, <2>4 DEF VisitPHI
    <3> QED
      BY <2>1, <2>2, <3>1
  <2> QED
    BY <2>3, <2>4
<1>2. CASE ~(VisitPHI /\ phase' # phase)
  <2>1. Effect
    BY <1>2, MemoryEffect, BinaryOperatorEffect, CastEffect, ICmpEffect,
       ExtOrTruncEffect, PHIEffect, ReturnEffect DEF PlainVisit
  <2>2. Visiting({"alloca", "call", "gep", "load", "store", "ptrtoint", "inttoptr",
                  "binop", "cast", "icmp", "zext", "sext", "trunc", "phi", "ret"})
    <3>1. CASE VisitMemory
      BY <3>1 DEF VisitMemory, VisitAlloca, VisitCall, VisitGetElementPtr,
           VisitLoad, VisitStore, VisitPtrToInt, VisitIntToPtr, Visiting
    <3>2. CASE VisitBinaryOperator
      <4>1. Visiting({"binop"})
        BY <3>2 DEF VisitBinaryOperator
      <4> QED
        BY <4>1 DEF Visiting
    <3>3. CASE VisitCast
      BY <3>3 DEF VisitCast, Visiting
    <3>4. CASE VisitICmp
      <4>1. Visiting({"icmp"})
        BY <3>4 DEF VisitICmp
      <4> QED
        BY <4>1 DEF Visiting
    <3>5. CASE VisitExtOrTrunc
      BY <3>5 DEF VisitExtOrTrunc, Visiting
    <3>6. CASE VisitPHI
      <4>1. Visiting({"phi"})
        BY <3>6 DEF VisitPHI
      <4> QED
        BY <4>1 DEF Visiting
    <3>7. CASE VisitReturn
      BY <3>7 DEF VisitReturn, Visiting
    <3> QED
      BY <3>1, <3>2, <3>3, <3>4, <3>5, <3>6, <3>7 DEF PlainVisit
  <2>3. inst \in Insts(fn) /\ instr = fn.inst[inst]
    BY <2>2, OldFacts
  <2> QED
    BY <2>1, <2>2, <2>3 DEF Visiting
<1> QED
  BY <1>1, <1>2

-----------------------------------------------------------------------------
(* What is settled stays settled while the claims of its operands, its own  *)
(* and the edges it merges stay as they are.                                *)
SameOperands(r) ==
  \A k \in DOMAIN r.args : r.args[k].kind = "inst" =>
    Read(constantTable'[r.args[k].id]) = Claim(r.args[k].id)

SameEdges(r) ==
  r.op = "phi" => \A k \in DOMAIN r.args :
    Reachable(r.from[k]) <=> blockTable'[r.from[k]] = "top"

(* What is read of an operand stays if the claim it refers to stays. *)
LEMMA ReadKept ==
  ASSUME NEW o,
         o.kind = "inst" => Read(constantTable'[o.id]) = Claim(o.id)
  PROVE  LatticeElem(o)' = LatticeElem(o) /\ Incoming(o)' = Incoming(o)
<1>1. LatticeElem(o)' = LatticeElem(o)
  BY DEF LatticeElem, Read, Claim
<1> QED
  BY <1>1 DEF Incoming

(* What a visit would compute stays if the claims it reads stay. *)
LEMMA ResultKept ==
  ASSUME TypeOK, fn' = fn, NEW i \in Insts(fn),
         SameOperands(fn.inst[i]), SameEdges(fn.inst[i])
  PROVE  Result(i)' = Result(i)
<1> DEFINE r == fn.inst[i]
           e(k) == LatticeElem(r.args[k])
           f(k) == LatticeElem(r.args[k])'
<1>1. IsInst(fn, i)
  BY DEF TypeOK, IsFunction
<1>2. \A k \in DOMAIN r.args : e(k) = f(k) /\ Incoming(r.args[k])' = Incoming(r.args[k])
  BY ReadKept DEF SameOperands
<1>3. CASE r.op \in {"binop", "icmp"}
  <2>1. 1 \in DOMAIN r.args /\ 2 \in DOMAIN r.args
    BY <1>1, <1>3 DEF IsInst, Arity
  <2>2. e(1) = f(1) /\ e(2) = f(2)
    BY <1>2, <2>1
  <2>3. /\ Result(i) = IF r.op = "binop"
             THEN Strict(e(1), e(2),
                         Val(Calculate(r.fun, e(1).value, e(2).value, IntModulus)))
             ELSE Strict(e(1), e(2),
                    IF r.fun \in Predicates
                      THEN Val(ToInt(Holds(r.fun, e(1).value, e(2).value)))
                      ELSE Top)
        /\ Result(i)' = IF r.op = "binop"
             THEN Strict(f(1), f(2),
                         Val(Calculate(r.fun, f(1).value, f(2).value, IntModulus)))
             ELSE Strict(f(1), f(2),
                    IF r.fun \in Predicates
                      THEN Val(ToInt(Holds(r.fun, f(1).value, f(2).value)))
                      ELSE Top)
    BY <1>3 DEF Result
  <2> HIDE DEF e, f
  <2> QED
    BY <2>2, <2>3
<1>4. CASE r.op \in {"cast", "condbr", "zext", "sext", "trunc"}
  <2>1. 1 \in DOMAIN r.args
    BY <1>1, <1>4 DEF IsInst, Arity
  <2>2. e(1) = f(1)
    BY <1>2, <2>1
  <2>3. /\ Result(i) = IF r.op \in {"cast", "condbr"} THEN e(1) ELSE Converted(r, e(1))
        /\ Result(i)' = IF r.op \in {"cast", "condbr"} THEN f(1) ELSE Converted(r, f(1))
    BY <1>4 DEF Result, Converted
  <2> HIDE DEF e, f
  <2> QED
    BY <2>2, <2>3
<1>5. CASE r.op = "phi"
  <2>1. /\ Merging(i) = {Incoming(r.args[k]) :
                          k \in {k \in DOMAIN r.args : blockTable[r.from[k]] = "top"}}
        /\ Merging(i)' = {Incoming(r.args[k])' :
                          k \in {k \in DOMAIN r.args : blockTable'[r.from[k]] = "top"}}
    BY DEF Merging, Reachable
  <2>2. Merging(i)' = Merging(i)
    BY <1>2, <1>5, <2>1 DEF SameEdges, Reachable
  <2>3. Result(i) = Join(Merging(i)) /\ Result(i)' = Join(Merging(i)')
    BY <1>5 DEF Result, Join
  <2> QED
    BY <2>2, <2>3
<1>6. CASE r.op \notin {"binop", "icmp", "cast", "condbr", "zext", "sext",
                        "trunc", "phi"}
  BY <1>6 DEF Result
<1> QED
  BY <1>3, <1>4, <1>5, <1>6

(* The same of what it would leave in the table. *)
LEMMA RevisitKept ==
  ASSUME TypeOK, fn' = fn, NEW i \in Insts(fn), SameOperands(fn.inst[i]),
         SameEdges(fn.inst[i]), Read(constantTable'[i]) = Claim(i)
  PROVE  Revisit(i)' = Revisit(i)
<1>1. Result(i)' = Result(i)
  BY ResultKept
<1>2. Claim(i)' = Claim(i)
  BY DEF Claim
<1> QED
  BY <1>1, <1>2 DEF Revisit

(* The same of being settled: reachable blocks stay reachable. *)
LEMMA SettledKept ==
  ASSUME TypeOK, fn' = fn, NEW i \in Insts(fn), Settled(i),
         SameOperands(fn.inst[i]), SameEdges(fn.inst[i]),
         Read(constantTable'[i]) = Claim(i),
         \A b \in Blocks(fn) : Reachable(b) => Reachable(b)'
  PROVE  Settled(i)'
<1> DEFINE r == fn.inst[i]
<1>1. IsInst(fn, i)
  BY DEF TypeOK, IsFunction
<1>2. ASSUME r.op \notin {"br", "condbr"} PROVE Claim(i)' = Revisit(i)'
  <2>1. Claim(i)' = Claim(i) /\ Revisit(i)' = Revisit(i)
    BY RevisitKept DEF Claim
  <2> QED
    BY <1>2, <2>1 DEF Settled
<1>3. ASSUME r.op = "br" PROVE Reachable(r.succs[1])'
  <2>1. r.succs[1] \in Blocks(fn)
    BY <1>1, <1>3 DEF IsInst, NumSuccs
  <2> QED
    BY <1>3, <2>1 DEF Settled
<1>4. ASSUME r.op = "condbr" PROVE BranchSettled(r)'
  <2>1. 1 \in DOMAIN r.args /\ r.succs[1] \in Blocks(fn) /\ r.succs[2] \in Blocks(fn)
    BY <1>1, <1>4 DEF IsInst, Arity, NumSuccs
  <2>2. LatticeElem(r.args[1])' = LatticeElem(r.args[1])
    BY <2>1, ReadKept DEF SameOperands
  <2>3. BranchSettled(r)
    BY <1>4 DEF Settled
  <2> QED
    BY <2>1, <2>2, <2>3 DEF BranchSettled
<1> QED
  BY <1>2, <1>3, <1>4 DEF Settled

-----------------------------------------------------------------------------
(* Operands precede their uses: what was visited does not use what is not. *)
LEMMA OperandsPrecede ==
  ASSUME TypeOK, IsForward(fn), NEW i \in Insts(fn),
         NEW k \in DOMAIN fn.inst[i].args, fn.inst[i].args[k].kind = "inst"
  PROVE  /\ fn.inst[i].args[k].id \in Insts(fn) \ {i}
         /\ Precedes(fn, fn.inst[i].args[k].id, i)
<1> DEFINE j == fn.inst[i].args[k].id
<1>1. IsInst(fn, i) /\ IsFunction(fn)
  BY DEF TypeOK, IsFunction
<1>2. j \in Insts(fn)
  BY <1>1 DEF IsInst, IsOperand, Arg, OtherConstant, Insts
<1>3. Precedes(fn, j, i)
  BY DEF IsForward
<1>4. fn.parent[i] \in Blocks(fn) /\ Place(fn, fn.parent[i]) \in Int /\ Line(fn, i) \in Int
  <2>1. fn.parent[i] \in Blocks(fn) /\ Line(fn, i) \in 1 .. Len(fn.body[fn.parent[i]])
    BY <1>1, Lines
  <2>2. Place(fn, fn.parent[i]) \in 1 .. Len(fn.layout)
    BY <1>1, <2>1, Places
  <2> QED
    BY <2>1, <2>2
<1>5. j # i
  BY <1>3, <1>4 DEF Precedes
<1> QED
  BY <1>2, <1>3, <1>5

(* Where the instruction about to be visited stands. *)
LEMMA HeadPosition ==
  ASSUME Ordered, NEW p, NEW d, FirstPass(p, d), todo # <<>>
  PROVE  /\ p \in 1 .. Len(fn.layout) /\ d \in Nat
         /\ inst \in Insts(fn) /\ Reachable(fn.parent[inst])
         /\ fn.parent[inst] = fn.layout[p]
         /\ Place(fn, fn.parent[inst]) = p /\ Line(fn, inst) = d + 1
<1>1. IsFunction(fn) /\ IsForward(fn) /\ todo \in Seq(Insts(fn))
  BY DEF Ordered, AscentInv, TypeOK
<1>2. Len(fn.layout) \in Nat
  BY <1>1, Places
<1>3. p \in 1 .. Len(fn.layout) /\ d \in Nat
  BY <1>2 DEF FirstPass, InBlock
<1> DEFINE b == fn.layout[p]
<1>4. b \in Blocks(fn) /\ Place(fn, b) = p
  BY <1>1, <1>3, Places
<1>5. fn.body[b] \in Seq(Insts(fn)) /\ Len(fn.body[b]) \in Nat
  BY <1>1, <1>4, Lines
<1>6. /\ Len(todo) = Len(fn.body[b]) - d
      /\ \A k \in 1 .. Len(todo) : todo[k] = fn.body[b][d + k]
      /\ Reachable(b)
  BY <1>3 DEF FirstPass, InBlock
<1> HIDE DEF b
<1>7. Len(todo) \in Nat \ {0} /\ inst = todo[1]
  BY <1>1 DEF inst
<1>8. inst = fn.body[b][d + 1] /\ d + 1 \in 1 .. Len(fn.body[b])
  BY <1>3, <1>5, <1>6, <1>7
<1>9. inst \in Insts(fn) /\ fn.parent[inst] = b /\ Line(fn, inst) = d + 1
  BY <1>1, <1>4, <1>8, Lines
<1> QED
  BY <1>3, <1>4, <1>6, <1>9 DEF b

(* The visited instruction is next after those behind the pass. *)
LEMMA BehindNext ==
  ASSUME Ordered, NEW p, NEW d, FirstPass(p, d), todo # <<>>,
         NEW i \in Insts(fn), Behind(i, p, d + 1)
  PROVE  /\ i = inst \/ Behind(i, p, d)
         /\ \A k \in DOMAIN fn.inst[i].args : fn.inst[i].args[k].kind = "inst" =>
              fn.inst[i].args[k].id \in Insts(fn) \ {inst}
         /\ Place(fn, fn.parent[i]) <= p
<1>1. IsFunction(fn) /\ IsForward(fn) /\ TypeOK
  BY DEF Ordered, AscentInv, TypeOK
<1>2. /\ p \in Int /\ d \in Int
      /\ inst \in Insts(fn) /\ fn.parent[inst] = fn.layout[p]
      /\ Place(fn, fn.parent[inst]) = p /\ Line(fn, inst) = d + 1
  BY HeadPosition
<1>3. \A j \in Insts(fn) :
        /\ Place(fn, fn.parent[j]) \in Int /\ Line(fn, j) \in Int
        /\ fn.layout[Place(fn, fn.parent[j])] = fn.parent[j]
        /\ fn.body[fn.parent[j]][Line(fn, j)] = j
  <2>1. ASSUME NEW j \in Insts(fn)
        PROVE  /\ Line(fn, j) \in 1 .. Len(fn.body[fn.parent[j]])
               /\ fn.parent[j] \in Blocks(fn)
               /\ fn.body[fn.parent[j]][Line(fn, j)] = j
    BY <1>1, Lines
  <2>2. ASSUME NEW j \in Insts(fn)
        PROVE  /\ Place(fn, fn.parent[j]) \in 1 .. Len(fn.layout)
               /\ fn.layout[Place(fn, fn.parent[j])] = fn.parent[j]
    BY <1>1, <2>1, Places
  <2> QED
    BY <2>1, <2>2
<1>4. i = inst \/ Behind(i, p, d)
  <2>1. Line(fn, i) = d + 1 /\ Place(fn, fn.parent[i]) = p => i = inst
    BY <1>2, <1>3
  <2> QED
    BY <1>2, <1>3, <2>1 DEF Behind
<1>5. ASSUME NEW k \in DOMAIN fn.inst[i].args, fn.inst[i].args[k].kind = "inst"
      PROVE  fn.inst[i].args[k].id \in Insts(fn) \ {inst}
  <2>1. /\ fn.inst[i].args[k].id \in Insts(fn)
        /\ Precedes(fn, fn.inst[i].args[k].id, i)
    BY <1>1, <1>5, OperandsPrecede
  <2>2. ~Precedes(fn, inst, i)
    BY <1>2, <1>3 DEF Precedes, Behind
  <2> QED
    BY <2>1, <2>2
<1>6. Place(fn, fn.parent[i]) <= p
  BY <1>2, <1>3 DEF Behind
<1> QED
  BY <1>4, <1>5, <1>6

(* What every visit does that does not die. *)
VisitEffect ==
  /\ fn' = fn /\ visited' = visited /\ phase' = phase
  /\ todo' = Tail(todo)
  /\ \E q \in Seq(Blocks(fn)) : workQueue' = workQueue \o q
  /\ \A j \in Insts(fn) \ {inst} : Read(constantTable'[j]) = Claim(j)
  /\ \A b \in Blocks(fn) : Reachable(b) => Reachable(b)'
  /\ \A b \in Blocks(fn) :
       Reachable(b)' => Reachable(b) \/ b \in Succs(fn, fn.parent[inst])
  /\ \A j \in Insts(fn) : j = inst => Settled(j)'

(* The predecessors of a block lie before it. *)
LEMMA EdgesForward ==
  ASSUME TypeOK, IsForward(fn), NEW i \in Insts(fn), fn.inst[i].op = "phi",
         NEW k \in DOMAIN fn.inst[i].args
  PROVE  /\ fn.inst[i].from[k] \in Blocks(fn)
         /\ Place(fn, fn.inst[i].from[k]) < Place(fn, fn.parent[i])
<1>1. IsInst(fn, i)
  BY DEF TypeOK, IsFunction
<1>2. fn.inst[i].from[k] \in Preds(fn, fn.parent[i])
  BY <1>1 DEF IsInst
<1> QED
  BY <1>2 DEF Preds, IsForward

(* A visit advances the pass by one instruction. *)
LEMMA PassAdvances ==
  ASSUME Ordered, NEW p, NEW d, FirstPass(p, d), todo # <<>>, VisitEffect
  PROVE  FirstPass(p, d + 1)'
<1>1. IsFunction(fn) /\ IsForward(fn) /\ TypeOK
  BY DEF Ordered, AscentInv, TypeOK
<1>2. /\ p \in 1 .. Len(fn.layout) /\ d \in Nat
      /\ inst \in Insts(fn) /\ fn.parent[inst] = fn.layout[p]
      /\ Place(fn, fn.parent[inst]) = p /\ Line(fn, inst) = d + 1
      /\ Reachable(fn.layout[p]) /\ fn.layout[p] \in Blocks(fn)
      /\ Len(fn.layout) \in Nat /\ Len(fn.body[fn.layout[p]]) \in Nat
  <2>1. p \in 1 .. Len(fn.layout)
    BY HeadPosition
  <2>2. fn.layout[p] \in Blocks(fn) /\ Len(fn.layout) \in Nat
    BY <1>1, <2>1, Places
  <2>3. Len(fn.body[fn.layout[p]]) \in Nat
    BY <1>1, <2>2, Lines
  <2> QED
    BY <2>1, <2>2, <2>3, HeadPosition
<1>3. /\ fn' = fn /\ visited' = visited /\ todo' = Tail(todo)
      /\ \A b \in Blocks(fn) : Reachable(b) => Reachable(b)'
  BY DEF VisitEffect
<1>4. ASSUME NEW b \in Blocks(fn), Reachable(b)', Place(fn, b) <= p
      PROVE  Reachable(b)
  <2>1. Place(fn, b) \in 1 .. Len(fn.layout)
    BY <1>1, Places
  <2>2. b \notin Succs(fn, fn.parent[inst])
    <3>1. b \in Succs(fn, fn.layout[p]) => Place(fn, fn.layout[p]) < Place(fn, b)
      BY <1>1, <1>2 DEF IsForward
    <3> QED
      BY <1>2, <1>4, <2>1, <3>1
  <2> QED
    BY <1>4, <2>2 DEF VisitEffect
<1>5. Queued(p)'
  <2>1. PICK q \in Seq(Blocks(fn)) : workQueue' = workQueue \o q
    BY DEF VisitEffect
  <2>2. workQueue \in Seq(Blocks(fn)) /\ Queued(p)
    BY <1>1 DEF TypeOK, FirstPass
  <2>3. /\ Len(workQueue') = Len(workQueue) + Len(q)
        /\ \A m \in 1 .. Len(workQueue) : workQueue'[m] = workQueue[m]
        /\ Len(q) \in Nat /\ Len(workQueue) \in Nat
    BY <2>1, <2>2
  <2>4. /\ Len(workQueue) >= Len(fn.layout) - p
        /\ \A m \in 1 .. Len(fn.layout) - p : workQueue[m] = fn.layout[p + m]
    BY <2>2 DEF Queued
  <2>5. Len(workQueue') >= Len(fn.layout) - p
    BY <1>2, <2>3, <2>4
  <2>6. \A m \in 1 .. Len(fn.layout) - p : workQueue'[m] = fn.layout[p + m]
    BY <1>2, <2>3, <2>4
  <2> QED
    BY <1>3, <2>5, <2>6 DEF Queued
<1>6. InBlock(p, d + 1)'
  <2> DEFINE body == fn.body[fn.layout[p]]
  <2>1. /\ Len(todo) = Len(body) - d
        /\ \A k \in 1 .. Len(todo) : todo[k] = body[d + k]
    BY <1>2 DEF FirstPass, InBlock
  <2>2. todo \in Seq(Insts(fn)) /\ todo # <<>> /\ Len(body) \in Nat
    BY <1>1, <1>2 DEF TypeOK
  <2>3. /\ Len(todo') = Len(todo) - 1
        /\ \A k \in 1 .. Len(todo') : todo'[k] = todo[k + 1]
        /\ Len(todo) \in Nat
    BY <1>3, <2>2
  <2> HIDE DEF body
  <2>4. /\ Len(todo') = Len(body) - (d + 1)
        /\ \A k \in 1 .. Len(todo') : todo'[k] = body[(d + 1) + k]
    <3>1. d \in Nat /\ Len(todo') = Len(body) - (d + 1)
      BY <1>2, <2>1, <2>2, <2>3
    <3>2. ASSUME NEW k \in 1 .. Len(todo') PROVE todo'[k] = body[(d + 1) + k]
      <4>1. k + 1 \in 1 .. Len(todo) /\ d + (k + 1) = (d + 1) + k
        BY <2>3, <3>1, <3>2
      <4>2. todo'[k] = todo[k + 1]
        BY <2>3, <3>2
      <4>3. todo[k + 1] = body[d + (k + 1)]
        BY <2>1, <4>1
      <4> QED
        BY <4>1, <4>2, <4>3
    <3> QED
      BY <3>1, <3>2
  <2>5. Reachable(fn.layout[p])'
    BY <1>2, <1>3
  <2>6. fn'.body[fn'.layout[p]] = body /\ p # 0
    BY <1>2, <1>3 DEF body
  <2> QED
    BY <2>4, <2>5, <2>6 DEF InBlock
<1>7. \A b \in Blocks(fn) : Reachable(b)' /\ Place(fn, b) <= p => b \in visited'
  BY <1>3, <1>4 DEF FirstPass
<1>8. ASSUME NEW i \in Insts(fn), Reachable(fn.parent[i])', Behind(i, p, d + 1)
      PROVE  Settled(i)'
  <2>1. CASE i = inst
    BY <2>1 DEF VisitEffect
  <2>2. CASE i # inst
    <3>1. Behind(i, p, d) /\ SameOperands(fn.inst[i])
      BY <1>8, <2>2, BehindNext DEF VisitEffect, SameOperands
    <3>2. fn.parent[i] \in Blocks(fn) /\ Place(fn, fn.parent[i]) <= p
      BY <1>1, <1>8, BehindNext, Lines
    <3>3. Settled(i)
      <4>1. Reachable(fn.parent[i])
        BY <1>3, <1>4, <1>8, <3>2 DEF Reachable
      <4> QED
        BY <3>1, <4>1 DEF FirstPass
    <3>4. SameEdges(fn.inst[i])
      <4>1. ASSUME fn.inst[i].op = "phi", NEW k \in DOMAIN fn.inst[i].args
            PROVE  Reachable(fn.inst[i].from[k])
                     <=> blockTable'[fn.inst[i].from[k]] = "top"
        <5>1. /\ fn.inst[i].from[k] \in Blocks(fn)
              /\ Place(fn, fn.inst[i].from[k]) < Place(fn, fn.parent[i])
          BY <1>1, <4>1, EdgesForward
        <5>2. Place(fn, fn.inst[i].from[k]) \in Int /\ Place(fn, fn.parent[i]) \in Int
          BY <1>1, <3>2, <5>1, Places
        <5> QED
          BY <1>2, <1>3, <1>4, <3>2, <5>1, <5>2 DEF Reachable
      <4> QED
        BY <4>1 DEF SameEdges
    <3>5. Read(constantTable'[i]) = Claim(i)
      BY <2>2 DEF VisitEffect
    <3> QED
      BY <1>1, <1>3, <3>1, <3>3, <3>4, <3>5, SettledKept
  <2> QED
    BY <2>1, <2>2
<1>9. Unclaimed(p, d + 1)'
  <2>1. ASSUME NEW i \in Insts(fn), Claim(i)' # Bottom PROVE Behind(i, p, d + 1)
    <3>1. CASE i = inst
      BY <1>2, <3>1 DEF Behind
    <3>2. CASE i # inst
      <4>1. Claim(i) # Bottom
        BY <2>1, <3>2 DEF VisitEffect, Claim
      <4>2. Behind(i, p, d) /\ Line(fn, i) \in Nat
        BY <1>1, <4>1, Lines DEF FirstPass, Unclaimed
      <4> QED
        BY <1>2, <4>2 DEF Behind
    <3> QED
      BY <3>1, <3>2
  <2> QED
    BY <1>3, <2>1 DEF Unclaimed, Behind
<1> QED
  BY <1>2, <1>3, <1>5, <1>6, <1>7, <1>8, <1>9 DEF FirstPass, Behind

-----------------------------------------------------------------------------
(* A visit to anything but a branch settles the instruction. *)
LEMMA PlainSettles ==
  ASSUME Ordered, inst \in Insts(fn), Effect,
         fn.inst[inst].op \notin {"br", "condbr"}
  PROVE  VisitEffect
<1>1. IsForward(fn) /\ TypeOK
  BY DEF Ordered, AscentInv
<1>2. /\ fn' = fn /\ blockTable' = blockTable
      /\ \A j \in Insts(fn) \ {inst} : Read(constantTable'[j]) = Claim(j)
      /\ Read(constantTable'[inst]) = Revisit(inst)
  BY DEF Effect
<1>3. SameOperands(fn.inst[inst]) /\ SameEdges(fn.inst[inst])
  BY <1>1, <1>2, OperandsPrecede DEF SameOperands, SameEdges, Reachable
<1>4. ASSUME NEW i \in Insts(fn), i = inst PROVE Settled(i)'
  <2>1. Result(i)' = Result(i)
    BY <1>1, <1>2, <1>3, <1>4, ResultKept
  <2>2. Claim(i)' = Revisit(i)
    BY <1>2, <1>4 DEF Claim
  <2>3. Revisit(i)' = Revisit(i)
    BY <1>2, <2>1, <2>2 DEF Revisit, Val, Bottom, Elem
  <2> QED
    BY <1>2, <1>4, <2>2, <2>3 DEF Settled
<1> QED
  BY <1>2, <1>4 DEF Effect, VisitEffect, Reachable

(* So does a visit to a branch. *)
LEMMA BrSettles ==
  ASSUME Ordered, VisitBr
  PROVE  VisitEffect
<1>1. Visiting({"br"}) /\ TypeOK
  BY DEF VisitBr, Ordered, AscentInv
<1>2. /\ inst \in Insts(fn) /\ instr = fn.inst[inst] /\ instr.op = "br"
      /\ instr.succs[1] \in Succs(fn, fn.parent[inst])
  <2>1. 1 \in 1 .. NumSuccs["br"]
    BY DEF NumSuccs
  <2> QED
    BY <1>1, <2>1, VisitedInst, BranchSuccs
<1>3. instr.succs[1] \in Blocks(fn)
  <2>1. IsInst(fn, inst)
    BY <1>1, VisitedInst
  <2> QED
    BY <1>2, <2>1 DEF IsInst, NumSuccs
<1>4. /\ fn' = fn /\ visited' = visited /\ phase' = phase /\ todo' = Tail(todo)
      /\ constantTable' = constantTable
      /\ blockTable' = [blockTable EXCEPT ![instr.succs[1]] = "top"]
  BY DEF VisitBr
<1>5. \E q \in Seq(Blocks(fn)) : workQueue' = workQueue \o q
  BY <1>1, <1>2, SuccessorsType DEF VisitBr
<1>6. /\ \A b \in Blocks(fn) : Reachable(b) => blockTable'[b] = "top"
      /\ \A b \in Blocks(fn) : blockTable'[b] = "top" =>
           Reachable(b) \/ b = instr.succs[1]
      /\ blockTable'[instr.succs[1]] = "top"
  BY <1>1, <1>3, <1>4 DEF TypeOK, Reachable
<1>7. ASSUME NEW i \in Insts(fn), i = inst PROVE Settled(i)'
  BY <1>2, <1>4, <1>6, <1>7 DEF Settled, Reachable
<1> QED
  BY <1>2, <1>4, <1>5, <1>6, <1>7 DEF VisitEffect, Reachable, Claim

(* A conditional branch is settled by its visit: the target it chooses, or *)
(* both, are reachable.                                                    *)
LEMMA CondBrSettles ==
  ASSUME Ordered, AscentInv', VisitCondBr
  PROVE  VisitEffect
<1> DEFINE cond == LatticeElem(arg(1))
           S    == Operands({1})
           t    == instr.succs[1]
           e    == instr.succs[2]
<1>1. Visiting({"condbr"}) /\ TypeOK /\ IsForward(fn)
  BY DEF VisitCondBr, Ordered, AscentInv
<1>2. /\ inst \in Insts(fn) /\ instr = fn.inst[inst] /\ instr.op = "condbr"
      /\ 1 \in DOMAIN instr.args
      /\ t \in Succs(fn, fn.parent[inst]) /\ e \in Succs(fn, fn.parent[inst])
      /\ t \in Blocks(fn) /\ e \in Blocks(fn)
  <2>1. 1 \in 1 .. NumSuccs["condbr"] /\ 2 \in 1 .. NumSuccs["condbr"]
    BY DEF NumSuccs
  <2>2. IsInst(fn, inst) /\ instr = fn.inst[inst] /\ instr.op = "condbr"
    BY <1>1, VisitedInst
  <2>3. 1 \in DOMAIN instr.args /\ t \in Blocks(fn) /\ e \in Blocks(fn)
    BY <2>2 DEF IsInst, NumSuccs, Arity
  <2>4. t \in Succs(fn, fn.parent[inst]) /\ e \in Succs(fn, fn.parent[inst])
    BY <1>1, <2>1, <2>2, BranchSuccs
  <2> QED
    BY <1>1, <2>2, <2>3, <2>4, VisitedInst
<1>3. Taken(cond) = IF cond.value = 0 THEN e ELSE t
  BY DEF Taken
<1> HIDE DEF t, e
<1>4. ASSUME NEW M \in SUBSET {t, e}, NEW q \in Seq(Blocks(fn)),
             fn' = fn, visited' = visited, phase' = phase, todo' = Tail(todo),
             workQueue' = workQueue \o q,
             \A b \in Blocks(fn) : blockTable'[b] = "top" <=> Reachable(b) \/ b \in M,
             \A j \in Insts(fn) \ {inst} : Read(constantTable'[j]) = Claim(j),
             IF cond.state = "value" THEN blockTable'[Taken(cond)] = "top"
                                     ELSE M = {t, e}
      PROVE  VisitEffect
  <2>1. ASSUME NEW i \in Insts(fn), i = inst PROVE Settled(i)'
    <3>1. LatticeElem(fn.inst[i].args[1])' = cond
      <4>1. fn.inst[i].args[1].kind = "inst" =>
              fn.inst[i].args[1].id \in Insts(fn) \ {i}
        BY <1>1, <1>2, <2>1, OperandsPrecede
      <4>2. fn.inst[i].args[1].kind = "inst" =>
              Read(constantTable'[fn.inst[i].args[1].id]) = Claim(fn.inst[i].args[1].id)
        BY <1>4, <2>1, <4>1
      <4>3. LatticeElem(fn.inst[i].args[1])' = LatticeElem(fn.inst[i].args[1])
        BY <1>4, <4>2, ReadKept
      <4> QED
        BY <1>2, <2>1, <4>3 DEF arg
    <3>2. fn.inst[i].succs[1] = t /\ fn.inst[i].succs[2] = e /\ fn.inst[i].op = "condbr"
      BY <1>2, <2>1 DEF t, e
    <3> HIDE DEF cond
    <3>3. BranchSettled(fn.inst[i])' =
            IF cond.state = "value"
              THEN blockTable'[IF cond.value = 0 THEN e ELSE t] = "top"
              ELSE blockTable'[t] = "top" /\ blockTable'[e] = "top"
      BY <1>4, <3>1, <3>2 DEF BranchSettled, Reachable
    <3>4. BranchSettled(fn.inst[i])'
      BY <1>2, <1>3, <1>4, <3>3
    <3> QED
      BY <1>4, <3>2, <3>4 DEF Settled
  <2> QED
    BY <1>2, <1>4, <2>1 DEF VisitEffect, Reachable
<1>5. LookUp(S) \in [Insts(fn) -> Elements]
  BY <1>1, LookUpType
<1>6. \A j \in Insts(fn) : Read(LookUp(S)[j]) = Claim(j)
  BY LookUpKeepsClaims
<1> HIDE DEF cond, S
<1>7. CASE cond.state # "value"
  <2>1. /\ constantTable' = LookUp(S)
        /\ blockTable' = [b \in Blocks(fn) |->
                            IF b \in {t, e} THEN "top" ELSE blockTable[b]]
        /\ workQueue' = workQueue \o <<t, e>>
        /\ todo' = Tail(todo) /\ fn' = fn /\ phase' = phase /\ visited' = visited
    BY <1>7 DEF VisitCondBr, cond, S, t, e
  <2>2. <<t, e>> \in Seq(Blocks(fn))
    BY <1>2
  <2> QED
    BY <1>4, <1>6, <1>7, <2>1, <2>2 DEF Reachable
<1>8. CASE cond.state = "value" /\ Reachable(Taken(cond))
  <2>1. Keep(LookUp(S))
    BY <1>8 DEF VisitCondBr, cond, S
  <2>2. /\ constantTable' = LookUp(S) /\ blockTable' = blockTable
        /\ todo' = Tail(todo) /\ fn' = fn /\ phase' = phase /\ visited' = visited
        /\ workQueue' = workQueue \o <<>>
    BY <1>1, <2>1 DEF Keep, TypeOK
  <2>3. /\ {} \in SUBSET {t, e} /\ <<>> \in Seq(Blocks(fn))
        /\ \A b \in Blocks(fn) : blockTable'[b] = "top" <=> Reachable(b) \/ b \in {}
        /\ \A j \in Insts(fn) \ {inst} : Read(constantTable'[j]) = Claim(j)
        /\ blockTable'[Taken(cond)] = "top"
    BY <1>6, <1>8, <2>2 DEF Reachable
  <2> QED
    BY <1>4, <1>8, <2>2, <2>3
<1>9. CASE cond.state = "value" /\ ~Reachable(Taken(cond))
  <2>1. Insert(LookUp(S), cond, <<Taken(cond)>>, {Taken(cond)})
    BY <1>9 DEF VisitCondBr, cond, S
  <2>2. phase' # "descended"
    BY DEF AscentInv, NeverDescends
  <2>3. /\ constantTable' = [LookUp(S) EXCEPT ![inst] = cond]
        /\ workQueue' = workQueue \o <<Taken(cond)>>
        /\ blockTable' = [b \in Blocks(fn) |->
                            IF b \in {Taken(cond)} THEN "top" ELSE blockTable[b]]
        /\ todo' = Tail(todo) /\ fn' = fn /\ phase' = phase /\ visited' = visited
    BY <2>1, <2>2 DEF Insert
  <2>4. \A j \in Insts(fn) \ {inst} : Read(constantTable'[j]) = Claim(j)
    BY <1>5, <1>6, <2>3
  <2>5. Taken(cond) \in {t, e} /\ {Taken(cond)} \in SUBSET {t, e}
        /\ <<Taken(cond)>> \in Seq(Blocks(fn)) /\ Taken(cond) \in Blocks(fn)
    BY <1>2, <1>3
  <2> QED
    BY <1>4, <1>9, <2>3, <2>4, <2>5 DEF Reachable
<1> QED
  BY <1>7, <1>8, <1>9

-----------------------------------------------------------------------------
(* When everything is settled, a step that changes no claim and marks no    *)
(* block leaves everything settled.                                         *)
LEMMA QuietSettled ==
  ASSUME TypeOK, AllSettled, fn' = fn, blockTable' = blockTable,
         visited \subseteq visited',
         \A j \in Insts(fn) : Read(constantTable'[j]) = Claim(j)
  PROVE  AllSettled'
<1>1. ASSUME NEW i \in Insts(fn), Reachable(fn.parent[i])' PROVE Settled(i)'
  <2>1. IsInst(fn, i)
    BY DEF TypeOK, IsFunction
  <2>2. ASSUME NEW k \in DOMAIN fn.inst[i].args, fn.inst[i].args[k].kind = "inst"
        PROVE  fn.inst[i].args[k].id \in Insts(fn)
    BY <2>1, <2>2 DEF IsInst, IsOperand, Arg, OtherConstant, Insts
  <2>3. SameOperands(fn.inst[i]) /\ SameEdges(fn.inst[i])
    BY <2>2 DEF SameOperands, SameEdges, Reachable
  <2>4. Settled(i)
    BY <1>1 DEF AllSettled, Reachable
  <2> QED
    BY <2>3, <2>4, SettledKept DEF Reachable
<1>2. \A b \in Blocks(fn) : Reachable(b)' => b \in visited'
  BY DEF AllSettled, Reachable
<1> QED
  BY <1>1, <1>2 DEF AllSettled

(* The visited instruction lies in a reachable block. *)
LEMMA VisitedReachable ==
  ASSUME Ordered, todo # <<>>
  PROVE  inst \in Insts(fn) /\ Reachable(fn.parent[inst])
<1>1. todo \in Seq(Insts(fn)) /\ TodoReachable
  BY DEF Ordered, AscentInv, TypeOK, ReachInv
<1>2. 1 \in DOMAIN todo /\ inst = todo[1]
  BY <1>1 DEF inst
<1> QED
  BY <1>1, <1>2 DEF TodoReachable

(* A visit to what is settled changes no claim and marks no block. *)
LEMMA PlainIsQuiet ==
  ASSUME Ordered, AllSettled, todo # <<>>, Effect,
         fn.inst[inst].op \notin {"br", "condbr"}
  PROVE  AllSettled'
<1>1. inst \in Insts(fn) /\ Reachable(fn.parent[inst])
  BY VisitedReachable
<1>2. Claim(inst) = Revisit(inst)
  BY <1>1 DEF AllSettled, Settled
<1>3. \A j \in Insts(fn) : Read(constantTable'[j]) = Claim(j)
  BY <1>2 DEF Effect
<1> QED
  BY <1>3, QuietSettled DEF Effect, Ordered, AscentInv

(* A second visit to a settled branch changes nothing but the queue. *)
LEMMA BrIsQuiet ==
  ASSUME Ordered, AllSettled, VisitBr
  PROVE  AllSettled'
<1>1. Visiting({"br"}) /\ TypeOK
  BY DEF VisitBr, Ordered, AscentInv
<1>2. inst \in Insts(fn) /\ instr = fn.inst[inst] /\ instr.op = "br"
  BY <1>1, VisitedInst
<1>3. Reachable(fn.parent[inst])
  BY <1>1, VisitedReachable DEF Visiting
<1>4. Reachable(instr.succs[1])
  BY <1>2, <1>3 DEF AllSettled, Settled
<1>5. blockTable' = blockTable
  BY <1>1, <1>4 DEF VisitBr, TypeOK, Reachable
<1>6. \A j \in Insts(fn) : Read(constantTable'[j]) = Claim(j)
  BY DEF VisitBr, Claim
<1> QED
  BY <1>1, <1>5, <1>6, QuietSettled DEF VisitBr

(* The same of a settled conditional branch. *)
LEMMA CondBrIsQuiet ==
  ASSUME Ordered, AllSettled, VisitCondBr
  PROVE  AllSettled'
<1> DEFINE cond == LatticeElem(arg(1))
           S    == Operands({1})
<1>1. Visiting({"condbr"}) /\ TypeOK
  BY DEF VisitCondBr, Ordered, AscentInv
<1>2. inst \in Insts(fn) /\ instr = fn.inst[inst] /\ instr.op = "condbr"
  BY <1>1, VisitedInst
<1>3. Reachable(fn.parent[inst])
  BY <1>1, VisitedReachable DEF Visiting
<1>4. BranchSettled(instr)
  BY <1>2, <1>3 DEF AllSettled, Settled
<1>5. /\ cond.state = "value" => Reachable(Taken(cond))
      /\ cond.state # "value" => Reachable(instr.succs[1]) /\ Reachable(instr.succs[2])
  BY <1>4 DEF BranchSettled, Taken, arg
<1>6. \A j \in Insts(fn) : Read(LookUp(S)[j]) = Claim(j)
  BY LookUpKeepsClaims
<1>7. constantTable' = LookUp(S) /\ blockTable' = blockTable /\ fn' = fn
      /\ visited' = visited
  <2>1. CASE cond.state = "value"
    <3>1. Keep(LookUp(S))
      BY <1>5, <2>1 DEF VisitCondBr
    <3> QED
      BY <3>1 DEF Keep
  <2>2. CASE cond.state # "value"
    <3>1. /\ constantTable' = LookUp(S) /\ fn' = fn /\ visited' = visited
          /\ blockTable' = [b \in Blocks(fn) |->
                              IF b \in {instr.succs[1], instr.succs[2]}
                                THEN "top" ELSE blockTable[b]]
      BY <2>2 DEF VisitCondBr
    <3>2. \A b \in Blocks(fn) : blockTable'[b] = blockTable[b]
      BY <1>5, <2>2, <3>1 DEF Reachable
    <3> QED
      BY <1>1, <3>1, <3>2 DEF TypeOK
  <2> QED
    BY <2>1, <2>2
<1> QED
  BY <1>1, <1>6, <1>7, QuietSettled

-----------------------------------------------------------------------------
(* At the end of a block all instructions up to there are settled. *)
LEMMA BlockDone ==
  ASSUME Ordered, NEW p, NEW d, FirstPass(p, d), todo = <<>>,
         NEW i \in Insts(fn), Reachable(fn.parent[i]), Place(fn, fn.parent[i]) <= p
  PROVE  Settled(i)
<1>1. IsFunction(fn) /\ IsForward(fn)
  BY DEF Ordered, AscentInv, TypeOK
<1>2. fn.parent[i] \in Blocks(fn) /\ Line(fn, i) \in 1 .. Len(fn.body[fn.parent[i]])
      /\ Len(fn.body[fn.parent[i]]) \in Nat
  BY <1>1, Lines
<1>3. /\ Place(fn, fn.parent[i]) \in 1 .. Len(fn.layout) /\ Len(fn.layout) \in Nat
      /\ fn.layout[Place(fn, fn.parent[i])] = fn.parent[i]
  BY <1>1, <1>2, Places
<1>4. p \in 0 .. Len(fn.layout) /\ d \in Nat
  BY DEF FirstPass
<1>5. CASE Place(fn, fn.parent[i]) < p
  BY <1>5 DEF FirstPass, Behind
<1>6. CASE Place(fn, fn.parent[i]) = p
  <2>1. p # 0 /\ Len(todo) = 0
    BY <1>3, <1>6
  <2>2. 0 = Len(fn.body[fn.layout[p]]) - d
    BY <2>1 DEF FirstPass, InBlock
  <2>3. fn.layout[p] = fn.parent[i]
    BY <1>3, <1>6
  <2>4. Line(fn, i) <= d
    BY <1>2, <1>4, <2>2, <2>3
  <2> QED
    BY <1>6, <2>4 DEF FirstPass, Behind
<1> QED
  BY <1>3, <1>4, <1>5, <1>6

(* When the queue offers nothing more of the layout, everything is settled. *)
LEMMA PassOver ==
  ASSUME Ordered, NEW p, NEW d, FirstPass(p, d), todo = <<>>,
         \A m \in 1 .. Len(fn.layout) - p : ~Reachable(workQueue[m])
  PROVE  AllSettled
<1>1. IsFunction(fn) /\ IsForward(fn)
  BY DEF Ordered, AscentInv, TypeOK
<1>2. ASSUME NEW b \in Blocks(fn), Reachable(b) PROVE Place(fn, b) <= p
  <2> SUFFICES ASSUME Place(fn, b) > p PROVE FALSE
    <3>1. Place(fn, b) \in 1 .. Len(fn.layout) /\ Len(fn.layout) \in Nat
      BY <1>1, Places
    <3>2. p \in 0 .. Len(fn.layout)
      BY DEF FirstPass
    <3> QED
      BY <3>1, <3>2
  <2> DEFINE m == Place(fn, b) - p
  <2>1. /\ Place(fn, b) \in 1 .. Len(fn.layout) /\ Len(fn.layout) \in Nat
        /\ fn.layout[Place(fn, b)] = b
    BY <1>1, Places
  <2>2. p \in 0 .. Len(fn.layout)
    BY DEF FirstPass
  <2>3. m \in 1 .. Len(fn.layout) - p /\ p + m = Place(fn, b)
    BY <2>1, <2>2
  <2>4. workQueue[m] = b
    BY <2>1, <2>3 DEF FirstPass, Queued
  <2> QED
    BY <1>2, <2>3, <2>4
<1>3. \A i \in Insts(fn) : fn.parent[i] \in Blocks(fn)
  BY <1>1, Lines
<1> QED
  BY <1>2, <1>3, BlockDone DEF AllSettled, FirstPass

(* Nothing that is settled is unsettled by a step that keeps the tables. *)
LEMMA TablesKept ==
  ASSUME TypeOK, UNCHANGED <<fn, blockTable, constantTable>>
  PROVE  \A i \in Insts(fn) : Settled(i) => Settled(i)'
<1>1. \A j : Read(constantTable'[j]) = Claim(j)
  BY DEF Claim
<1> QED
  BY <1>1, SettledKept DEF SameOperands, SameEdges, Reachable

(* The next block of the layout is taken up, or one that is queued again. *)
LEMMA NextBlockKeepsPass ==
  ASSUME Ordered, GetNextBlock, NEW p, NEW d, FirstPass(p, d)
  PROVE  AllSettled' \/ \E n \in Nat : FirstPass(n, 0)'
<1>1. /\ IsFunction(fn) /\ IsForward(fn) /\ TypeOK /\ workQueue \in Seq(Blocks(fn))
      /\ Len(workQueue) \in Nat
  BY DEF Ordered, AscentInv, TypeOK
<1>2. /\ p \in 0 .. Len(fn.layout) /\ Len(fn.layout) \in Nat
      /\ \A m \in 1 .. Len(fn.layout) :
           fn.layout[m] \in Blocks(fn) /\ Place(fn, fn.layout[m]) = m
      /\ Len(workQueue) >= Len(fn.layout) - p
      /\ \A m \in 1 .. Len(fn.layout) - p : workQueue[m] = fn.layout[p + m]
  BY <1>1, Places DEF FirstPass, Queued
<1>3. PICK k \in 1 .. Len(workQueue) :
        /\ Reachable(workQueue[k])
        /\ \A j \in 1 .. (k - 1) : ~Reachable(workQueue[j])
        /\ todo' = fn.body[workQueue[k]]
        /\ workQueue' = SubSeq(workQueue, k + 1, Len(workQueue))
        /\ visited' = visited \union {workQueue[k]}
  <2>1. DOMAIN workQueue = 1 .. Len(workQueue)
    BY <1>1
  <2> QED
    BY <2>1 DEF GetNextBlock
<1>4. /\ todo = <<>> /\ fn' = fn /\ blockTable' = blockTable
      /\ constantTable' = constantTable
  BY DEF GetNextBlock
<1>5. CASE k > Len(fn.layout) - p
  <2>1. \A m \in 1 .. Len(fn.layout) - p : ~Reachable(workQueue[m])
    BY <1>2, <1>3, <1>5
  <2>2. AllSettled
    BY <1>4, <2>1, PassOver
  <2>3. \A j \in Insts(fn) : Read(constantTable'[j]) = Claim(j)
    BY <1>4 DEF Claim
  <2>4. visited \subseteq visited'
    BY <1>3
  <2> QED
    BY <1>1, <1>4, <2>2, <2>3, <2>4, QuietSettled
<1>6. CASE k <= Len(fn.layout) - p
  <2> DEFINE n == p + k
             b == fn.layout[n]
  <2>1. n \in 1 .. Len(fn.layout) /\ n \in Nat /\ workQueue[k] = b /\ b \in Blocks(fn)
    BY <1>2, <1>3, <1>6
  <2>2. ASSUME NEW m \in 1 .. Len(fn.layout), m > p, m < n
        PROVE  ~Reachable(fn.layout[m])
    <3>1. m - p \in 1 .. Len(fn.layout) - p /\ m - p \in 1 .. (k - 1)
          /\ p + (m - p) = m
      BY <1>2, <1>3, <2>2
    <3> QED
      BY <1>2, <1>3, <3>1
  <2>3. ASSUME NEW c \in Blocks(fn), Reachable(c), Place(fn, c) <= n
        PROVE  Place(fn, c) <= p \/ c = b
    <3>1. Place(fn, c) \in 1 .. Len(fn.layout) /\ fn.layout[Place(fn, c)] = c
      BY <1>1, Places
    <3> QED
      BY <1>2, <2>1, <2>2, <2>3, <3>1
  <2>4. Queued(n)'
    <3>1. /\ Len(workQueue') = Len(workQueue) - k
          /\ \A m \in 1 .. Len(workQueue') : workQueue'[m] = workQueue[k + m]
      BY <1>1, <1>3
    <3>2. Len(workQueue') >= Len(fn.layout) - n
      BY <1>1, <1>2, <1>3, <3>1
    <3>3. ASSUME NEW m \in 1 .. Len(fn.layout) - n
          PROVE  workQueue'[m] = fn.layout[n + m]
      <4>1. k + m \in 1 .. Len(fn.layout) - p /\ m \in 1 .. Len(workQueue')
            /\ p + (k + m) = n + m
        BY <1>1, <1>2, <1>3, <3>1, <3>2
      <4> QED
        BY <1>2, <3>1, <4>1
    <3> HIDE DEF n
    <3> QED
      BY <1>4, <3>2, <3>3 DEF Queued
  <2>5. InBlock(n, 0)'
    <3>1. fn.body[b] \in Seq(Insts(fn))
      BY <1>1, <2>1, Lines
    <3>2. todo' = fn.body[b] /\ blockTable'[b] = "top"
      BY <1>3, <1>4, <2>1 DEF Reachable
    <3>3. Len(fn.body[b]) = Len(fn.body[b]) - 0
          /\ \A m \in 1 .. Len(fn.body[b]) : fn.body[b][m] = fn.body[b][0 + m]
      BY <3>1
    <3> HIDE DEF n
    <3> QED
      BY <1>4, <2>1, <3>2, <3>3 DEF InBlock, Reachable
  <2>6. ASSUME NEW c \in Blocks(fn), Reachable(c)', Place(fn, c) <= n
        PROVE  c \in visited'
    BY <1>3, <1>4, <2>1, <2>3, <2>6 DEF Reachable, FirstPass
  <2>7. ASSUME NEW i \in Insts(fn), Reachable(fn.parent[i])', Behind(i, n, 0)
        PROVE  Settled(i)'
    <3>1. fn.parent[i] \in Blocks(fn) /\ Line(fn, i) \in Nat \ {0}
      BY <1>1, Lines
    <3>2. Place(fn, fn.parent[i]) < n
      BY <2>7, <3>1 DEF Behind
    <3>3. Reachable(fn.parent[i])
      BY <1>4, <2>7 DEF Reachable
    <3>4. Place(fn, fn.parent[i]) <= p
      <4>1. Place(fn, fn.parent[i]) \in Int
        BY <1>1, <3>1, Places
      <4>2. Place(fn, b) = n
        BY <1>2, <2>1
      <4>3. Place(fn, fn.parent[i]) <= p \/ fn.parent[i] = b
        BY <2>1, <2>3, <3>1, <3>2, <3>3, <4>1
      <4> QED
        BY <2>1, <3>2, <4>1, <4>2, <4>3
    <3> QED
      BY <1>1, <1>4, <3>3, <3>4, BlockDone, TablesKept
  <2>8. n \in 0 .. Len(fn.layout)
    BY <1>2, <2>1
  <2>9. ASSUME NEW i \in Insts(fn), Claim(i) # Bottom PROVE Behind(i, n, 0)
    <3>1. Behind(i, p, d) /\ fn.parent[i] \in Blocks(fn)
      BY <1>1, <2>9, Lines DEF FirstPass, Unclaimed
    <3>2. Place(fn, fn.parent[i]) \in Int /\ p < n
      BY <1>1, <1>2, <1>3, <3>1, Places
    <3> HIDE DEF n
    <3> QED
      BY <1>2, <2>1, <3>1, <3>2 DEF Behind
  <2> HIDE DEF n
  <2>10. Unclaimed(n, 0)'
    BY <1>4, <2>9 DEF Unclaimed, Behind, Claim
  <2>11. FirstPass(n, 0)'
    BY <1>4, <2>4, <2>5, <2>6, <2>7, <2>8, <2>10 DEF FirstPass, Behind
  <2> QED
    BY <2>1, <2>11
<1> QED
  BY <1>2, <1>3, <1>5, <1>6

(* Taking the next block from the queue unsettles nothing. *)
LEMMA NextBlockKeepsSettled ==
  ASSUME Ordered, GetNextBlock, AllSettled
  PROVE  AllSettled'
<1>1. /\ TypeOK /\ fn' = fn /\ blockTable' = blockTable /\ visited \subseteq visited'
      /\ \A j \in Insts(fn) : Read(constantTable'[j]) = Claim(j)
  BY DEF GetNextBlock, Ordered, AscentInv, Claim
<1> QED
  BY <1>1, QuietSettled

(* When the queue is exhausted, the pass is over. *)
LEMMA QueueSettled ==
  ASSUME Ordered, QueueExhausted, AllSettled \/ \E p, d : FirstPass(p, d)
  PROVE  AllSettled
<1>1. ASSUME NEW p, NEW d, FirstPass(p, d) PROVE AllSettled
  <2>1. /\ Len(fn.layout) \in Nat /\ p \in 0 .. Len(fn.layout)
        /\ workQueue \in Seq(Blocks(fn)) /\ Len(workQueue) \in Nat
        /\ Len(workQueue) >= Len(fn.layout) - p
    BY <1>1, Places DEF Ordered, AscentInv, TypeOK, FirstPass, Queued
  <2>2. \A m \in 1 .. Len(fn.layout) - p : ~Reachable(workQueue[m])
    BY <2>1 DEF QueueExhausted
  <2> QED
    BY <1>1, <2>2, PassOver DEF QueueExhausted
<1> QED
  BY <1>1

(* The end of the queue leaves everything settled. *)
LEMMA ExhaustedIsSettled ==
  ASSUME Ordered, QueueExhausted, AllSettled \/ \E p, d : FirstPass(p, d)
  PROVE  AllSettled'
<1>1. AllSettled
  BY QueueSettled
<1>2. /\ TypeOK /\ fn' = fn /\ blockTable' = blockTable /\ visited \subseteq visited'
      /\ \A j \in Insts(fn) : Read(constantTable'[j]) = Claim(j)
  BY DEF QueueExhausted, Ordered, AscentInv, Claim
<1> QED
  BY <1>1, <1>2, QuietSettled

-----------------------------------------------------------------------------
(* A step that leaves the tables, the queue and the block alone. *)
LEMMA PassKept ==
  ASSUME TypeOK, NEW p, NEW d, FirstPass(p, d),
         UNCHANGED <<fn, blockTable, constantTable, workQueue, todo, visited>>
  PROVE  FirstPass(p, d)'
<1>1. Queued(p)' /\ InBlock(p, d)' /\ Unclaimed(p, d)'
  BY DEF FirstPass, Queued, InBlock, Unclaimed, Behind, Claim, Reachable
<1>2. \A i \in Insts(fn) : Settled(i) => Settled(i)'
  BY TablesKept
<1> QED
  BY <1>1, <1>2 DEF FirstPass, Behind, Reachable

(* A step that leaves the tables, the queue and the block at hand alone *)
(* keeps the pass where it is.                                          *)
LEMMA StandstillKeeps ==
  ASSUME Ordered, AllSettled \/ \E p, d : FirstPass(p, d),
         UNCHANGED <<fn, blockTable, constantTable, workQueue, todo, visited>>
  PROVE  /\ AllSettled' \/ \E p, d : FirstPass(p, d)'
         /\ AllSettled => AllSettled'
<1>1. TypeOK
  BY DEF Ordered, AscentInv
<1>2. ASSUME AllSettled PROVE AllSettled'
  <2>1. \A j \in Insts(fn) : Read(constantTable'[j]) = Claim(j)
    BY DEF Claim
  <2> QED
    BY <1>1, <1>2, <2>1, QuietSettled
<1>3. ASSUME NEW p, NEW d, FirstPass(p, d) PROVE FirstPass(p, d)'
  BY <1>1, <1>3, PassKept
<1> QED
  BY <1>2, <1>3

(* A visit in either part of the analysis. *)
LEMMA VisitKeeps ==
  ASSUME Ordered, AscentInv', AllSettled \/ \E p, d : FirstPass(p, d), Visit
  PROVE  AllSettled' \/ \E p, d : FirstPass(p, d)'
<1>1. IsForward(fn) /\ AscentInv
  BY DEF Ordered
<1>2. ASSUME todo # <<>>, VisitEffect, NEW p, NEW d, FirstPass(p, d)
      PROVE  \E m, n : FirstPass(m, n)'
  <2>1. FirstPass(p, d + 1)'
    BY <1>2, PassAdvances
  <2> DEFINE n == d + 1
  <2>2. FirstPass(p, n)'
    BY <2>1
  <2> HIDE DEF n
  <2> QED
    BY <2>2
<1>3. CASE PlainVisit
  <2>1. CASE UNCHANGED <<fn, blockTable, constantTable, workQueue, todo, visited>>
    BY <2>1, StandstillKeeps
  <2>2. CASE /\ Effect /\ inst \in Insts(fn) /\ todo # <<>>
             /\ fn.inst[inst].op \notin {"br", "condbr"}
    BY <1>2, <2>2, PlainSettles, PlainIsQuiet
  <2> QED
    BY <1>1, <1>3, <2>1, <2>2, PlainVisitEffect
<1>4. CASE VisitBr
  <2>1. todo # <<>>
    BY <1>4 DEF VisitBr, Visiting
  <2> QED
    BY <1>2, <1>4, <2>1, BrSettles, BrIsQuiet
<1>5. CASE VisitCondBr
  <2>1. todo # <<>>
    BY <1>5 DEF VisitCondBr, Visiting
  <2> QED
    BY <1>2, <1>5, <2>1, CondBrSettles, CondBrIsQuiet
<1> QED
  BY <1>3, <1>4, <1>5 DEF Visit, PlainVisit

(* No visit ends the analysis. *)
LEMMA VisitGoesOn ==
  ASSUME Ordered, AscentInv', Visit
  PROVE  phase' # "analysed"
<1>1. IsForward(fn) /\ AscentInv
  BY DEF Ordered
<1>2. \E ops : Visiting(ops)
  BY DEF Visit, VisitMemory, VisitAlloca, VisitCall, VisitGetElementPtr,
     VisitLoad, VisitStore, VisitPtrToInt, VisitIntToPtr, VisitBinaryOperator,
     VisitCast, VisitICmp, VisitExtOrTrunc, VisitPHI, VisitBr, VisitCondBr,
     VisitReturn
<1>3. phase = "analyse"
  BY <1>2 DEF Visiting
<1>4. CASE PlainVisit
  BY <1>1, <1>3, <1>4, PlainVisitEffect DEF Effect
<1>5. CASE VisitBr
  BY <1>3, <1>5 DEF VisitBr
<1>6. CASE VisitCondBr
  BY <1>3, <1>6, CondBrSettles DEF VisitEffect
<1> QED
  BY <1>4, <1>5, <1>6 DEF Visit, PlainVisit

(* Visits unmark nothing. *)
LEMMA VisitMarks ==
  ASSUME Ordered, AscentInv', Visit
  PROVE  fn' = fn /\ Reachable(Entry(fn))'
<1>1. IsForward(fn) /\ AscentInv /\ Reachable(Entry(fn)) /\ IsFunction(fn)
  BY DEF Ordered, AscentInv, TypeOK
<1>2. Entry(fn) \in Blocks(fn)
  <2>1. Len(fn.layout) \in Nat /\ fn.layout # <<>> /\ fn.layout \in Seq(Blocks(fn))
    BY <1>1 DEF IsFunction
  <2>2. 1 \in 1 .. Len(fn.layout)
    BY <2>1
  <2> QED
    BY <2>1, <2>2 DEF Entry
<1>3. CASE PlainVisit
  BY <1>1, <1>3, PlainVisitEffect DEF Effect, Reachable, Entry
<1>4. CASE VisitBr \/ VisitCondBr
  <2>1. VisitEffect
    BY <1>4, BrSettles, CondBrSettles
  <2>2. fn' = fn /\ \A b \in Blocks(fn) : blockTable[b] = "top" => blockTable'[b] = "top"
    BY <2>1 DEF VisitEffect, Reachable
  <2>3. Entry(fn)' = Entry(fn)
    BY <2>2 DEF Entry
  <2> QED
    BY <1>1, <1>2, <2>2, <2>3 DEF Reachable
<1> QED
  BY <1>3, <1>4 DEF Visit, PlainVisit

(* No visit makes a block unreachable. *)
LEMMA VisitReaches ==
  ASSUME Ordered, AscentInv', Visit
  PROVE  /\ fn' = fn
         /\ \A b \in Blocks(fn) : Reachable(b) => Reachable(b)'
<1>1. CASE PlainVisit
  <2>1. IsForward(fn) /\ AscentInv
    BY DEF Ordered
  <2> QED
    BY <1>1, <2>1, PlainVisitEffect DEF Effect, Reachable
<1>2. CASE VisitBr \/ VisitCondBr
  <2>1. VisitEffect
    BY <1>2, BrSettles, CondBrSettles
  <2> QED
    BY <2>1 DEF VisitEffect
<1> QED
  BY <1>1, <1>2 DEF Visit, PlainVisit

-----------------------------------------------------------------------------
(* doInitialization queues the blocks in the order of the layout: the pass *)
(* is before the first block.                                              *)
LEMMA InitOrdered == OnlyForward /\ Init => ForwardInv
<1> SUFFICES ASSUME OnlyForward, Init PROVE ForwardInv
  OBVIOUS
<1>1. AscentInv /\ ReachInv /\ fn \in Functions /\ IsForward(fn)
  BY InitAscent, InitReach DEF OnlyForward, Init
<1>2. IsFunction(fn) /\ Entry(fn) \in Blocks(fn)
  <2>1. IsFunction(fn)
    BY <1>1, SccpAssumption
  <2>2. Len(fn.layout) \in Nat /\ fn.layout # <<>> /\ fn.layout \in Seq(Blocks(fn))
    BY <2>1 DEF IsFunction
  <2>3. 1 \in 1 .. Len(fn.layout)
    BY <2>2
  <2> QED
    BY <2>1, <2>2, <2>3 DEF Entry
<1>3. Ordered
  BY <1>1, <1>2 DEF Ordered, Init, Reachable
<1>4. FirstPass(0, 0)
  <2>1. Len(fn.layout) \in Nat /\ fn.layout \in Seq(Blocks(fn))
    BY <1>1, <1>2, Places
  <2>2. Queued(0)
    BY <2>1 DEF Init, Queued
  <2>3. InBlock(0, 0)
    BY DEF Init, InBlock
  <2>4. \A b \in Blocks(fn) : ~(Place(fn, b) <= 0)
    BY <1>1, <1>2, Places
  <2>5. \A i \in Insts(fn) : ~Behind(i, 0, 0)
    <3>1. \A i \in Insts(fn) : fn.parent[i] \in Blocks(fn) /\ Line(fn, i) \in Nat \ {0}
      BY <1>1, <1>2, Lines
    <3>2. \A i \in Insts(fn) : Place(fn, fn.parent[i]) \in Nat \ {0}
      BY <1>1, <1>2, <3>1, Places
    <3> QED
      BY <3>1, <3>2 DEF Behind
  <2>6. Unclaimed(0, 0)
    BY DEF Init, Unclaimed, Claim, Read
  <2> QED
    BY <2>1, <2>2, <2>3, <2>4, <2>5, <2>6 DEF FirstPass
<1> QED
  BY <1>3, <1>4 DEF ForwardInv, Init

(* Every step continues the first pass, or repeats what is settled. *)
LEMMA NextOrdered == ForwardInv /\ [Next]_vars => ForwardInv'
<1> SUFFICES ASSUME ForwardInv, [Next]_vars PROVE ForwardInv'
  OBVIOUS
<1>1. Ordered /\ (AllSettled \/ \E p, d : FirstPass(p, d))
      /\ (phase = "analysed" => AllSettled)
  BY DEF ForwardInv
<1>2. AscentInv' /\ ReachInv'
  BY <1>1, NextAscent, NextReach DEF Ordered
<1>3. CASE Visit
  <2>1. AllSettled' \/ \E p, d : FirstPass(p, d)'
    BY <1>1, <1>2, <1>3, VisitKeeps
  <2>2. phase' # "analysed"
    BY <1>1, <1>2, <1>3, VisitGoesOn
  <2>3. Ordered'
    <3>1. fn' = fn /\ Reachable(Entry(fn))'
      BY <1>1, <1>2, <1>3, VisitMarks
    <3> QED
      BY <1>1, <1>2, <3>1 DEF Ordered
  <2> QED
    BY <2>1, <2>2, <2>3 DEF ForwardInv
<1>4. CASE GetNextBlock
  <2>1. AllSettled' \/ \E p, d : FirstPass(p, d)'
    BY <1>1, <1>4, NextBlockKeepsPass, NextBlockKeepsSettled
  <2>2. /\ fn' = fn /\ blockTable' = blockTable /\ phase' # "analysed"
    BY <1>4 DEF GetNextBlock
  <2> QED
    BY <1>1, <1>2, <2>1, <2>2 DEF ForwardInv, Ordered, Reachable
<1>5. CASE QueueExhausted
  <2>1. AllSettled'
    BY <1>1, <1>5, ExhaustedIsSettled
  <2>2. /\ fn' = fn /\ blockTable' = blockTable
    BY <1>5 DEF QueueExhausted
  <2> QED
    BY <1>1, <1>2, <2>1, <2>2 DEF ForwardInv, Ordered, Reachable
<1>6. CASE UNCHANGED vars
  <2>1. UNCHANGED <<fn, blockTable, constantTable, workQueue, todo, visited>>
        /\ phase' = phase
    BY <1>6 DEF vars
  <2>2. (AllSettled' \/ \E p, d : FirstPass(p, d)') /\ (AllSettled => AllSettled')
    BY <1>1, <2>1, StandstillKeeps
  <2> QED
    BY <1>1, <1>2, <2>1, <2>2 DEF ForwardInv, Ordered, Reachable
<1> QED
  BY <1>3, <1>4, <1>5, <1>6 DEF Next, Finished

(* A block that became reachable has had its turn or will have one: none is *)
(* lost that becomes reachable after getNextBlock dropped it.               *)
THEOREM NoBlockLost == OnlyForward => (Spec => []NoLostBlock)
<1>1. ForwardInv => NoLostBlock
  <2> SUFFICES ASSUME ForwardInv, NEW b \in Blocks(fn), Reachable(b), b \notin visited
               PROVE  \E k \in DOMAIN workQueue : workQueue[k] = b
    BY DEF NoLostBlock
  <2>1. PICK p, d : FirstPass(p, d)
    BY DEF ForwardInv, AllSettled
  <2>2. /\ Place(fn, b) \in 1 .. Len(fn.layout) /\ Len(fn.layout) \in Nat
        /\ fn.layout[Place(fn, b)] = b /\ workQueue \in Seq(Blocks(fn))
    BY Places DEF ForwardInv, Ordered, AscentInv, TypeOK
  <2>3. /\ p \in 0 .. Len(fn.layout) /\ ~(Place(fn, b) <= p)
        /\ Len(workQueue) >= Len(fn.layout) - p
        /\ \A m \in 1 .. Len(fn.layout) - p : workQueue[m] = fn.layout[p + m]
    BY <2>1 DEF FirstPass, Queued
  <2> DEFINE k == Place(fn, b) - p
  <2>4. k \in 1 .. Len(fn.layout) - p /\ p + k = Place(fn, b)
        /\ k \in DOMAIN workQueue
    BY <2>2, <2>3
  <2> QED
    BY <2>2, <2>3, <2>4
<1> QED
  BY <1>1, InitOrdered, NextOrdered, PTL DEF Spec

-----------------------------------------------------------------------------
(* A branch that is recorded is recorded as its condition: tearDownInsts    *)
(* folds it by what is recorded, the analysis has followed the condition.   *)
BranchesAgree ==
  \A i \in Insts(fn) : fn.inst[i].op = "condbr" /\ Claim(i) # Bottom =>
    Claim(i) = LatticeElem(fn.inst[i].args[1])

(* A conditional branch has a condition. *)
LEMMA FirstOperand ==
  ASSUME TypeOK, NEW i \in Insts(fn), fn.inst[i].op = "condbr"
  PROVE  1 \in DOMAIN fn.inst[i].args /\ IsOperand(fn, fn.inst[i].args[1])
<1>1. IsInst(fn, i)
  BY DEF TypeOK, IsFunction
<1>2. 1 \in DOMAIN fn.inst[i].args
  BY <1>1 DEF IsInst, Arity
<1> QED
  BY <1>1, <1>2 DEF IsInst

(* A step that changes no claim changes no branch's. *)
LEMMA QuietBranches ==
  ASSUME TypeOK, BranchesAgree, fn' = fn,
         \A j \in Insts(fn) : Read(constantTable'[j]) = Claim(j)
  PROVE  BranchesAgree'
<1>1. ASSUME NEW i \in Insts(fn), fn.inst[i].op = "condbr", Claim(i)' # Bottom
      PROVE  Claim(i)' = LatticeElem(fn.inst[i].args[1])'
  <2>1. Claim(i)' = Claim(i)
    BY DEF Claim
  <2>2. IsOperand(fn, fn.inst[i].args[1])
    BY <1>1, FirstOperand
  <2>3. fn.inst[i].args[1].kind = "inst" => fn.inst[i].args[1].id \in Insts(fn)
    BY <2>2 DEF IsOperand, Arg, OtherConstant, Insts
  <2>4. LatticeElem(fn.inst[i].args[1])' = LatticeElem(fn.inst[i].args[1])
    BY <2>3, ReadKept
  <2> QED
    BY <1>1, <2>1, <2>4 DEF BranchesAgree
<1> QED
  BY <1>1 DEF BranchesAgree

(* During the first pass a branch is recorded after its condition, which is *)
(* not visited again.                                                       *)
LEMMA PassBranches ==
  ASSUME Ordered, BranchesAgree, NEW p, NEW d, FirstPass(p, d), todo # <<>>,
         fn' = fn, \A j \in Insts(fn) \ {inst} : Read(constantTable'[j]) = Claim(j),
         fn.inst[inst].op = "condbr" =>
           Read(constantTable'[inst]) \in
             {Claim(inst), LatticeElem(fn.inst[inst].args[1])}
  PROVE  BranchesAgree'
<1>1. IsFunction(fn) /\ IsForward(fn) /\ TypeOK
  BY DEF Ordered, AscentInv, TypeOK
<1>2. /\ p \in Int /\ d \in Nat /\ inst \in Insts(fn)
      /\ Place(fn, fn.parent[inst]) = p /\ Line(fn, inst) = d + 1
  BY HeadPosition
<1>3. Claim(inst) = Bottom
  BY <1>2 DEF FirstPass, Unclaimed, Behind
<1>4. ASSUME NEW i \in Insts(fn), fn.inst[i].op = "condbr", Claim(i)' # Bottom
      PROVE  Claim(i)' = LatticeElem(fn.inst[i].args[1])'
  <2>1. Behind(i, p, d + 1)
    <3>1. CASE i = inst
      BY <1>2, <3>1 DEF Behind
    <3>2. CASE i # inst
      <4>1. Behind(i, p, d) /\ Line(fn, i) \in Nat
        BY <1>1, <1>4, <3>2, Lines DEF FirstPass, Unclaimed, Claim
      <4> QED
        BY <1>2, <4>1 DEF Behind
    <3> QED
      BY <3>1, <3>2
  <2>2. 1 \in DOMAIN fn.inst[i].args
    BY <1>1, <1>4, FirstOperand
  <2>3. fn.inst[i].args[1].kind = "inst" =>
          fn.inst[i].args[1].id \in Insts(fn) \ {inst}
    BY <2>1, <2>2, BehindNext
  <2>4. LatticeElem(fn.inst[i].args[1])' = LatticeElem(fn.inst[i].args[1])
    BY <2>3, ReadKept
  <2>5. CASE i = inst
    <3>1. Claim(i)' = Read(constantTable'[inst])
      BY <2>5 DEF Claim
    <3> QED
      BY <1>3, <1>4, <2>4, <2>5, <3>1
  <2>6. CASE i # inst
    BY <1>4, <2>4, <2>6 DEF BranchesAgree, Claim
  <2> QED
    BY <2>5, <2>6
<1> QED
  BY <1>4 DEF BranchesAgree

(* What a visit to a conditional branch records is its condition; a second *)
(* visit, to a settled one, records nothing.                                *)
LEMMA CondBrRecords ==
  ASSUME Ordered, AscentInv', VisitCondBr
  PROVE  /\ Read(constantTable'[inst]) \in
              {Claim(inst), LatticeElem(fn.inst[inst].args[1])}
         /\ AllSettled => \A j \in Insts(fn) : Read(constantTable'[j]) = Claim(j)
<1> DEFINE cond == LatticeElem(arg(1))
           S    == Operands({1})
<1>1. Visiting({"condbr"}) /\ TypeOK
  BY DEF VisitCondBr, Ordered, AscentInv
<1>2. /\ inst \in Insts(fn) /\ instr = fn.inst[inst] /\ instr.op = "condbr"
      /\ cond = LatticeElem(fn.inst[inst].args[1])
  BY <1>1, VisitedInst DEF arg
<1>3. /\ \A j \in Insts(fn) : Read(LookUp(S)[j]) = Claim(j)
      /\ LookUp(S) \in [Insts(fn) -> Elements]
  BY <1>1, LookUpKeepsClaims, LookUpType
<1>4. \/ constantTable' = LookUp(S)
      \/ /\ constantTable' = [LookUp(S) EXCEPT ![inst] = cond]
         /\ cond.state = "value" /\ ~Reachable(Taken(cond))
  <2>1. phase' # "descended"
    BY DEF AscentInv, NeverDescends
  <2> HIDE DEF S, cond
  <2> QED
    BY <2>1 DEF VisitCondBr, Keep, Insert, S, cond
<1>5. cond.state = "value" => Read(cond) = cond
  BY DEF Read, Elem, Absent
<1>6. Read(constantTable'[inst]) \in {Claim(inst), cond}
  <2> HIDE DEF S, cond
  <2> QED
    BY <1>2, <1>3, <1>4, <1>5
<1>7. ASSUME AllSettled PROVE constantTable' = LookUp(S)
  <2>1. BranchSettled(instr)
    BY <1>1, <1>2, <1>7, VisitedReachable DEF AllSettled, Settled, Visiting
  <2>2. cond.state = "value" => Reachable(Taken(cond))
    BY <2>1 DEF BranchSettled, Taken, arg
  <2> QED
    BY <1>4, <2>2
<1> QED
  BY <1>2, <1>3, <1>6, <1>7

(* Every step keeps the branches recorded as their conditions. *)
LEMMA NextBranches ==
  ForwardInv /\ BranchesAgree /\ [Next]_vars /\ AscentInv' => BranchesAgree'
<1> SUFFICES ASSUME ForwardInv, BranchesAgree, [Next]_vars, AscentInv'
             PROVE  BranchesAgree'
  OBVIOUS
<1>1. /\ Ordered /\ (AllSettled \/ \E p, d : FirstPass(p, d))
      /\ AscentInv /\ TypeOK /\ IsForward(fn)
  BY DEF ForwardInv, Ordered, AscentInv
<1>2. CASE constantTable' = constantTable /\ fn' = fn
  BY <1>1, <1>2, QuietBranches DEF Claim
<1>3. CASE Effect /\ inst \in Insts(fn) /\ todo # <<>>
           /\ fn.inst[inst].op \notin {"br", "condbr"}
  <2>1. CASE AllSettled
    <3>1. Claim(inst) = Revisit(inst)
      BY <1>1, <1>3, <2>1, VisitedReachable DEF AllSettled, Settled
    <3> QED
      BY <1>1, <1>3, <3>1, QuietBranches DEF Effect
  <2>2. ASSUME NEW p, NEW d, FirstPass(p, d) PROVE BranchesAgree'
    BY <1>1, <1>3, <2>2, PassBranches DEF Effect
  <2> QED
    BY <1>1, <2>1, <2>2
<1>4. CASE VisitCondBr
  <2>1. /\ todo # <<>> /\ fn' = fn
        /\ \A j \in Insts(fn) \ {inst} : Read(constantTable'[j]) = Claim(j)
    BY <1>1, <1>4, CondBrSettles DEF VisitEffect, VisitCondBr, Visiting
  <2>2. CASE AllSettled
    BY <1>1, <1>4, <2>1, <2>2, CondBrRecords, QuietBranches
  <2>3. ASSUME NEW p, NEW d, FirstPass(p, d) PROVE BranchesAgree'
    BY <1>1, <1>4, <2>1, <2>3, CondBrRecords, PassBranches
  <2> QED
    BY <1>1, <2>2, <2>3
<1>5. CASE PlainVisit
  BY <1>1, <1>2, <1>3, <1>5, PlainVisitEffect
<1>6. CASE VisitBr \/ GetNextBlock \/ QueueExhausted \/ UNCHANGED vars
  BY <1>2, <1>6 DEF VisitBr, GetNextBlock, QueueExhausted, vars
<1> QED
  BY <1>4, <1>5, <1>6 DEF Next, Visit, PlainVisit, Finished

-----------------------------------------------------------------------------
(* The promise of ConstantAnalysis, of what this analysis has in its *)
(* tables: AnalysedRunProofs shows what it is worth for a run.       *)
A == INSTANCE AnalysedRunProofs WITH
  reach <- {b \in Blocks(fn) : Reachable(b)},
  known <- [i \in Insts(fn) |-> LatticeElem(Ref(i))],
  done  <- phase = "analysed"

(* The instance speaks of the same functions ... *)
LEMMA SameFunction ==
  ASSUME NEW f
  PROVE A!IsFunction(f) <=> IsFunction(f)
<1>1. A!Arity = Arity /\ A!NumSuccs = NumSuccs /\ A!AnyArity = AnyArity
      /\ A!Arg = Arg /\ A!OtherConstant = OtherConstant
      /\ A!Blocks(f) = Blocks(f) /\ A!Insts(f) = Insts(f) /\ A!Entry(f) = Entry(f)
  BY DEF A!Arity, Arity, A!NumSuccs, NumSuccs, A!AnyArity, AnyArity, A!Arg, Arg,
     A!OtherConstant, OtherConstant, A!Blocks, Blocks, A!Insts, Insts, A!Entry, Entry
<1>2. \A b : A!Terminator(f, b) = Terminator(f, b)
  BY DEF A!Terminator, Terminator
<1>3. \A b : A!Succs(f, b) = Succs(f, b)
  BY <1>2 DEF A!Succs, Succs
<1>4. \A b : A!Preds(f, b) = Preds(f, b)
  BY <1>1, <1>3 DEF A!Preds, Preds
<1>5. \A i : A!Uses(f, i) = Uses(f, i)
  BY <1>1 DEF A!Uses, Uses, A!Ref, Ref
<1>6. \A o : A!IsOperand(f, o) <=> IsOperand(f, o)
  BY <1>1 DEF A!IsOperand, IsOperand
<1>7. ASSUME NEW i PROVE A!IsInst(f, i) <=> IsInst(f, i)
  <2>1. /\ A!Terminator(f, f.parent[i]) = Terminator(f, f.parent[i])
        /\ A!Preds(f, f.parent[i]) = Preds(f, f.parent[i])
        /\ A!IsFiniteSet(A!Uses(f, i)) <=> IsFiniteSet(Uses(f, i))
        /\ \A k : A!IsOperand(f, f.inst[i].args[k]) <=> IsOperand(f, f.inst[i].args[k])
    BY <1>2, <1>4, <1>5, <1>6 DEF A!IsFiniteSet, IsFiniteSet
  <2> DEFINE ops == \A k \in DOMAIN f.inst[i].args : IsOperand(f, f.inst[i].args[k])
  <2>2. (\A k \in DOMAIN f.inst[i].args : A!IsOperand(f, f.inst[i].args[k])) <=> ops
    BY <2>1
  <2> QED
    BY <1>1, <2>1, <2>2 DEF A!IsInst, IsInst
<1> QED
  BY <1>1, <1>4, <1>7 DEF A!IsFunction, IsFunction

(* ... of the same runs ... *)
LEMMA SameRun == Program!Run <=> A!Program!Run
<1>1. Program!Execute <=> A!Program!Execute
  BY DEF Program!Execute, Program!NumSuccs, Program!IsPhi, Program!Results,
     Program!Operand, Program!ConvertValue, Program!Operators,
     Program!Predicates, Program!Calculate, Program!Holds, Program!ToInt,
     Program!Signed, A!Program!Execute, A!Program!NumSuccs, A!Program!IsPhi,
     A!Program!Results, A!Program!Operand, A!Program!ConvertValue,
     A!Program!Operators, A!Program!Predicates, A!Program!Calculate,
     A!Program!Holds, A!Program!ToInt, A!Program!Signed
<1>2. \A b : Program!Jump(b) <=> A!Program!Jump(b)
  BY DEF Program!Jump, Program!IsPhi, Program!Insts, Program!Received,
     Program!Operand, A!Program!Jump, A!Program!IsPhi, A!Program!Insts,
     A!Program!Received, A!Program!Operand
<1>3. Program!TakeBranch <=> A!Program!TakeBranch
  BY <1>2 DEF Program!TakeBranch, A!Program!TakeBranch, Program!Operand,
     A!Program!Operand
<1>4. Program!LeaveFunction <=> A!Program!LeaveFunction
  BY DEF Program!LeaveFunction, A!Program!LeaveFunction
<1> QED
  BY <1>1, <1>3, <1>4 DEF Program!Run, A!Program!Run

(* ... of the same lattice ... *)
LEMMA SameLattice ==
  /\ A!Top = Top /\ A!Bottom = Bottom
  /\ \A v : A!Val(v) = Val(v)
  /\ \A e : A!Canonical(e) <=> Canonical(e)
  /\ \A S : A!Join(S) = Join(S)
  /\ \A d, e : A!Leq(d, e) <=> Leq(d, e)
BY DEF A!Top, A!Bottom, A!Val, A!Leq, A!Join, A!Canonical, A!Elem,
       Top, Bottom, Val, Leq, Join, Canonical, Elem

(* ... of the same arithmetic ... *)
LEMMA SameCalculation ==
  /\ A!Operators = Operators /\ A!Predicates = Predicates
  /\ A!NumSuccs = NumSuccs
  /\ \A f, a, b, m : A!Calculate(f, a, b, m) = Calculate(f, a, b, m)
  /\ \A f, a, b : A!ToInt(A!Holds(f, a, b)) = ToInt(Holds(f, a, b))
<1>1. A!Operators = Operators /\ A!Predicates = Predicates /\ A!NumSuccs = NumSuccs
  BY DEF A!Operators, Operators, A!Predicates, Predicates, A!NumSuccs, NumSuccs
<1>2. \A f, a, b, m : A!Calculate(f, a, b, m) = Calculate(f, a, b, m)
  BY DEF A!Calculate, Calculate, A!Signed, Signed
<1>3. \A f, a, b : A!ToInt(A!Holds(f, a, b)) = ToInt(Holds(f, a, b))
  BY DEF A!ToInt, ToInt, A!Holds, Holds
<1> QED
  BY <1>1, <1>2, <1>3

(* ... and of the same control flow. *)
LEMMA SameGraph ==
  /\ \A f : A!Blocks(f) = Blocks(f) /\ A!Insts(f) = Insts(f) /\ A!Entry(f) = Entry(f)
  /\ \A f, b : A!Terminator(f, b) = Terminator(f, b)
  /\ \A f, b : A!Succs(f, b) = Succs(f, b)
<1>1. \A f : A!Blocks(f) = Blocks(f) /\ A!Insts(f) = Insts(f) /\ A!Entry(f) = Entry(f)
  BY DEF A!Blocks, Blocks, A!Insts, Insts, A!Entry, Entry
<1>2. \A f, b : A!Terminator(f, b) = Terminator(f, b)
  BY DEF A!Terminator, Terminator
<1>3. \A f, b : A!Succs(f, b) = Succs(f, b)
  BY <1>2 DEF A!Succs, Succs
<1> QED
  BY <1>1, <1>2, <1>3

(* The functions for which the tables are read and written as LLVM means  *)
(* them: constants are in the range of int (getConstantLatticeElem reads  *)
(* their bits without sign and narrows them), and no conversion changes a *)
(* value (visitZExtInst copies the signed value of a character,           *)
(* visitTruncInst narrows to the width of its operand).                   *)
IsPlain(f) ==
  \A i \in Insts(f) :
    /\ f.inst[i].op # "trunc"
    /\ f.inst[i].op = "zext" => f.inst[i].fun # "i8"
    /\ \A k \in DOMAIN f.inst[i].args : f.inst[i].args[k].kind = "int" =>
         /\ f.inst[i].args[k].size <= IntModulus
         /\ Int32(f.inst[i].args[k].value % f.inst[i].args[k].size) = f.inst[i].args[k].value

(* No operator of a reachable block has the result 0, which *)
(* visitBinaryOperator does not tell from no result at all  *)
(* (sccp_pass.cc:303).                                      *)
ZeroFree ==
  \A i \in Insts(fn) : fn.inst[i].op = "binop" /\ Reachable(fn.parent[i]) =>
    Result(i) # Val(0)

(* Of an operand that is read unharmed, both readings of Sccp, by       *)
(* getLatticeElem and by visitPHINode, are the one of ConstantAnalysis. *)
LEMMA OperandAgrees ==
  ASSUME NEW o, IsOperand(fn, o),
         o.kind = "int" => o.size <= IntModulus /\ Int32(o.value % o.size) = o.value
  PROVE  A!Operand(o) = LatticeElem(o) /\ Incoming(o) = LatticeElem(o)
<1>1. CASE o.kind = "int"
  <2>1. A!Operand(o) = A!Val(o.value)
    BY <1>1 DEF A!Operand
  <2> QED
    BY <1>1, <2>1, SameLattice DEF LatticeElem, Incoming
<1>2. CASE o.kind = "inst"
  <2>1. o.id \in Insts(fn)
    BY <1>2 DEF IsOperand, Arg, OtherConstant, Insts
  <2>2. LatticeElem(Ref(o.id)) = LatticeElem(o)
    BY <1>2 DEF LatticeElem, Ref
  <2>3. A!Operand(o) = LatticeElem(Ref(o.id))
    BY <1>2, <2>1 DEF A!Operand
  <2> QED
    BY <1>2, <2>2, <2>3 DEF Incoming
<1>3. CASE o.kind # "int" /\ o.kind # "inst"
  <2>1. A!Operand(o) = A!Top
    BY <1>3 DEF A!Operand
  <2> QED
    BY <1>3, <2>1, SameLattice DEF LatticeElem, Incoming
<1> QED
  BY <1>1, <1>2, <1>3

(* So it is of the operands of a plain function. *)
LEMMA OperandsAgree ==
  ASSUME TypeOK, IsPlain(fn), NEW i \in Insts(fn), NEW k \in DOMAIN fn.inst[i].args
  PROVE  /\ A!Operand(fn.inst[i].args[k]) = LatticeElem(fn.inst[i].args[k])
         /\ Incoming(fn.inst[i].args[k]) = LatticeElem(fn.inst[i].args[k])
<1>1. IsOperand(fn, fn.inst[i].args[k])
  BY DEF TypeOK, IsFunction, IsInst
<1> QED
  BY <1>1, OperandAgrees DEF IsPlain

(* An operator of two operands: ConstantAnalysis asks for no more than the *)
(* visits record. (It takes an operand without value for no value, where a *)
(* visit records Top if the other operand is unknown.)                     *)
LEMMA StrictBelow ==
  ASSUME NEW d, NEW e, Canonical(d), Canonical(e), NEW x, Canonical(x)
  PROVE  Leq(A!Strict({d, e}, x), Strict(d, e, x))
<1>1. CASE Bottom \in {d, e}
  BY <1>1, SameLattice DEF A!Strict, Leq, Bottom, Elem
<1>2. CASE Bottom \notin {d, e} /\ Top \in {d, e}
  <2>1. Strict(d, e, x) = Top
    BY <1>2 DEF Strict, Top, Elem
  <2> QED
    BY <2>1 DEF Leq, Top, Elem
<1>3. CASE Bottom \notin {d, e} /\ Top \notin {d, e}
  <2>1. A!Strict({d, e}, x) = x
    BY <1>3, SameLattice DEF A!Strict
  <2>2. Strict(d, e, x) = x
    BY <1>3 DEF Strict, Canonical, Top, Bottom, Val, Elem
  <2>3. Leq(x, x)
    BY LeqReflexive DEF CanonicalEntry
  <2> QED
    BY <2>1, <2>2, <2>3
<1> QED
  BY <1>1, <1>2, <1>3

(* What ConstantAnalysis asks for an instruction is below what a visit *)
(* computes.                                                           *)
LEMMA TransferBelow ==
  ASSUME AscentInv, IsForward(fn), IsPlain(fn), NEW i \in Insts(fn),
         fn.inst[i].op \notin DOMAIN NumSuccs
  PROVE  Leq(A!Transfer(i), Result(i))
<1> DEFINE r    == fn.inst[i]
           e(k) == LatticeElem(r.args[k])
           sum  == Val(Calculate(r.fun, e(1).value, e(2).value, IntModulus))
           holds == Val(ToInt(Holds(r.fun, e(1).value, e(2).value)))
<1>1. IsInst(fn, i) /\ TypeOK /\ Justified
  BY DEF AscentInv, TypeOK, IsFunction
<1>2. ASSUME NEW k \in DOMAIN r.args
      PROVE  A!Operand(r.args[k]) = e(k) /\ Incoming(r.args[k]) = e(k) /\ Canonical(e(k))
  <2>1. IsOperand(fn, r.args[k])
    BY <1>1 DEF IsInst
  <2> QED
    BY <1>1, <2>1, OperandsAgree, ReadsCanonical
<1>3. Canonical(sum) /\ Canonical(holds) /\ \A v : Canonical(Val(v))
  BY DEF Canonical, Val, Elem
<1>4. CASE r.op = "binop"
  <2>1. 1 \in DOMAIN r.args /\ 2 \in DOMAIN r.args /\ r.fun \in Operators
    BY <1>1, <1>4 DEF IsInst, Arity, AscentInv
  <2>2. A!Operand(r.args[1]) = e(1) /\ A!Operand(r.args[2]) = e(2)
        /\ Canonical(e(1)) /\ Canonical(e(2))
    BY <1>2, <2>1
  <2>3. Result(i) = Strict(e(1), e(2), sum)
    BY <1>4 DEF Result
  <2> HIDE DEF e
  <2>4. A!Transfer(i) = A!Strict({e(1), e(2)}, sum)
    BY <1>4, <2>1, <2>2, SameCalculation, SameLattice DEF A!Transfer
  <2> HIDE DEF sum
  <2> QED
    BY <1>3, <2>2, <2>3, <2>4, StrictBelow
<1>5. CASE r.op = "icmp"
  <2>1. 1 \in DOMAIN r.args /\ 2 \in DOMAIN r.args
    BY <1>1, <1>5 DEF IsInst, Arity
  <2>2. A!Operand(r.args[1]) = e(1) /\ A!Operand(r.args[2]) = e(2)
        /\ Canonical(e(1)) /\ Canonical(e(2))
    BY <1>2, <2>1
  <2>3. Result(i) = Strict(e(1), e(2), IF r.fun \in Predicates THEN holds ELSE Top)
    BY <1>5 DEF Result
  <2> HIDE DEF e
  <2>4. CASE r.fun \in Predicates
    <3>1. A!Transfer(i) = A!Strict({e(1), e(2)}, holds)
      BY <1>5, <2>2, <2>4, SameCalculation, SameLattice DEF A!Transfer
    <3> HIDE DEF holds
    <3> QED
      BY <1>3, <2>2, <2>3, <2>4, <3>1, StrictBelow
  <2>5. CASE r.fun \notin Predicates
    BY <1>5, <2>5 DEF IsForward
  <2> QED
    BY <2>4, <2>5
<1>6. CASE r.op \in {"cast", "zext", "sext"}
  <2>1. 1 \in DOMAIN r.args
    BY <1>1, <1>6 DEF IsInst, Arity
  <2>2. A!Operand(r.args[1]) = e(1) /\ Canonical(e(1))
    BY <1>2, <2>1
  <2>3. Result(i) = e(1)
    BY <1>6 DEF Result, Converted
  <2> HIDE DEF e
  <2>4. \A v : A!Converted(r, v) = v
    BY <1>6 DEF A!Converted, IsPlain
  <2>5. A!Transfer(i) = A!Strict({e(1)}, Val(e(1).value))
    BY <1>6, <2>2, <2>4, SameLattice DEF A!Transfer
  <2> QED
    BY <2>2, <2>3, <2>5, SameLattice DEF A!Strict, Leq, Canonical, Bottom, Top, Val, Elem
<1>7. CASE r.op = "phi"
  <2> DEFINE live == {k \in DOMAIN r.args : A!Feasible(r.from[k], fn.parent[i])
                                            /\ r.from[k] \in {b \in Blocks(fn) : Reachable(b)}}
             S == {A!Operand(r.args[k]) : k \in live}
  <2>1. A!Transfer(i) = A!Join(S)
    BY <1>7 DEF A!Transfer
  <2>2. Result(i) = Join(Merging(i))
    BY <1>7 DEF Result
  <2>3. \A k \in DOMAIN r.args : Canonical(e(k)) /\ Leq(e(k), e(k))
    BY <1>2, LeqReflexive DEF CanonicalEntry
  <2>4. \A x \in S : \E y \in Merging(i) : x = y
    BY <1>2 DEF Merging
  <2>5. \A y \in Merging(i) : Canonical(y) /\ Leq(y, y)
    BY <1>2, <2>3 DEF Merging
  <2> HIDE DEF S
  <2>6. Leq(Join(S), Join(Merging(i)))
    BY <2>4, <2>5, JoinMonotone
  <2> QED
    BY <2>1, <2>2, <2>6, SameLattice
<1>8. CASE r.op \notin {"binop", "icmp", "cast", "zext", "sext", "phi"}
  <2>1. Result(i) = Top
    BY <1>1, <1>8 DEF Result, IsPlain, NumSuccs
  <2> QED
    BY <2>1 DEF Leq, Top, Elem
<1> QED
  BY <1>4, <1>5, <1>6, <1>7, <1>8

(* The terminator of a block is one of its instructions. *)
LEMMA TerminatorFacts ==
  ASSUME NEW f, IsFunction(f), NEW b \in Blocks(f)
  PROVE  Terminator(f, b) \in Insts(f) /\ f.parent[Terminator(f, b)] = b
<1>1. f.body[b] \in Seq(Insts(f)) \ {<<>>}
  BY DEF IsFunction
<1>2. Len(f.body[b]) \in DOMAIN f.body[b]
  BY <1>1
<1> QED
  BY <1>1, <1>2 DEF Terminator, IsFunction

(* An edge that the claims leave open leads to a reachable block. *)
LEMMA FeasibleReached ==
  ASSUME AscentInv, IsPlain(fn), AllSettled, NEW a \in Blocks(fn), Reachable(a),
         NEW b \in Succs(fn, a), A!Feasible(a, b)
  PROVE  Reachable(b)
<1> DEFINE i == Terminator(fn, a)
           t == fn.inst[i]
<1>1. TypeOK /\ Justified /\ IsFunction(fn)
  BY DEF AscentInv, TypeOK
<1>2. i \in Insts(fn) /\ fn.parent[i] = a /\ IsInst(fn, i)
  BY <1>1, TerminatorFacts DEF IsFunction
<1>3. Settled(i)
  BY <1>2 DEF AllSettled
<1>4. A!Terminator(fn, a) = i
  BY SameGraph
<1>5. b \in {t.succs[k] : k \in DOMAIN t.succs}
  BY DEF Succs
<1> HIDE DEF i
<1>6. CASE t.op = "br"
  <2>1. b = t.succs[1]
    BY <1>4, <1>6 DEF A!Feasible
  <2> QED
    BY <1>3, <1>6, <2>1 DEF Settled
<1>7. CASE t.op = "condbr"
  <2> DEFINE c == LatticeElem(t.args[1])
  <2>1. DOMAIN t.succs = 1 .. 2 /\ 1 \in DOMAIN t.args
    BY <1>2, <1>7 DEF IsInst, NumSuccs, Arity
  <2>2. A!Operand(t.args[1]) = c
    BY <1>1, <1>2, <2>1, OperandsAgree
  <2>3. BranchSettled(t)
    BY <1>3, <1>7 DEF Settled
  <2>4. c.state = "value" => Reachable(t.succs[IF c.value = 0 THEN 2 ELSE 1])
    BY <2>3 DEF BranchSettled
  <2>5. c.state # "value" => Reachable(t.succs[1]) /\ Reachable(t.succs[2])
    BY <2>3 DEF BranchSettled
  <2> HIDE DEF c
  <2>6. c.state = "value" => b = t.succs[IF c.value = 0 THEN 2 ELSE 1]
    BY <1>4, <1>7, <2>2 DEF A!Feasible
  <2>7. b = t.succs[1] \/ b = t.succs[2]
    BY <1>5, <2>1
  <2> QED
    BY <2>4, <2>5, <2>6, <2>7
<1>8. CASE t.op # "br" /\ t.op # "condbr"
  BY <1>4, <1>8 DEF A!Feasible
<1> QED
  BY <1>6, <1>7, <1>8

(* Once everything is settled the tables keep the promise of *)
(* ConstantAnalysis.                                         *)
LEMMA ClaimsCovered ==
  ASSUME Ordered, IsPlain(fn), AllSettled, ZeroFree
  PROVE  A!Covered
<1> DEFINE reach == {b \in Blocks(fn) : Reachable(b)}
           known == [i \in Insts(fn) |-> LatticeElem(Ref(i))]
<1>1. AscentInv /\ IsForward(fn) /\ Reachable(Entry(fn)) /\ IsFunction(fn)
  BY DEF Ordered, AscentInv, TypeOK
<1>2. Entry(fn) \in reach
  <2>1. Len(fn.layout) \in Nat /\ fn.layout # <<>> /\ fn.layout \in Seq(Blocks(fn))
    BY <1>1 DEF IsFunction
  <2>2. 1 \in 1 .. Len(fn.layout)
    BY <2>1
  <2> QED
    BY <1>1, <2>1, <2>2 DEF Entry
<1>3. ASSUME NEW a \in reach, NEW b \in Succs(fn, a), A!Feasible(a, b)
      PROVE  b \in reach
  <2>1. Reachable(b)
    BY <1>1, <1>3, FeasibleReached
  <2>2. Succs(fn, a) \subseteq Blocks(fn)
    <3>1. Terminator(fn, a) \in Insts(fn)
      BY <1>1, TerminatorFacts
    <3>2. IsInst(fn, Terminator(fn, a))
      BY <1>1, <3>1 DEF IsFunction
    <3> QED
      BY <3>2 DEF Succs, IsInst
  <2> QED
    BY <2>1, <2>2
<1>4. ASSUME NEW i \in Insts(fn), fn.parent[i] \in reach,
             fn.inst[i].op \notin DOMAIN NumSuccs
      PROVE  Leq(A!Transfer(i), known[i])
  <2>1. Settled(i) /\ fn.inst[i].op \notin {"br", "condbr"}
    BY <1>4 DEF AllSettled, NumSuccs
  <2>2. Claim(i) = Revisit(i)
    BY <2>1 DEF Settled
  <2>3. Revisit(i) = Result(i)
    BY <1>4 DEF Revisit, ZeroFree
  <2>4. known[i] = Claim(i)
    BY ClaimIsElem
  <2> QED
    BY <1>1, <1>4, <2>2, <2>3, <2>4, TransferBelow
<1>5. /\ A!Entry(fn) \in reach
      /\ \A a \in reach : \A b \in A!Succs(fn, a) : A!Feasible(a, b) => b \in reach
      /\ \A i \in A!Insts(fn) :
           fn.parent[i] \in reach /\ fn.inst[i].op \notin DOMAIN A!NumSuccs
             => A!Leq(A!Transfer(i), known[i])
  BY <1>2, <1>3, <1>4, SameGraph, SameCalculation, SameLattice
<1> QED
  BY <1>5 DEF A!Covered

(* The run has not begun. *)
AtStart ==
  /\ block = Entry(fn)
  /\ rest = fn.body[Entry(fn)]
  /\ env = [i \in Insts(fn) |-> {}]

(* When the analysis ends, the run is at the entry and within the claims. *)
LEMMA StartsWithin ==
  ForwardInv /\ IsPlain(fn) /\ ZeroFree /\ phase = "analysed" /\ AtStart => A!IInv
<1> SUFFICES ASSUME ForwardInv, IsPlain(fn), ZeroFree, phase = "analysed", AtStart
             PROVE  A!IInv
  OBVIOUS
<1> DEFINE reach == {b \in Blocks(fn) : Reachable(b)}
           known == [i \in Insts(fn) |-> LatticeElem(Ref(i))]
<1>1. /\ Ordered /\ AllSettled /\ AscentInv /\ IsFunction(fn) /\ fn \in Functions
      /\ TypeOK /\ Justified /\ Reachable(Entry(fn))
  BY DEF ForwardInv, Ordered, AscentInv, TypeOK
<1>2. A!Covered
  BY <1>1, ClaimsCovered
<1>3. block \in reach
  BY <1>2, SameGraph DEF A!Covered, AtStart
<1>4. ASSUME NEW i \in Insts(fn) PROVE Canonical(known[i])
  <2>1. known[i] = Read(constantTable[i])
    BY ClaimIsElem DEF Claim
  <2>2. CanonicalEntry(constantTable[i])
    BY <1>1 DEF Justified
  <2> HIDE DEF known
  <2> QED
    BY <2>1, <2>2 DEF CanonicalEntry, Read, Canonical, Bottom, Elem
<1>5. /\ rest \in Seq(Insts(fn))
      /\ \A k \in DOMAIN rest : fn.parent[rest[k]] = block
  BY <1>1, <1>3 DEF AtStart, IsFunction
<1>6. A!Shape
  <2>1. env = [i \in Insts(fn) |-> env[i]]
    BY DEF AtStart
  <2>2. A!RestInBlock
    BY <1>5, SameGraph DEF A!RestInBlock
  <2> QED
    BY <1>1, <1>3, <1>4, <2>1, <2>2, SameGraph, SameLattice DEF A!Shape
<1>7. A!EnvCovered
  BY SameGraph DEF A!EnvCovered, AtStart
<1> QED
  BY <1>2, <1>3, <1>6, <1>7 DEF A!IInv

(* Before the analysis ends the run waits; then it is within the claims. *)
RunInv ==
  /\ ForwardInv /\ BranchesAgree /\ IsPlain(fn)
  /\ phase # "analysed" => AtStart
  /\ phase = "analysed" /\ ZeroFree => A!IInv

(* The run stays within them, as AnalysedRunProofs shows of every analysis *)
(* that keeps the promise.                                                 *)
LEMMA RunKeeps ==
  ASSUME A!IInv, [A!RunProgram]_<<A!analysisVars, A!runVars>>
  PROVE  A!IInv'
<1>1. \A f \in Functions : A!IsFunction(f)
  BY SccpAssumption, SameFunction
<1>2. [A!RunNext]_<<A!analysisVars, A!runVars>>
  BY DEF A!RunNext
<1> QED
  BY <1>1, <1>2, SccpAssumption, SccpRunAssumption, A!NextPreserves

(* The functions that the last theorem is about. *)
OnlyPlain == OnlyForward /\ \A f \in Functions : IsPlain(f)

(* Before the analysis the run has not begun. *)
LEMMA InitRun == OnlyPlain /\ RunInit => RunInv
<1> SUFFICES ASSUME OnlyPlain, RunInit PROVE RunInv
  OBVIOUS
<1>1. ForwardInv /\ IsPlain(fn) /\ phase # "analysed"
  BY InitOrdered DEF OnlyPlain, RunInit, Init
<1>2. AtStart
  BY DEF RunInit, Program!RunInit, AtStart, Program!Entry, Program!Insts, Entry, Insts
<1>3. BranchesAgree
  BY DEF RunInit, Init, BranchesAgree, Claim, Read
<1> QED
  BY <1>1, <1>2, <1>3 DEF RunInv

(* Results do not change once the analysis is over. *)
LEMMA ZeroFreeKept ==
  ASSUME UNCHANGED vars
  PROVE  ZeroFree' <=> ZeroFree
<1>1. fn' = fn /\ blockTable' = blockTable /\ constantTable' = constantTable
  BY DEF vars
<1> QED
  BY <1>1 DEF ZeroFree, Result, Reachable, LatticeElem, Merging, Incoming

(* There are visits only during the analysis. *)
LEMMA VisitAnalyses == Visit => phase = "analyse"
<1> SUFFICES ASSUME Visit PROVE phase = "analyse"
  OBVIOUS
<1>1. \E ops : Visiting(ops)
  BY DEF Visit, VisitMemory, VisitAlloca, VisitCall, VisitGetElementPtr,
     VisitLoad, VisitStore, VisitPtrToInt, VisitIntToPtr, VisitBinaryOperator,
     VisitCast, VisitICmp, VisitExtOrTrunc, VisitPHI, VisitBr, VisitCondBr,
     VisitReturn
<1> QED
  BY <1>1 DEF Visiting

(* The analysis leaves the run alone, the run leaves the analysis alone. *)
LEMMA NextRun == RunInv /\ [RunNext]_<<vars, runVars>> => RunInv'
<1> SUFFICES ASSUME RunInv, [RunNext]_<<vars, runVars>> PROVE RunInv'
  OBVIOUS
<1>1. ForwardInv /\ BranchesAgree /\ IsPlain(fn) /\ [Next]_vars
  BY DEF RunInv, RunNext, Analyse, RunProgram
<1>2. ForwardInv' /\ BranchesAgree'
  <2>1. ForwardInv'
    BY <1>1, NextOrdered
  <2> QED
    BY <1>1, <2>1, NextBranches DEF ForwardInv, Ordered
<1>3. fn' = fn
  <2>1. Ordered /\ AscentInv'
    BY <1>1, <1>2 DEF ForwardInv, Ordered
  <2>2. CASE Visit
    BY <2>1, <2>2, VisitMarks
  <2>3. CASE ~Visit
    BY <1>1, <2>3 DEF Next, GetNextBlock, QueueExhausted, Finished, vars
  <2> QED
    BY <2>2, <2>3
<1>4. IsPlain(fn)'
  BY <1>1, <1>3 DEF IsPlain
<1>5. CASE UNCHANGED vars /\ phase = "analysed"
  <2>1. [A!RunProgram]_<<A!analysisVars, A!runVars>>
    <3>1. UNCHANGED A!analysisVars
      BY <1>5 DEF A!analysisVars, vars, Reachable, LatticeElem
    <3>2. Program!Run \/ UNCHANGED runVars
      BY DEF RunNext, Analyse, RunProgram
    <3>3. A!Program!Run \/ UNCHANGED A!runVars
      BY <3>2, SameRun DEF runVars, A!runVars
    <3> QED
      BY <1>5, <3>1, <3>3 DEF A!RunProgram
  <2>2. ZeroFree' => ZeroFree
    BY <1>5, ZeroFreeKept
  <2>3. phase' = phase
    BY <1>5 DEF vars
  <2> QED
    BY <1>2, <1>4, <1>5, <2>1, <2>2, <2>3, RunKeeps DEF RunInv
<1>6. CASE phase # "analysed"
  <2>1. UNCHANGED runVars
    BY <1>6 DEF RunNext, Analyse, RunProgram
  <2>2. AtStart'
    BY <1>3, <1>6, <2>1 DEF RunInv, AtStart, runVars, Entry, Insts
  <2>3. (ForwardInv /\ IsPlain(fn) /\ ZeroFree /\ phase = "analysed" /\ AtStart => A!IInv)'
    BY StartsWithin, PTL
  <2> QED
    BY <1>2, <1>4, <2>2, <2>3 DEF RunInv
<1>7. CASE phase = "analysed" /\ ~UNCHANGED vars
  <2>1. Next
    BY <1>7 DEF RunNext, Analyse, RunProgram, vars
  <2> QED
    BY <1>7, <2>1, VisitAnalyses DEF Next, Finished, GetNextBlock, QueueExhausted
<1> QED
  BY <1>5, <1>6, <1>7

(* The branch that the run is about to take goes the way it is folded to. *)
LEMMA FoldedWay ==
  ASSUME RunInv, A!IInv, phase = "analysed", rest # <<>>,
         fn.inst[Head(rest)].op = "condbr",
         LatticeElem(Ref(Head(rest))).state = "value",
         NEW c \in Program!Operand(fn.inst[Head(rest)].args[1])
  PROVE  c = LatticeElem(Ref(Head(rest))).value
<1> DEFINE i == Head(rest)
           o == fn.inst[i].args[1]
<1>1. A!Shape /\ A!EnvCovered /\ TypeOK /\ BranchesAgree /\ IsPlain(fn)
  BY DEF A!IInv, RunInv, ForwardInv, Ordered, AscentInv
<1>2. i \in Insts(fn)
  BY <1>1, SameGraph DEF A!Shape, A!RestInBlock
<1>3. 1 \in DOMAIN fn.inst[i].args /\ fn.inst[i].op = "condbr"
  BY <1>1, <1>2, FirstOperand
<1> HIDE DEF i
<1>4. LatticeElem(Ref(i)) = LatticeElem(o)
  <2>1. LatticeElem(Ref(i)) = Claim(i) /\ LatticeElem(Ref(i)) # Bottom
    BY ClaimIsElem DEF Bottom, Elem, i
  <2> QED
    BY <1>1, <1>2, <1>3, <2>1 DEF BranchesAgree
<1>5. c \in A!Program!Operand(o)
  BY DEF Program!Operand, A!Program!Operand, i
<1>6. A!Leq(A!Val(c), A!Operand(o))
  <2>1. \A f \in Functions : A!IsFunction(f)
    BY SccpAssumption, SameFunction
  <2> QED
    BY <1>1, <1>2, <1>3, <1>5, <2>1, SccpAssumption, SccpRunAssumption,
       SameGraph, A!OperandIsCovered
<1>7. Leq(Val(c), LatticeElem(o))
  BY <1>1, <1>2, <1>3, <1>6, SameLattice, OperandsAgree
<1> QED
  BY <1>4, <1>7 DEF Leq, Val, Elem, i

(* The claims that deleteDeadBlocks and tearDownInsts act on are true of    *)
(* every run with every input: a block that is to be deleted is never       *)
(* entered, an instruction that is to be replaced by a constant computes    *)
(* that constant and nothing else, and a branch that is to be folded is     *)
(* never taken the other way.                                               *)
THEOREM ClaimsAreTrue == OnlyPlain => (RunSpec => [](ZeroFree => ClaimsHold))
<1>1. RunInv => (ZeroFree => ClaimsHold)
  <2> SUFFICES ASSUME RunInv, ZeroFree, phase = "analysed"
               PROVE  ClaimsHold
    BY DEF ClaimsHold, ClaimedValuesHold, FoldedBranchesHold
  <2>1. A!IInv
    BY DEF RunInv
  <2>2. Reachable(block) /\ A!EnvCovered
    BY <2>1 DEF A!IInv
  <2>3. \A i \in Insts(fn) : \A v \in env[i] : Leq(Val(v), LatticeElem(Ref(i)))
    BY <2>2, SameGraph, SameLattice DEF A!EnvCovered
  <2>4. \A v : ~Leq(Val(v), Bottom)
    BY DEF Leq, Val, Bottom, Elem
  <2>5. ASSUME rest # <<>>, fn.inst[Head(rest)].op = "condbr",
               LatticeElem(Ref(Head(rest))).state = "value",
               NEW c \in Program!Operand(fn.inst[Head(rest)].args[1])
        PROVE  c = 0 <=> LatticeElem(Ref(Head(rest))).value = 0
    BY <2>1, <2>5, FoldedWay
  <2>6. \A i \in Insts(fn) : \A v \in env[i] :
          Leq(Val(v), LatticeElem(Ref(i))) /\ LatticeElem(Ref(i)) # Bottom
    BY <2>3, <2>4
  <2> QED
    BY <2>2, <2>5, <2>6 DEF ClaimsHold, ClaimedValuesHold, FoldedBranchesHold
<1> QED
  BY <1>1, InitRun, NextRun, PTL DEF RunSpec

-----------------------------------------------------------------------------

(* Every block of S is the entry or follows one of S. *)
Supported(f, S) ==
  \A b \in S : b = Entry(f) \/ \E a \in S : b \in Succs(f, a)

(* The block in which operand k of instruction i has to be there: that of   *)
(* the instruction, or the one a phi takes it from.                         *)
UsedIn(f, i, k) ==
  IF f.inst[i].op = "phi" THEN f.inst[i].from[k] ELSE f.parent[i]

(* LLVM's verifier demands this of every function: definitions dominate     *)
(* their uses (what holds on every path from the entry holds in every       *)
(* supported set), what is used has a result, and phis have edges.          *)
IsDominated(f) ==
  /\ \A S \in SUBSET Blocks(f) : Supported(f, S) =>
       \A i \in Insts(f) : \A k \in DOMAIN f.inst[i].args :
         f.inst[i].args[k].kind = "inst" /\ UsedIn(f, i, k) \in S =>
           f.parent[f.inst[i].args[k].id] \in S
  /\ \A i \in Insts(f) : \A k \in DOMAIN f.inst[i].args :
       f.inst[i].args[k].kind = "inst" =>
         f.inst[f.inst[i].args[k].id].op \notin DOMAIN NumSuccs
  /\ \A i \in Insts(f) : f.inst[i].op = "phi" => DOMAIN f.inst[i].args # {}

OnlyDominated == OnlyForward /\ \A f \in Functions : IsDominated(f)

ReachableBlocks == {b \in Blocks(fn) : Reachable(b)}

(* What is reachable is so from a block that is. *)
Fed == Supported(fn, ReachableBlocks)

(* The operands that a visit to instruction i reads. *)
ReadBy(i) == {fn.inst[i].args[k].id :
                k \in {k \in DOMAIN fn.inst[i].args :
                         /\ fn.inst[i].args[k].kind = "inst"
                         /\ Reachable(UsedIn(fn, i, k))}}

(* Instructions that have their claims: what a visit would record, of all *)
(* that precede them as well.                                             *)
Closed(S) ==
  /\ S \subseteq Insts(fn)
  /\ \A i \in S : /\ Reachable(fn.parent[i])
                  /\ fn.inst[i].op \notin DOMAIN NumSuccs
                  /\ Claim(i) = Result(i)
                  /\ ReadBy(i) \subseteq S

-----------------------------------------------------------------------------
(* A set of numbers has a least member. *)
LEMMA LeastNumber ==
  ASSUME NEW S \in SUBSET Nat, S # {}
  PROVE  \E m \in S : \A k \in S : m <= k
<1>1. PICK m \in S : \A k \in S : ~(<<k, m>> \in OpToRel(<, Nat))
  BY WFMin, NatLessThanWellFounded
<1>2. OpToRel(<, Nat) = {p \in Nat \X Nat : p[1] < p[2]}
  BY DEF OpToRel
<1>3. ASSUME NEW k \in S, k < m PROVE FALSE
  <2> DEFINE p == <<k, m>>
  <2>1. p \in Nat \X Nat /\ p[1] < p[2]
    BY <1>3
  <2> HIDE DEF p
  <2>2. p \in OpToRel(<, Nat)
    BY <1>2, <2>1
  <2> QED
    BY <1>1, <2>2 DEF p
<1> QED
  BY <1>3

(* Of any instructions there is one before all the others. *)
LEMMA FirstInstruction ==
  ASSUME TypeOK, IsForward(fn), NEW S \in SUBSET Insts(fn), S # {}
  PROVE  \E i \in S : \A j \in S : ~Precedes(fn, j, i)
<1>1. IsFunction(fn)
  BY DEF TypeOK
<1>2. \A i \in Insts(fn) : /\ fn.parent[i] \in Blocks(fn) /\ Line(fn, i) \in Nat
  <2>1. \A i \in Insts(fn) : /\ fn.parent[i] \in Blocks(fn)
                             /\ Line(fn, i) \in 1 .. Len(fn.body[fn.parent[i]])
    BY <1>1, Lines
  <2> QED
    BY <2>1
<1>3. \A b \in Blocks(fn) : Place(fn, b) \in Nat /\ fn.layout[Place(fn, b)] = b
  <2>1. \A b \in Blocks(fn) : /\ Place(fn, b) \in 1 .. Len(fn.layout)
                              /\ fn.layout[Place(fn, b)] = b
    BY <1>1, Places
  <2> QED
    BY <2>1
<1> DEFINE P == {Place(fn, fn.parent[i]) : i \in S}
<1>4. P \in SUBSET Nat /\ P # {}
  BY <1>2, <1>3
<1>5. PICK p \in P : \A k \in P : p <= k
  BY <1>4, LeastNumber
<1> DEFINE L == {Line(fn, i) : i \in {i \in S : Place(fn, fn.parent[i]) = p}}
<1>6. L \in SUBSET Nat /\ L # {}
  BY <1>2, <1>5
<1>7. PICK d \in L : \A k \in L : d <= k
  BY <1>6, LeastNumber
<1>8. PICK i \in S : Place(fn, fn.parent[i]) = p /\ Line(fn, i) = d
  BY <1>7
<1>9. ASSUME NEW j \in S, Precedes(fn, j, i) PROVE FALSE
  <2>1. Place(fn, fn.parent[j]) \in P
    OBVIOUS
  <2>2. p <= Place(fn, fn.parent[j])
    BY <1>5, <2>1
  <2>3. p \in Nat /\ Place(fn, fn.parent[j]) \in Nat /\ d \in Nat /\ Line(fn, j) \in Nat
    BY <1>2, <1>3, <1>4, <1>6
  <2>4. fn.parent[i] = fn.parent[j] /\ Line(fn, j) < Line(fn, i)
    BY <1>8, <1>9, <2>2, <2>3 DEF Precedes
  <2>5. Line(fn, j) \in L
    BY <1>8, <2>4
  <2> QED
    BY <1>7, <1>8, <2>3, <2>4, <2>5
<1> QED
  BY <1>9

-----------------------------------------------------------------------------
(* Operands that are no instructions have a value or are unknown. *)
LEMMA OtherOperands ==
  ASSUME NEW o, IsOperand(fn, o), o.kind # "inst"
  PROVE  LatticeElem(o) # Bottom /\ Incoming(o) # Bottom
BY DEF LatticeElem, Incoming, IsOperand, Bottom, Val, Top, Elem, Arg, OtherConstant

(* The merge of elements that are not bottom is not bottom. *)
LEMMA JoinValued ==
  ASSUME NEW S, S # {}, \A e \in S : Canonical(e) /\ e # Bottom
  PROVE  Join(S) # Bottom
<1>1. \A e \in S : e.state = "value" \/ e.state = "top"
  BY DEF Canonical, Bottom, Top, Val, Elem
<1> DEFINE values == {e \in S : e.state = "value"}
           tops   == {e \in S : e.state = "top"}
<1>2. values # {} \/ tops # {}
  BY <1>1
<1>3. CASE tops = {} /\ (\E e \in S : values = {e})
  <2>1. PICK e \in S : values = {e}
    BY <1>3
  <2>2. (CHOOSE x \in S : values = {x}) = e
    BY <2>1
  <2>3. Join(S) = e
    BY <1>3, <2>1, <2>2 DEF Join
  <2> QED
    BY <2>3
<1>4. CASE ~(tops = {} /\ (\E e \in S : values = {e}))
  <2>1. Join(S) = Top
    BY <1>2, <1>4 DEF Join
  <2> QED
    BY <2>1 DEF Top, Bottom, Elem
<1> QED
  BY <1>3, <1>4

(* What a reachable phi merges comes over some edge. *)
LEMMA PhiIsFed ==
  ASSUME TypeOK, IsDominated(fn), Fed, NEW i \in Insts(fn),
         fn.inst[i].op = "phi", Reachable(fn.parent[i])
  PROVE  \E k \in DOMAIN fn.inst[i].args : Reachable(fn.inst[i].from[k])
<1> DEFINE b == fn.parent[i]
           r == fn.inst[i]
<1>1. /\ IsInst(fn, i) /\ b \in Blocks(fn) /\ Preds(fn, Entry(fn)) = {}
  BY DEF TypeOK, IsFunction
<1>2. /\ DOMAIN r.from = DOMAIN r.args /\ DOMAIN r.args # {}
      /\ {r.from[k] : k \in DOMAIN r.from} = Preds(fn, b)
  BY <1>1 DEF IsInst, IsDominated
<1>3. b # Entry(fn)
  BY <1>1, <1>2
<1>4. PICK a \in ReachableBlocks : b \in Succs(fn, a)
  BY <1>1, <1>3 DEF Fed, Supported, ReachableBlocks
<1>5. a \in Preds(fn, b) /\ Reachable(a)
  BY <1>4 DEF Preds, ReachableBlocks
<1> QED
  BY <1>2, <1>5

(* An instruction whose operands have claims has a result. *)
LEMMA ResultValued ==
  ASSUME AscentInv, IsDominated(fn), Fed, NEW i \in Insts(fn),
         Reachable(fn.parent[i]), \A j \in ReadBy(i) : Claim(j) # Bottom
  PROVE  Result(i) # Bottom
<1> DEFINE r    == fn.inst[i]
           e(k) == LatticeElem(r.args[k])
<1>1. IsInst(fn, i) /\ TypeOK /\ Justified
  BY DEF AscentInv, TypeOK, IsFunction
<1>2. ASSUME NEW k \in DOMAIN r.args
      PROVE  Canonical(e(k)) /\ Canonical(Incoming(r.args[k]))
  <2>1. IsOperand(fn, r.args[k])
    BY <1>1 DEF IsInst
  <2> QED
    BY <1>1, <2>1, ReadsCanonical
<1>3. ASSUME NEW k \in DOMAIN r.args, Reachable(UsedIn(fn, i, k))
      PROVE  e(k) # Bottom /\ Incoming(r.args[k]) # Bottom
  <2>1. IsOperand(fn, r.args[k])
    BY <1>1 DEF IsInst
  <2>2. CASE r.args[k].kind = "inst"
    <3>1. Claim(r.args[k].id) # Bottom
      BY <1>3, <2>2 DEF ReadBy
    <3>2. e(k) = Claim(r.args[k].id)
      BY <2>2 DEF LatticeElem, Claim, Read
    <3> QED
      BY <2>2, <3>1, <3>2 DEF Incoming
  <2> QED
    BY <2>1, <2>2, OtherOperands
<1>4. ASSUME r.op # "phi", NEW k \in DOMAIN r.args PROVE e(k) # Bottom
  BY <1>3, <1>4 DEF UsedIn
<1>5. CASE r.op \in {"binop", "icmp"}
  <2>1. 1 \in DOMAIN r.args /\ 2 \in DOMAIN r.args
    BY <1>1, <1>5 DEF IsInst, Arity
  <2>2. Canonical(e(1)) /\ Canonical(e(2)) /\ e(1) # Bottom /\ e(2) # Bottom
    BY <1>2, <1>4, <1>5, <2>1
  <2>3. e(1).state # "bottom" /\ e(2).state # "bottom"
    BY <2>2 DEF Canonical, Bottom, Top, Val, Elem
  <2> HIDE DEF e
  <2>4. \A x : Strict(e(1), e(2), x) = Top \/ Strict(e(1), e(2), x) = x
    BY <2>3 DEF Strict
  <2>5. CASE r.op = "binop"
    <3>1. Result(i) = Strict(e(1), e(2), Val(Calculate(r.fun, e(1).value, e(2).value, IntModulus)))
      BY <2>5 DEF Result, e
    <3> QED
      BY <2>4, <3>1 DEF Top, Val, Bottom, Elem
  <2>6. CASE r.op = "icmp"
    <3>1. Result(i) = Strict(e(1), e(2),
                IF r.fun \in Predicates
                  THEN Val(ToInt(Holds(r.fun, e(1).value, e(2).value)))
                  ELSE Top)
      BY <2>6 DEF Result, e
    <3> QED
      BY <2>4, <3>1 DEF Top, Val, Bottom, Elem
  <2> QED
    BY <1>5, <2>5, <2>6
<1>6. CASE r.op \in {"cast", "condbr", "zext", "sext", "trunc"}
  <2>1. 1 \in DOMAIN r.args
    BY <1>1, <1>6 DEF IsInst, Arity
  <2>2. Canonical(e(1)) /\ e(1) # Bottom
    BY <1>2, <1>4, <1>6, <2>1
  <2>3. e(1).state # "bottom"
    BY <2>2 DEF Canonical, Bottom, Top, Val, Elem
  <2>4. Result(i) = e(1) \/ Result(i) = Converted(r, e(1))
    BY <1>6 DEF Result
  <2> HIDE DEF e
  <2>5. Converted(r, e(1)).state = e(1).state
    BY <2>2 DEF Converted, Canonical, Bottom, Top, Val, Elem
  <2> QED
    BY <2>3, <2>4, <2>5 DEF Bottom, Elem
<1>7. CASE r.op = "phi"
  <2>1. Result(i) = Join(Merging(i))
    BY <1>7 DEF Result
  <2>2. Merging(i) # {}
    BY <1>1, <1>7, PhiIsFed DEF Merging
  <2>3. \A x \in Merging(i) : Canonical(x) /\ x # Bottom
    BY <1>2, <1>3, <1>7 DEF Merging, UsedIn
  <2> QED
    BY <2>1, <2>2, <2>3, JoinValued
<1>8. CASE r.op \notin {"binop", "icmp", "cast", "condbr", "zext", "sext",
                        "trunc", "phi"}
  BY <1>8 DEF Result, Top, Bottom, Elem
<1> QED
  BY <1>5, <1>6, <1>7, <1>8

(* What has its claims has no claim of bottom: the first that had one would *)
(* have operands without one.                                               *)
LEMMA NoneBottom ==
  ASSUME AscentInv, IsForward(fn), IsDominated(fn), Fed, NEW S, Closed(S),
         NEW i \in S
  PROVE  Claim(i) # Bottom
<1> DEFINE B == {j \in S : Claim(j) = Bottom}
<1>1. SUFFICES ASSUME B # {} PROVE FALSE
  OBVIOUS
<1>2. TypeOK /\ B \in SUBSET Insts(fn)
  BY DEF AscentInv, Closed
<1>3. PICK j \in B : \A k \in B : ~Precedes(fn, k, j)
  BY <1>1, <1>2, FirstInstruction
<1>4. /\ j \in Insts(fn) /\ Reachable(fn.parent[j]) /\ Claim(j) = Result(j)
      /\ ReadBy(j) \subseteq S
  BY <1>3 DEF Closed
<1>5. \A k \in ReadBy(j) : Precedes(fn, k, j)
  BY <1>4 DEF ReadBy, IsForward
<1>6. \A k \in ReadBy(j) : Claim(k) # Bottom
  BY <1>3, <1>4, <1>5
<1>7. Result(j) # Bottom
  BY <1>4, <1>6, ResultValued
<1> QED
  BY <1>3, <1>4, <1>7

-----------------------------------------------------------------------------
(* Of what a visit reads the block is reachable: it lies on every way there. *)
LEMMA ReadsReachable ==
  ASSUME TypeOK, IsForward(fn), IsDominated(fn), Fed, NEW i \in Insts(fn),
         NEW j \in ReadBy(i)
  PROVE  /\ j \in Insts(fn) /\ Reachable(fn.parent[j])
         /\ fn.inst[j].op \notin DOMAIN NumSuccs
         /\ Precedes(fn, j, i)
<1>1. PICK k \in DOMAIN fn.inst[i].args :
        /\ fn.inst[i].args[k].kind = "inst" /\ fn.inst[i].args[k].id = j
        /\ Reachable(UsedIn(fn, i, k))
  BY DEF ReadBy
<1>2. j \in Insts(fn) /\ Precedes(fn, j, i)
  BY <1>1, OperandsPrecede
<1>3. UsedIn(fn, i, k) \in Blocks(fn)
  <2>1. CASE fn.inst[i].op = "phi"
    BY <2>1, EdgesForward DEF UsedIn
  <2>2. CASE fn.inst[i].op # "phi"
    BY <2>2 DEF UsedIn, TypeOK, IsFunction
  <2> QED
    BY <2>1, <2>2
<1>4. ReachableBlocks \in SUBSET Blocks(fn) /\ UsedIn(fn, i, k) \in ReachableBlocks
  BY <1>1, <1>3 DEF ReachableBlocks
<1>5. fn.parent[j] \in ReachableBlocks
  BY <1>1, <1>4 DEF IsDominated, Fed
<1>6. fn.inst[j].op \notin DOMAIN NumSuccs
  BY <1>1 DEF IsDominated
<1> QED
  BY <1>2, <1>5, <1>6 DEF ReachableBlocks

(* What precedes an instruction behind the pass is behind it too, and so is *)
(* what precedes the instruction the pass is at.                            *)
LEMMA BehindBefore ==
  ASSUME TypeOK, IsForward(fn), NEW p \in Nat, NEW d \in Nat,
         NEW i \in Insts(fn), NEW j \in Insts(fn), Precedes(fn, j, i),
         \/ Behind(i, p, d)
         \/ Place(fn, fn.parent[i]) = p /\ Line(fn, i) = d + 1
  PROVE  Behind(j, p, d)
<1>1. IsFunction(fn)
  BY DEF TypeOK
<1>2. ASSUME NEW x \in Insts(fn)
      PROVE  Place(fn, fn.parent[x]) \in Int /\ Line(fn, x) \in Int
  <2>1. fn.parent[x] \in Blocks(fn) /\ Line(fn, x) \in 1 .. Len(fn.body[fn.parent[x]])
    BY <1>1, Lines
  <2>2. Place(fn, fn.parent[x]) \in 1 .. Len(fn.layout)
    BY <1>1, <2>1, Places
  <2> QED
    BY <2>1, <2>2
<1> QED
  BY <1>2 DEF Precedes, Behind

(* What the pass has settled, those that compute something. *)
SettledBehind(p, d) ==
  {i \in Insts(fn) : /\ Reachable(fn.parent[i]) /\ Behind(i, p, d)
                     /\ fn.inst[i].op \notin DOMAIN NumSuccs}

SettledAll ==
  {i \in Insts(fn) : /\ Reachable(fn.parent[i])
                     /\ fn.inst[i].op \notin DOMAIN NumSuccs}

(* Without results 0, what is settled is recorded. *)
LEMMA SettledRecorded ==
  ASSUME ZeroFree, NEW i \in Insts(fn), Reachable(fn.parent[i]), Settled(i),
         fn.inst[i].op \notin DOMAIN NumSuccs
  PROVE  Claim(i) = Result(i)
BY DEF ZeroFree, Settled, Revisit, NumSuccs

(* What the pass has settled has its claims, and no claim of bottom. *)
LEMMA BehindValued ==
  ASSUME Ordered, IsDominated(fn), Fed, ZeroFree, NEW p, NEW d, FirstPass(p, d),
         NEW i \in SettledBehind(p, d)
  PROVE  Claim(i) # Bottom
<1>1. AscentInv /\ TypeOK /\ IsForward(fn) /\ p \in Nat /\ d \in Nat
  <2>1. AscentInv /\ TypeOK /\ IsForward(fn) /\ IsFunction(fn)
    BY DEF Ordered, AscentInv, TypeOK
  <2>2. Len(fn.layout) \in Nat /\ p \in 0 .. Len(fn.layout) /\ d \in Nat
    BY <2>1, Places DEF FirstPass
  <2> QED
    BY <2>1, <2>2
<1>2. ASSUME NEW j \in SettledBehind(p, d)
      PROVE  /\ j \in Insts(fn) /\ Reachable(fn.parent[j])
             /\ fn.inst[j].op \notin DOMAIN NumSuccs
             /\ Claim(j) = Result(j)
             /\ ReadBy(j) \subseteq SettledBehind(p, d)
  <2>1. /\ j \in Insts(fn) /\ Reachable(fn.parent[j]) /\ Behind(j, p, d)
        /\ fn.inst[j].op \notin DOMAIN NumSuccs
    BY DEF SettledBehind
  <2>2. Claim(j) = Result(j)
    BY <2>1, SettledRecorded DEF FirstPass
  <2>3. ASSUME NEW k \in ReadBy(j) PROVE k \in SettledBehind(p, d)
    <3>1. /\ k \in Insts(fn) /\ Reachable(fn.parent[k]) /\ Precedes(fn, k, j)
          /\ fn.inst[k].op \notin DOMAIN NumSuccs
      BY <1>1, <2>1, ReadsReachable
    <3>2. Behind(k, p, d)
      BY <1>1, <2>1, <3>1, BehindBefore
    <3> QED
      BY <3>1, <3>2 DEF SettledBehind
  <2> QED
    BY <2>1, <2>2, <2>3
<1>3. Closed(SettledBehind(p, d))
  BY <1>2 DEF Closed
<1> QED
  BY <1>1, <1>3, NoneBottom

(* The same when everything is settled. *)
LEMMA AllValued ==
  ASSUME Ordered, IsDominated(fn), Fed, ZeroFree, AllSettled, NEW i \in SettledAll
  PROVE  Claim(i) # Bottom
<1>1. AscentInv /\ TypeOK /\ IsForward(fn)
  BY DEF Ordered, AscentInv
<1>2. ASSUME NEW j \in SettledAll
      PROVE  /\ j \in Insts(fn) /\ Reachable(fn.parent[j])
             /\ fn.inst[j].op \notin DOMAIN NumSuccs
             /\ Claim(j) = Result(j)
             /\ ReadBy(j) \subseteq SettledAll
  <2>1. /\ j \in Insts(fn) /\ Reachable(fn.parent[j])
        /\ fn.inst[j].op \notin DOMAIN NumSuccs
    BY DEF SettledAll
  <2>2. Claim(j) = Result(j)
    BY <2>1, SettledRecorded DEF AllSettled
  <2>3. ASSUME NEW k \in ReadBy(j) PROVE k \in SettledAll
    BY <1>1, <2>1, ReadsReachable DEF SettledAll
  <2> QED
    BY <2>1, <2>2, <2>3
<1>3. Closed(SettledAll)
  BY <1>2 DEF Closed
<1> QED
  BY <1>1, <1>3, NoneBottom

(* So a visit finds claims of all it reads, and computes a result. *)
LEMMA HeadValued ==
  ASSUME Ordered, IsDominated(fn), Fed, ZeroFree, todo # <<>>,
         AllSettled \/ \E p, d : FirstPass(p, d)
  PROVE  /\ \A j \in ReadBy(inst) : Claim(j) # Bottom
         /\ Result(inst) # Bottom
<1>1. AscentInv /\ TypeOK /\ IsForward(fn) /\ IsFunction(fn)
  BY DEF Ordered, AscentInv, TypeOK
<1>2. inst \in Insts(fn) /\ Reachable(fn.parent[inst])
  BY VisitedReachable
<1>3. ASSUME NEW j \in ReadBy(inst) PROVE Claim(j) # Bottom
  <2>1. /\ j \in Insts(fn) /\ Reachable(fn.parent[j]) /\ Precedes(fn, j, inst)
        /\ fn.inst[j].op \notin DOMAIN NumSuccs
    BY <1>1, <1>2, ReadsReachable
  <2>2. CASE AllSettled
    BY <2>1, <2>2, AllValued DEF SettledAll
  <2>3. ASSUME NEW p, NEW d, FirstPass(p, d) PROVE Claim(j) # Bottom
    <3>1. /\ p \in 1 .. Len(fn.layout) /\ d \in Nat /\ Len(fn.layout) \in Nat
          /\ Place(fn, fn.parent[inst]) = p /\ Line(fn, inst) = d + 1
      BY <1>1, <2>3, HeadPosition, Places
    <3>2. Behind(j, p, d)
      BY <1>1, <1>2, <2>1, <3>1, BehindBefore
    <3> QED
      BY <2>1, <2>3, <3>2, BehindValued DEF SettledBehind
  <2> QED
    BY <2>2, <2>3
<1>4. Result(inst) # Bottom
  BY <1>1, <1>2, <1>3, ResultValued
<1> QED
  BY <1>3, <1>4

-----------------------------------------------------------------------------
(* What a visit marks follows the block it is in. *)
LEMMA VisitFeeds ==
  ASSUME Ordered, AscentInv', Visit, Fed
  PROVE  Fed'
<1>1. IsForward(fn) /\ AscentInv /\ TypeOK /\ IsFunction(fn)
  BY DEF Ordered, AscentInv, TypeOK
<1>2. CASE fn' = fn /\ blockTable' = blockTable
  BY <1>2 DEF Fed, Supported, ReachableBlocks, Reachable
<1>3. CASE todo # <<>> /\ VisitEffect
  <2>1. inst \in Insts(fn) /\ Reachable(fn.parent[inst])
    BY <1>3, VisitedReachable
  <2>2. fn.parent[inst] \in ReachableBlocks
    BY <1>1, <2>1 DEF ReachableBlocks, IsFunction
  <2>3. /\ fn' = fn /\ ReachableBlocks \subseteq ReachableBlocks'
        /\ \A b \in ReachableBlocks' :
             b \in ReachableBlocks \/ b \in Succs(fn, fn.parent[inst])
    BY <1>3 DEF VisitEffect, ReachableBlocks
  <2>4. \A b \in ReachableBlocks' :
          b = Entry(fn) \/ \E a \in ReachableBlocks' : b \in Succs(fn, a)
    BY <2>2, <2>3 DEF Fed, Supported
  <2> QED
    BY <2>3, <2>4 DEF Fed, Supported
<1>4. CASE PlainVisit
  BY <1>1, <1>2, <1>3, <1>4, PlainVisitEffect, PlainSettles
<1>5. CASE VisitBr
  <2>1. todo # <<>>
    BY <1>5 DEF VisitBr, Visiting
  <2> QED
    BY <1>3, <1>5, <2>1, BrSettles
<1>6. CASE VisitCondBr
  <2>1. todo # <<>>
    BY <1>6 DEF VisitCondBr, Visiting
  <2> QED
    BY <1>3, <1>6, <2>1, CondBrSettles
<1> QED
  BY <1>4, <1>5, <1>6 DEF Visit, PlainVisit

(* A visit that dies has found a phi that merges nothing. *)
LEMMA DeathIsBottom ==
  ASSUME AscentInv, AscentInv', IsForward(fn), Visit,
         phase' = "phi_without_value"
  PROVE  /\ todo # <<>> /\ Result(inst) = Bottom
         /\ UNCHANGED <<fn, blockTable, constantTable, workQueue, todo, visited>>
<1>1. phase = "analyse"
  BY VisitAnalyses
<1>2. CASE VisitPHI
  <2> DEFINE live  == {k \in DOMAIN instr.args : Reachable(instr.from[k])}
             seen  == {k \in live : \A a \in live : arg(a) = Arg => k < a}
             new   == Join({Incoming(arg(k)) : k \in live})
             table == LookUp(Operands(seen) \union {inst})
  <2>1. ~Keep(table) /\ ~Raise(table, new)
    <3> HIDE DEF table, new
    <3> QED
      BY <1>1 DEF Keep, Raise, Insert
  <2>2. new = Bottom
    <3>1. ASSUME new # Bottom PROVE Keep(table) \/ Raise(table, new)
      BY <1>2, <3>1 DEF VisitPHI
    <3> HIDE DEF table, new
    <3> QED
      BY <2>1, <3>1
  <2>3. Visiting({"phi"})
    BY <1>2 DEF VisitPHI
  <2>4. fn.inst[inst].op = "phi" /\ instr = fn.inst[inst] /\ todo # <<>>
    BY <2>3 DEF Visiting, instr, inst
  <2>5. Merging(inst) = {Incoming(arg(k)) : k \in live}
    BY <2>4 DEF Merging, arg
  <2>6. Result(inst) = new
    BY <2>4, <2>5 DEF Result
  <2>7. UNCHANGED <<fn, blockTable, constantTable, workQueue, todo, visited>>
    BY <1>2, <2>2 DEF VisitPHI
  <2> QED
    BY <2>2, <2>4, <2>6, <2>7
<1>3. CASE PlainVisit /\ ~VisitPHI
  <2>1. Effect
    BY <1>3, MemoryEffect, BinaryOperatorEffect, CastEffect, ICmpEffect,
       ExtOrTruncEffect, ReturnEffect DEF PlainVisit
  <2> QED
    BY <1>1, <2>1 DEF Effect
<1>4. CASE VisitBr
  BY <1>1, <1>4 DEF VisitBr
<1>5. CASE VisitCondBr
  BY <1>1, <1>5 DEF VisitCondBr, Keep, Insert
<1> QED
  BY <1>2, <1>3, <1>4, <1>5 DEF Visit, PlainVisit

(* The inductive invariant: a phi without value is one of a function with *)
(* results 0.                                                             *)
DominatedInv ==
  /\ ForwardInv /\ IsDominated(fn) /\ Fed
  /\ phase = "phi_without_value" => ~ZeroFree

(* At first only the entry is reachable. *)
LEMMA InitDominated == OnlyDominated /\ Init => DominatedInv
<1> SUFFICES ASSUME OnlyDominated, Init PROVE DominatedInv
  OBVIOUS
<1>1. ForwardInv /\ IsDominated(fn) /\ phase # "phi_without_value"
  BY InitOrdered DEF OnlyDominated, Init
<1>2. \A b \in Blocks(fn) : Reachable(b) => b = Entry(fn)
  BY DEF Init, Reachable
<1>3. Fed
  BY <1>2 DEF Fed, Supported, ReachableBlocks
<1> QED
  BY <1>1, <1>3 DEF DominatedInv

(* The results that count are the same when the tables are. *)
LEMMA ZeroFreeStays ==
  ASSUME UNCHANGED <<fn, blockTable, constantTable>>
  PROVE  ZeroFree' <=> ZeroFree
BY DEF ZeroFree, Result, Reachable, LatticeElem, Merging, Incoming

(* No step ends at a phi without value while there is no result 0. *)
LEMMA NextDominated == DominatedInv /\ [Next]_vars => DominatedInv'
<1> SUFFICES ASSUME DominatedInv, [Next]_vars PROVE DominatedInv'
  OBVIOUS
<1>1. ForwardInv' /\ ForwardInv
  BY NextOrdered DEF DominatedInv
<1>2. /\ Ordered /\ (AllSettled \/ \E p, d : FirstPass(p, d))
      /\ AscentInv /\ AscentInv' /\ IsForward(fn)
  BY <1>1 DEF ForwardInv, Ordered
<1>3. CASE Visit
  <2>1. fn' = fn /\ Fed'
    BY <1>2, <1>3, VisitMarks, VisitFeeds DEF DominatedInv
  <2>2. ASSUME phase' = "phi_without_value" PROVE ~ZeroFree'
    <3>1. /\ todo # <<>> /\ Result(inst) = Bottom
          /\ UNCHANGED <<fn, blockTable, constantTable, workQueue, todo, visited>>
      BY <1>2, <1>3, <2>2, DeathIsBottom
    <3>2. ~ZeroFree
      BY <1>2, <3>1, HeadValued DEF DominatedInv
    <3> QED
      BY <3>1, <3>2, ZeroFreeStays
  <2> QED
    BY <1>1, <2>1, <2>2 DEF DominatedInv
<1>4. CASE GetNextBlock \/ QueueExhausted \/ UNCHANGED vars
  <2>1. UNCHANGED <<fn, blockTable, constantTable>>
    BY <1>4 DEF GetNextBlock, QueueExhausted, vars
  <2>2. phase' = "phi_without_value" => phase = "phi_without_value"
    BY <1>4 DEF GetNextBlock, QueueExhausted, vars
  <2>3. Fed'
    BY <2>1 DEF DominatedInv, Fed, Supported, ReachableBlocks, Reachable
  <2>4. ZeroFree' <=> ZeroFree
    BY <2>1, ZeroFreeStays
  <2> QED
    BY <1>1, <2>1, <2>2, <2>3, <2>4 DEF DominatedInv
<1> QED
  BY <1>3, <1>4 DEF Next, Finished

(* The assertion of visitPHINode holds: whenever a phi is visited, some     *)
(* predecessor of its block has delivered a value (sccp_pass.cc:546).  Only *)
(* a result 0 may be taken for none.                                        *)
THEOREM PhisHaveValues == OnlyDominated => (Spec => [](ZeroFree => PhiHasValue))
<1>1. DominatedInv => (ZeroFree => PhiHasValue)
  BY DEF DominatedInv, PhiHasValue
<1> QED
  BY <1>1, InitDominated, NextDominated, PTL DEF Spec

-----------------------------------------------------------------------------
(* The instance of ConstantAnalysis that Sccp implements and the one that   *)
(* AnalysedRunProofs is about are the same.                                 *)
LEMMA SameElements ==
  /\ Abstract!Top = Top /\ Abstract!Bottom = Bottom
  /\ \A v : Abstract!Val(v) = Val(v)
  /\ \A S : Abstract!Join(S) = Join(S)
  /\ \A d, e : Abstract!Leq(d, e) <=> Leq(d, e)
  /\ \A o : Abstract!Operand(o) = A!Operand(o)
<1>1. /\ Abstract!Top = Top /\ Abstract!Bottom = Bottom
      /\ \A v : Abstract!Val(v) = Val(v)
      /\ \A S : Abstract!Join(S) = Join(S)
      /\ \A d, e : Abstract!Leq(d, e) <=> Leq(d, e)
  BY DEF Abstract!Top, Abstract!Bottom, Abstract!Val, Abstract!Leq, Abstract!Join,
         Abstract!Elem, Top, Bottom, Val, Leq, Join, Elem
<1>2. \A o : Abstract!Operand(o) = A!Operand(o)
  BY <1>1, SameLattice DEF Abstract!Operand, A!Operand
<1> QED
  BY <1>1, <1>2

(* The promise sees the same graph of the function. *)
LEMMA SameFunctionGraph ==
  /\ \A f : /\ Abstract!Blocks(f) = Blocks(f) /\ Abstract!Insts(f) = Insts(f)
            /\ Abstract!Entry(f) = Entry(f)
  /\ \A f, b : Abstract!Terminator(f, b) = Terminator(f, b)
  /\ \A f, b : Abstract!Succs(f, b) = Succs(f, b)
  /\ \A f : Abstract!IsFunction(f) <=> IsFunction(f)
  /\ Abstract!NumSuccs = NumSuccs
<1>1. \A f : /\ Abstract!Blocks(f) = Blocks(f) /\ Abstract!Insts(f) = Insts(f)
            /\ Abstract!Entry(f) = Entry(f)
  BY DEF Abstract!Blocks, Blocks, Abstract!Insts, Insts, Abstract!Entry, Entry
<1>2. \A f, b : Abstract!Terminator(f, b) = Terminator(f, b)
  BY DEF Abstract!Terminator, Terminator
<1>3. \A f, b : Abstract!Succs(f, b) = Succs(f, b)
  BY <1>2 DEF Abstract!Succs, Succs
<1>4. Abstract!Arity = Arity /\ Abstract!NumSuccs = NumSuccs
      /\ Abstract!AnyArity = AnyArity
      /\ Abstract!Arg = Arg /\ Abstract!OtherConstant = OtherConstant
  BY DEF Abstract!Arity, Arity, Abstract!NumSuccs, NumSuccs, Abstract!AnyArity,
     AnyArity, Abstract!Arg, Arg, Abstract!OtherConstant, OtherConstant
<1>5. \A f, b : Abstract!Preds(f, b) = Preds(f, b)
  BY <1>1, <1>3 DEF Abstract!Preds, Preds
<1>6. \A f, i : Abstract!Uses(f, i) = Uses(f, i)
  BY <1>1 DEF Abstract!Uses, Uses, Abstract!Ref, Ref
<1>7. \A f, o : Abstract!IsOperand(f, o) <=> IsOperand(f, o)
  BY <1>4 DEF Abstract!IsOperand, IsOperand
<1>8. ASSUME NEW f, NEW i PROVE Abstract!IsInst(f, i) <=> IsInst(f, i)
  <2>1. /\ Abstract!Terminator(f, f.parent[i]) = Terminator(f, f.parent[i])
        /\ Abstract!Preds(f, f.parent[i]) = Preds(f, f.parent[i])
        /\ Abstract!IsFiniteSet(Abstract!Uses(f, i)) <=> IsFiniteSet(Uses(f, i))
        /\ \A k : Abstract!IsOperand(f, f.inst[i].args[k])
                    <=> IsOperand(f, f.inst[i].args[k])
    BY <1>2, <1>5, <1>6, <1>7 DEF Abstract!IsFiniteSet, IsFiniteSet
  <2> DEFINE ops == \A k \in DOMAIN f.inst[i].args : IsOperand(f, f.inst[i].args[k])
  <2>2. (\A k \in DOMAIN f.inst[i].args :
           Abstract!IsOperand(f, f.inst[i].args[k])) <=> ops
    BY <2>1
  <2> QED
    BY <1>1, <1>4, <2>1, <2>2 DEF Abstract!IsInst, IsInst
<1>9. ASSUME NEW f PROVE Abstract!IsFunction(f) <=> IsFunction(f)
  BY <1>1, <1>4, <1>5, <1>8 DEF Abstract!IsFunction, IsFunction
<1> QED
  BY <1>1, <1>2, <1>3, <1>4, <1>9

(* The promise, read here and in AnalysedRunProofs, justifies the same results. *)
LEMMA SameTransfer ==
  /\ \A a, b : Abstract!Feasible(a, b) <=> A!Feasible(a, b)
  /\ \A i : Abstract!Transfer(i) = A!Transfer(i)
<1>1. ASSUME NEW a, NEW b PROVE Abstract!Feasible(a, b) <=> A!Feasible(a, b)
  BY SameElements, SameLattice, SameFunctionGraph, SameGraph
  DEF Abstract!Feasible, A!Feasible
<1>2. \A S, x : Abstract!Strict(S, x) = A!Strict(S, x)
  BY SameElements, SameLattice DEF Abstract!Strict, A!Strict
<1>3. \A r, v : Abstract!Converted(r, v) = A!Converted(r, v)
  BY DEF Abstract!Converted, A!Converted, Abstract!Signed, A!Signed
<1>4. /\ Abstract!Operators = A!Operators /\ Abstract!Predicates = A!Predicates
      /\ \A f, a, b, m : Abstract!Calculate(f, a, b, m) = A!Calculate(f, a, b, m)
      /\ \A f, a, b : Abstract!ToInt(Abstract!Holds(f, a, b)) = A!ToInt(A!Holds(f, a, b))
  <2>1. /\ Abstract!Operators = A!Operators /\ Abstract!Predicates = A!Predicates
    BY DEF Abstract!Operators, A!Operators, Abstract!Predicates, A!Predicates
  <2>2. \A f, a, b, m : Abstract!Calculate(f, a, b, m) = A!Calculate(f, a, b, m)
    BY DEF Abstract!Calculate, A!Calculate, Abstract!Signed, A!Signed
  <2>3. \A f, a, b : Abstract!ToInt(Abstract!Holds(f, a, b)) = A!ToInt(A!Holds(f, a, b))
    BY DEF Abstract!ToInt, A!ToInt, Abstract!Holds, A!Holds
  <2> QED
    BY <2>1, <2>2, <2>3
<1>5. ASSUME NEW i PROVE Abstract!Transfer(i) = A!Transfer(i)
  <2>1. /\ \A o : Abstract!Operand(o) = A!Operand(o)
        /\ \A S : Abstract!Join(S) = A!Join(S)
        /\ Abstract!Top = A!Top /\ Abstract!Bottom = A!Bottom
        /\ \A v : Abstract!Val(v) = A!Val(v)
    BY SameElements, SameLattice
  <2> QED
    BY <1>1, <1>2, <1>3, <1>4, <2>1 DEF Abstract!Transfer, A!Transfer
<1> QED
  BY <1>1, <1>5

(* The promise, read here and in AnalysedRunProofs, asks for the same at the end. *)
LEMMA SameCovered == Abstract!Covered <=> A!Covered
<1>1. /\ \A d, e : Abstract!Leq(d, e) <=> A!Leq(d, e)
      /\ \A f, b : Abstract!Succs(f, b) = A!Succs(f, b)
      /\ \A f : Abstract!Entry(f) = A!Entry(f) /\ Abstract!Insts(f) = A!Insts(f)
      /\ Abstract!NumSuccs = A!NumSuccs
  BY SameElements, SameLattice, SameFunctionGraph, SameGraph, SameCalculation
<1> QED
  BY <1>1, SameTransfer DEF Abstract!Covered, A!Covered

-----------------------------------------------------------------------------
(* The edge can be taken, going by the present claim of the condition. *)
Open(a, b) ==
  LET t == fn.inst[Terminator(fn, a)]
      c == LatticeElem(t.args[1])
  IN
  \/ t.op = "br" /\ b = t.succs[1]
  \/ /\ t.op = "condbr" /\ c.state = "value"
     /\ b = t.succs[IF c.value = 0 THEN 2 ELSE 1]
  \/ t.op = "condbr" /\ c.state = "top" /\ b \in Succs(fn, a)

(* Every reachable block but the entry follows one over such an edge. *)
OpenlyFed ==
  \A b \in ReachableBlocks :
    b = Entry(fn) \/ \E a \in ReachableBlocks : Open(a, b)

(* These are the edges that ConstantAnalysis takes for feasible. *)
LEMMA OpenIsFeasible ==
  ASSUME TypeOK, IsPlain(fn), NEW a \in Blocks(fn), NEW b
  PROVE  Abstract!Feasible(a, b) <=> Open(a, b)
<1> DEFINE i == Terminator(fn, a)
           t == fn.inst[i]
           c == LatticeElem(t.args[1])
<1>1. i \in Insts(fn) /\ IsInst(fn, i)
  BY TerminatorFacts DEF TypeOK, IsFunction
<1>2. Abstract!Terminator(fn, a) = i /\ Abstract!Succs(fn, a) = Succs(fn, a)
  BY SameFunctionGraph
<1>3. t.op = "condbr" => Abstract!Operand(t.args[1]) = c
  BY <1>1, OperandsAgree, SameElements DEF IsInst, Arity
<1>4. Open(a, b) <=>
        \/ t.op = "br" /\ b = t.succs[1]
        \/ /\ t.op = "condbr" /\ c.state = "value"
           /\ b = t.succs[IF c.value = 0 THEN 2 ELSE 1]
        \/ t.op = "condbr" /\ c.state = "top" /\ b \in Succs(fn, a)
  BY DEF Open
<1> HIDE DEF c, i
<1> QED
  BY <1>2, <1>3, <1>4 DEF Abstract!Feasible

(* They are edges, and they stay open when the claims ascend. *)
LEMMA OpenIsEdge ==
  ASSUME TypeOK, NEW a \in Blocks(fn), NEW b, Open(a, b)
  PROVE  b \in Succs(fn, a)
<1> DEFINE i == Terminator(fn, a)
           t == fn.inst[i]
<1>1. IsInst(fn, i)
  BY TerminatorFacts DEF TypeOK, IsFunction
<1>2. t.op = "br" => 1 \in DOMAIN t.succs
  BY <1>1 DEF IsInst, NumSuccs
<1>3. t.op = "condbr" => 1 \in DOMAIN t.succs /\ 2 \in DOMAIN t.succs
  BY <1>1 DEF IsInst, NumSuccs
<1>4. Succs(fn, a) = {t.succs[k] : k \in DOMAIN t.succs}
  BY DEF Succs
<1> QED
  BY <1>2, <1>3, <1>4 DEF Open

(* An edge that the tables leave open stays so while they ascend. *)
LEMMA OpenStays ==
  ASSUME Upward, NEW a \in Blocks(fn), NEW b, Open(a, b)
  PROVE  Open(a, b)'
<1> DEFINE i == Terminator(fn, a)
           t == fn.inst[i]
           c == LatticeElem(t.args[1])
           e == LatticeElem(t.args[1])'
<1>1. IsInst(fn, i) /\ fn' = fn /\ TypeOK
  BY TerminatorFacts DEF Upward, TypeOK, IsFunction
<1>2. t.op = "condbr" => Leq(c, e) /\ Canonical(e) /\ b \in Succs(fn, a)
  <2>1. ASSUME t.op = "condbr" PROVE IsOperand(fn, t.args[1])
    BY <1>1, <2>1 DEF IsInst, Arity
  <2> QED
    BY <1>1, <2>1, ReadsAscend, OpenIsEdge
<1>3. Terminator(fn, a)' = i /\ Succs(fn, a)' = Succs(fn, a)
  BY <1>1 DEF Terminator, Succs
<1>4. Open(a, b)' <=>
        \/ t.op = "br" /\ b = t.succs[1]
        \/ /\ t.op = "condbr" /\ e.state = "value"
           /\ b = t.succs[IF e.value = 0 THEN 2 ELSE 1]
        \/ t.op = "condbr" /\ e.state = "top" /\ b \in Succs(fn, a)
  BY <1>1, <1>3 DEF Open
<1>5. \/ t.op = "br" /\ b = t.succs[1]
      \/ /\ t.op = "condbr" /\ c.state = "value"
         /\ b = t.succs[IF c.value = 0 THEN 2 ELSE 1]
      \/ t.op = "condbr" /\ c.state = "top" /\ b \in Succs(fn, a)
  BY DEF Open
<1> HIDE DEF c, e, t
<1>6. ASSUME Leq(c, e), Canonical(e) PROVE c.state = "value" => c = e \/ e.state = "top"
  BY <1>6 DEF Leq
<1>7. ASSUME Leq(c, e), Canonical(e) PROVE c.state = "top" => e.state = "top"
  BY <1>7 DEF Leq
<1> QED
  BY <1>2, <1>4, <1>5, <1>6, <1>7

-----------------------------------------------------------------------------
(* The merge of some of the elements is that of all, or that is top. *)
LEMMA JoinOfPart ==
  ASSUME NEW S, NEW P \in SUBSET S, P # {},
         \A e \in S : Canonical(e) /\ e # Bottom
  PROVE  Join(S) \in {Join(P), Top}
<1>1. SUFFICES ASSUME Join(S) # Top PROVE Join(S) = Join(P)
  OBVIOUS
<1>2. \A e \in S : e.state = "value" \/ e.state = "top"
  BY DEF Canonical, Bottom, Top, Val, Elem
<1> DEFINE values == {e \in S : e.state = "value"}
           tops   == {e \in S : e.state = "top"}
<1>3. values # {} \/ tops # {}
  BY <1>2
<1>4. tops = {} /\ \E e \in S : values = {e}
  BY <1>1, <1>3 DEF Join
<1>5. PICK e \in S : values = {e}
  BY <1>4
<1>6. S = {e} /\ P = {e} /\ e.state = "value"
  BY <1>2, <1>4, <1>5
<1> QED
  BY <1>6

(* What a visit computes is what ConstantAnalysis justifies, or top. *)
LEMMA ResultIsTransfer ==
  ASSUME AscentInv, IsForward(fn), IsPlain(fn), IsDominated(fn), Fed, OpenlyFed,
         NEW i \in Insts(fn), Reachable(fn.parent[i]),
         \A j \in ReadBy(i) : Claim(j) # Bottom
  PROVE  Result(i) \in {Abstract!Transfer(i), Top}
<1> DEFINE r    == fn.inst[i]
           e(k) == LatticeElem(r.args[k])
           sum  == Val(Calculate(r.fun, e(1).value, e(2).value, IntModulus))
           holds == Val(ToInt(Holds(r.fun, e(1).value, e(2).value)))
<1>1. IsInst(fn, i) /\ TypeOK /\ Justified
  BY DEF AscentInv, TypeOK, IsFunction
<1>2. ASSUME NEW k \in DOMAIN r.args
      PROVE  A!Operand(r.args[k]) = e(k) /\ Incoming(r.args[k]) = e(k) /\ Canonical(e(k))
  <2>1. IsOperand(fn, r.args[k])
    BY <1>1 DEF IsInst
  <2> QED
    BY <1>1, <2>1, OperandsAgree, ReadsCanonical
<1>3. ASSUME NEW k \in DOMAIN r.args, Reachable(UsedIn(fn, i, k))
      PROVE  e(k) # Bottom
  <2>1. IsOperand(fn, r.args[k])
    BY <1>1 DEF IsInst
  <2>2. CASE r.args[k].kind = "inst"
    <3>1. Claim(r.args[k].id) # Bottom
      BY <1>3, <2>2 DEF ReadBy
    <3> QED
      BY <2>2, <3>1 DEF LatticeElem, Claim, Read
  <2> QED
    BY <2>1, <2>2, OtherOperands
<1>4. ASSUME r.op # "phi", NEW k \in DOMAIN r.args PROVE e(k) # Bottom
  BY <1>3, <1>4 DEF UsedIn
<1>5. Abstract!Transfer(i) = A!Transfer(i)
  BY SameTransfer
<1>6. CASE r.op \in {"binop", "icmp"}
  <2>1. 1 \in DOMAIN r.args /\ 2 \in DOMAIN r.args
    BY <1>1, <1>6 DEF IsInst, Arity
  <2>2. /\ A!Operand(r.args[1]) = e(1) /\ A!Operand(r.args[2]) = e(2)
        /\ Canonical(e(1)) /\ Canonical(e(2)) /\ e(1) # Bottom /\ e(2) # Bottom
    BY <1>2, <1>4, <1>6, <2>1
  <2> HIDE DEF e
  <2>3. ASSUME NEW x PROVE A!Strict({e(1), e(2)}, x) = Strict(e(1), e(2), x)
    BY <2>2, SameLattice DEF A!Strict, Strict, Canonical, Bottom, Top, Val, Elem
  <2>4. CASE r.op = "binop"
    <3>1. r.fun \in Operators
      BY <2>4 DEF AscentInv
    <3>2. Result(i) = Strict(e(1), e(2), sum)
      BY <2>4 DEF Result, e
    <3>3. A!Transfer(i) = A!Strict({e(1), e(2)}, sum)
      BY <2>2, <2>4, <3>1, SameCalculation, SameLattice DEF A!Transfer
    <3> HIDE DEF sum
    <3> QED
      BY <1>5, <2>3, <3>2, <3>3
  <2>5. CASE r.op = "icmp"
    <3>1. r.fun \in Predicates
      BY <2>5 DEF IsForward
    <3>2. Result(i) = Strict(e(1), e(2), holds)
      BY <2>5, <3>1 DEF Result, e
    <3>3. A!Transfer(i) = A!Strict({e(1), e(2)}, holds)
      BY <2>2, <2>5, <3>1, SameCalculation, SameLattice DEF A!Transfer
    <3> HIDE DEF holds
    <3> QED
      BY <1>5, <2>3, <3>2, <3>3
  <2> QED
    BY <1>6, <2>4, <2>5
<1>7. CASE r.op \in {"cast", "zext", "sext"}
  <2>1. 1 \in DOMAIN r.args
    BY <1>1, <1>7 DEF IsInst, Arity
  <2>2. A!Operand(r.args[1]) = e(1) /\ Canonical(e(1)) /\ e(1) # Bottom
    BY <1>2, <1>4, <1>7, <2>1
  <2>3. Result(i) = e(1)
    BY <1>7 DEF Result, Converted, IsPlain
  <2> HIDE DEF e
  <2>4. \A v : A!Converted(r, v) = v
    BY <1>7 DEF A!Converted, IsPlain
  <2>5. A!Transfer(i) = A!Strict({e(1)}, Val(e(1).value))
    BY <1>7, <2>2, <2>4, SameLattice DEF A!Transfer
  <2>6. A!Strict({e(1)}, Val(e(1).value)) = e(1)
    BY <2>2, SameLattice DEF A!Strict, Canonical, Bottom, Top, Val, Elem
  <2> QED
    BY <1>5, <2>3, <2>5, <2>6
<1>8. CASE r.op = "condbr"
  <2>1. 1 \in DOMAIN r.args
    BY <1>1, <1>8 DEF IsInst, Arity
  <2>2. Result(i) = e(1) /\ A!Operand(r.args[1]) = e(1)
    BY <1>2, <1>8, <2>1 DEF Result
  <2>3. A!Transfer(i) = A!Operand(r.args[1])
    BY <1>8 DEF A!Transfer
  <2> QED
    BY <1>5, <2>2, <2>3
<1>9. CASE r.op = "phi"
  <2> DEFINE b == fn.parent[i]
             S == {e(k) : k \in {k \in DOMAIN r.args : Reachable(r.from[k])}}
             P == {e(k) : k \in {k \in DOMAIN r.args : Reachable(r.from[k])
                                                      /\ Open(r.from[k], b)}}
  <2>1. /\ DOMAIN r.from = DOMAIN r.args /\ DOMAIN r.args # {}
        /\ {r.from[k] : k \in DOMAIN r.from} = Preds(fn, b)
        /\ b \in Blocks(fn) /\ Preds(fn, Entry(fn)) = {}
    BY <1>1, <1>9 DEF IsInst, IsDominated, TypeOK, IsFunction
  <2>2. b # Entry(fn) /\ \A k \in DOMAIN r.args : r.from[k] \in Blocks(fn)
    BY <2>1 DEF Preds
  <2>3. PICK a \in ReachableBlocks : Open(a, b)
    BY <2>1, <2>2 DEF OpenlyFed, ReachableBlocks
  <2>4. a \in Preds(fn, b)
    BY <1>1, <2>3, OpenIsEdge DEF Preds, ReachableBlocks
  <2>5. P # {}
    BY <2>1, <2>3, <2>4 DEF ReachableBlocks
  <2>6. \A x \in S : Canonical(x) /\ x # Bottom
    BY <1>2, <1>3, <1>9 DEF UsedIn
  <2>7. Result(i) = Join(S)
    <3>1. Merging(i) = S
      BY <1>2 DEF Merging
    <3> QED
      BY <1>9, <3>1 DEF Result
  <2>8. Abstract!Transfer(i) = Join(P)
    <3> DEFINE F == {k \in DOMAIN r.args :
                       r.from[k] \in ReachableBlocks /\ Abstract!Feasible(r.from[k], b)}
    <3>1. {A!Operand(r.args[k]) : k \in F} = P
      BY <1>1, <1>2, <2>2, OpenIsFeasible DEF ReachableBlocks
    <3>2. Abstract!Transfer(i) = Abstract!Join({Abstract!Operand(r.args[k]) : k \in F})
      BY <1>9 DEF Abstract!Transfer, ReachableBlocks
    <3>3. {Abstract!Operand(r.args[k]) : k \in F} = {A!Operand(r.args[k]) : k \in F}
      BY SameElements
    <3> QED
      BY <3>1, <3>2, <3>3, SameElements
  <2>9. P \in SUBSET S
    OBVIOUS
  <2> HIDE DEF S, P
  <2> QED
    BY <2>5, <2>6, <2>7, <2>8, <2>9, JoinOfPart
<1>10. CASE r.op \notin {"binop", "icmp", "cast", "zext", "sext", "condbr", "phi"}
  BY <1>10 DEF Result, IsPlain
<1> QED
  BY <1>6, <1>7, <1>8, <1>9, <1>10

-----------------------------------------------------------------------------
(* What a visit does to the tables: the claim of its instruction becomes    *)
(* what it computes, or stays, and a branch marks the targets of open edges.*)
Step ==
  /\ fn' = fn /\ phase = "analyse" /\ phase' # "analysed"
  /\ inst \in Insts(fn) /\ Reachable(fn.parent[inst])
  /\ \A j \in Insts(fn) \ {inst} : Read(constantTable'[j]) = Claim(j)
  /\ Read(constantTable'[inst]) \in {Claim(inst), Result(inst)}
  /\ \A b \in Blocks(fn) : Reachable(b) => Reachable(b)'
  /\ \A b \in Blocks(fn) : Reachable(b)' /\ ~Reachable(b) =>
       /\ inst = Terminator(fn, fn.parent[inst])
       /\ Open(fn.parent[inst], b)

(* The visits one by one. *)
LEMMA PlainStep ==
  ASSUME Ordered, AscentInv', PlainVisit
  PROVE  Step \/ (/\ phase = "analyse" /\ phase' # "analysed"
                  /\ UNCHANGED <<fn, blockTable, constantTable>>)
<1>1. AscentInv /\ IsForward(fn)
  BY DEF Ordered
<1>2. phase = "analyse"
  BY VisitAnalyses DEF Visit, PlainVisit
<1>3. CASE Effect /\ inst \in Insts(fn) /\ todo # <<>>
  <2>1. Reachable(fn.parent[inst])
    BY <1>3, VisitedReachable
  <2>2. Revisit(inst) \in {Claim(inst), Result(inst)}
    BY DEF Revisit
  <2> QED
    BY <1>2, <1>3, <2>1, <2>2 DEF Effect, Step, Reachable
<1> QED
  BY <1>1, <1>2, <1>3, PlainVisitEffect

(* A visit to a branch is a step of the promise. *)
LEMMA BrStep ==
  ASSUME Ordered, VisitBr
  PROVE  Step
<1>1. Visiting({"br"}) /\ TypeOK
  BY DEF VisitBr, Ordered, AscentInv
<1>2. /\ inst \in Insts(fn) /\ instr = fn.inst[inst] /\ instr.op = "br"
      /\ IsInst(fn, inst) /\ todo # <<>> /\ phase = "analyse"
  BY <1>1, VisitedInst DEF Visiting
<1>3. Reachable(fn.parent[inst])
  BY <1>2, VisitedReachable
<1>4. inst = Terminator(fn, fn.parent[inst])
  BY <1>2 DEF IsInst, NumSuccs
<1>5. VisitEffect
  BY BrSettles
<1>6. /\ constantTable' = constantTable /\ phase' = phase
      /\ blockTable' = [blockTable EXCEPT ![instr.succs[1]] = "top"]
  BY DEF VisitBr
<1>7. \A b \in Blocks(fn) : blockTable'[b] = "top" /\ ~Reachable(b) => b = instr.succs[1]
  BY <1>1, <1>6 DEF TypeOK, Reachable
<1>8. Open(fn.parent[inst], instr.succs[1])
  BY <1>2, <1>4 DEF Open
<1> QED
  BY <1>2, <1>3, <1>4, <1>5, <1>6, <1>7, <1>8 DEF Step, VisitEffect, Claim, Reachable

(* So is a visit to a conditional branch whose condition has a value. *)
LEMMA CondBrStep ==
  ASSUME Ordered, AscentInv', VisitCondBr, Result(inst) # Bottom
  PROVE  Step
<1> DEFINE cond == LatticeElem(arg(1))
           S    == Operands({1})
           a    == fn.parent[inst]
           t    == instr.succs[1]
           e    == instr.succs[2]
<1>1. Visiting({"condbr"}) /\ TypeOK /\ IsForward(fn) /\ Justified
  BY DEF VisitCondBr, Ordered, AscentInv
<1>2. /\ inst \in Insts(fn) /\ instr = fn.inst[inst] /\ instr.op = "condbr"
      /\ IsInst(fn, inst) /\ todo # <<>> /\ phase = "analyse"
  BY <1>1, VisitedInst DEF Visiting
<1>3. 1 \in DOMAIN instr.args /\ t \in Succs(fn, a) /\ e \in Succs(fn, a)
  <2>1. 1 \in 1 .. NumSuccs["condbr"] /\ 2 \in 1 .. NumSuccs["condbr"]
    BY DEF NumSuccs
  <2>2. t \in Succs(fn, a) /\ e \in Succs(fn, a)
    BY <1>1, <1>2, <2>1, BranchSuccs
  <2> QED
    BY <1>2, <2>2 DEF IsInst, Arity
<1>4. Reachable(a)
  BY <1>2, VisitedReachable
<1>5. inst = Terminator(fn, a)
  BY <1>2 DEF IsInst, NumSuccs
<1>6. VisitEffect
  BY CondBrSettles
<1>7. Result(inst) = cond
  BY <1>2 DEF Result, arg
<1>8. Canonical(cond)
  <2>1. IsOperand(fn, arg(1))
    BY <1>2, <1>3 DEF IsInst, arg
  <2> QED
    BY <1>1, <2>1, ReadsCanonical
<1>9. cond.state = "value" \/ cond.state = "top"
  BY <1>7, <1>8 DEF Canonical, Bottom, Top, Val, Elem
<1>10. /\ cond.state = "value" => Open(a, Taken(cond))
       /\ cond.state = "top" => Open(a, t) /\ Open(a, e)
  <2>1. \A b : Open(a, b) <=>
          \/ cond.state = "value" /\ b = instr.succs[IF cond.value = 0 THEN 2 ELSE 1]
          \/ cond.state = "top" /\ b \in Succs(fn, a)
    BY <1>2, <1>5 DEF Open, arg
  <2> QED
    BY <1>3, <2>1 DEF Taken
<1>11. LookUp(S) \in [Insts(fn) -> Elements]
  BY <1>1, LookUpType
<1>12. Read(LookUp(S)[inst]) = Claim(inst)
  BY <1>2, LookUpKeepsClaims
<1> HIDE DEF S
<1>13. /\ Read(constantTable'[inst]) \in {Claim(inst), cond}
       /\ phase' = phase
       /\ \A b \in Blocks(fn) : blockTable'[b] = "top" /\ ~Reachable(b) =>
            IF cond.state = "value" THEN b = Taken(cond) ELSE b \in {t, e}
  <2>1. CASE cond.state # "value"
    <3>1. /\ constantTable' = LookUp(S) /\ phase' = phase
          /\ blockTable' = [b \in Blocks(fn) |->
                              IF b \in {t, e} THEN "top" ELSE blockTable[b]]
      BY <2>1 DEF VisitCondBr, S
    <3> HIDE DEF cond, t, e
    <3> QED
      BY <1>12, <2>1, <3>1 DEF Reachable
  <2>2. CASE cond.state = "value" /\ Reachable(Taken(cond))
    <3>1. Keep(LookUp(S))
      BY <2>2 DEF VisitCondBr, S
    <3> HIDE DEF cond
    <3> QED
      BY <1>12, <3>1 DEF Keep, Reachable
  <2>3. CASE cond.state = "value" /\ ~Reachable(Taken(cond))
    <3>1. Insert(LookUp(S), cond, <<Taken(cond)>>, {Taken(cond)})
      BY <2>3 DEF VisitCondBr, S
    <3> HIDE DEF cond
    <3>2. phase' # "descended"
      BY DEF AscentInv, NeverDescends
    <3>3. /\ constantTable' = [LookUp(S) EXCEPT ![inst] = cond] /\ phase' = phase
          /\ blockTable' = [b \in Blocks(fn) |->
                              IF b \in {Taken(cond)} THEN "top" ELSE blockTable[b]]
      BY <3>1, <3>2 DEF Insert
    <3>4. constantTable'[inst] = cond
      BY <1>2, <1>11, <3>3
    <3>5. cond # Absent
      BY <1>8 DEF Canonical, Absent, Bottom, Top, Val, Elem
    <3>6. Read(constantTable'[inst]) = cond
      BY <3>4, <3>5 DEF Read
    <3> QED
      BY <2>3, <3>3, <3>6 DEF Reachable
  <2> QED
    BY <2>1, <2>2, <2>3
<1> HIDE DEF cond, t, e
<1>14. \A b \in Blocks(fn) : Reachable(b)' /\ ~Reachable(b) => Open(a, b)
  BY <1>9, <1>10, <1>13 DEF Reachable
<1> QED
  BY <1>2, <1>4, <1>5, <1>6, <1>7, <1>13, <1>14 DEF Step, VisitEffect, Reachable

(* So every visit is such a step, or leaves the tables alone. *)
LEMMA VisitSteps ==
  ASSUME Ordered, AscentInv', Visit, todo # <<>> => Result(inst) # Bottom
  PROVE  Step \/ (/\ phase = "analyse" /\ phase' # "analysed"
                  /\ UNCHANGED <<fn, blockTable, constantTable>>)
<1>1. CASE VisitCondBr
  <2>1. todo # <<>>
    BY <1>1 DEF VisitCondBr, Visiting
  <2> QED
    BY <1>1, <2>1, CondBrStep
<1> QED
  BY <1>1, PlainStep, BrStep DEF Visit, PlainVisit

-----------------------------------------------------------------------------
(* The functions of the refinement: forward, dominated and plain. *)
OnlyRefinable == OnlyDominated /\ OnlyPlain

RefinementInv == DominatedInv /\ IsPlain(fn) /\ OpenlyFed

(* At first, nothing is known. *)
LEMMA InitRefines ==
  ASSUME OnlyRefinable, Init
  PROVE  RefinementInv /\ Abstract!Init
<1>1. DominatedInv /\ IsPlain(fn) /\ IsFunction(fn) /\ Entry(fn) \in Blocks(fn)
  <2>1. DominatedInv /\ fn \in Functions
    BY InitDominated DEF OnlyRefinable, Init
  <2>2. IsFunction(fn)
    BY <2>1, SccpAssumption
  <2>3. Len(fn.layout) \in Nat /\ fn.layout # <<>> /\ fn.layout \in Seq(Blocks(fn))
    BY <2>2 DEF IsFunction
  <2>4. 1 \in 1 .. Len(fn.layout)
    BY <2>3
  <2> QED
    BY <2>1, <2>2, <2>3, <2>4 DEF OnlyRefinable, OnlyPlain, Entry
<1>2. \A b \in Blocks(fn) : Reachable(b) <=> b = Entry(fn)
  BY <1>1 DEF Init, Reachable
<1>3. OpenlyFed
  BY <1>2 DEF OpenlyFed, ReachableBlocks
<1>4. {b \in Blocks(fn) : Reachable(b)} = {Abstract!Entry(fn)}
  BY <1>1, <1>2, SameFunctionGraph
<1>5. \A i \in Insts(fn) : LatticeElem(Ref(i)) = Abstract!Bottom
  BY SameElements DEF Init, LatticeElem, Ref, Absent
<1>6. [i \in Insts(fn) |-> LatticeElem(Ref(i))] = [i \in Abstract!Insts(fn) |-> Abstract!Bottom]
  BY <1>5, SameFunctionGraph
<1>7. phase # "analysed"
  BY DEF Init
<1> QED
  BY <1>1, <1>3, <1>4, <1>6, <1>7, SameFunctionGraph DEF RefinementInv, Abstract!Init

(* A visit evaluates its instruction as ConstantAnalysis permits. *)
LEMMA StepRefines ==
  ASSUME TypeOK, IsPlain(fn), Ascends, TypeOK', Step,
         Result(inst) \in {Abstract!Transfer(inst), Top}
  PROVE  Abstract!Visit(inst)
<1> DEFINE reach == {b \in Blocks(fn) : Reachable(b)}
           known == [i \in Insts(fn) |-> LatticeElem(Ref(i))]
           after  == Read(constantTable'[inst])
           a     == fn.parent[inst]
           R     == reach' \ reach
<1>1. /\ fn' = fn /\ phase = "analyse" /\ phase' # "analysed"
      /\ inst \in Insts(fn) /\ Reachable(a) /\ a \in Blocks(fn)
  BY DEF Step, TypeOK, IsFunction
<1>2. \A i \in Insts(fn) : known[i] = Claim(i) /\ known'[i] = Read(constantTable'[i])
  <2>1. \A i \in Insts(fn) : known[i] = Claim(i)
    BY ClaimIsElem
  <2>2. \A i \in Insts(fn) : known'[i] = LatticeElem(Ref(i))'
    BY <1>1 DEF Ref
  <2>3. \A i \in Insts(fn) : LatticeElem(Ref(i))' = Read(constantTable'[i])
    BY DEF LatticeElem, Ref, Read
  <2> QED
    BY <2>1, <2>2, <2>3
<1>3. known' = [known EXCEPT ![inst] = after]
  <2>1. DOMAIN known' = Insts(fn) /\ known' = [i \in Insts(fn) |-> known'[i]]
    BY <1>1
  <2>2. \A i \in Insts(fn) : i # inst => known'[i] = known[i]
    BY <1>2 DEF Step
  <2>3. known'[inst] = after
    BY <1>1, <1>2
  <2>4. [known EXCEPT ![inst] = after] =
          [i \in Insts(fn) |-> IF i = inst THEN after ELSE known[i]]
    OBVIOUS
  <2> HIDE DEF known, after
  <2> QED
    BY <2>1, <2>2, <2>3, <2>4
<1>4. /\ after \in {known[inst], Abstract!Transfer(inst), Abstract!Top}
      /\ Abstract!Leq(known[inst], after)
  <2>1. after \in {Claim(inst), Abstract!Transfer(inst), Top}
    BY DEF Step
  <2>2. Leq(Claim(inst), after)
    <3>1. Leq(constantTable[inst], constantTable'[inst])
      BY <1>1 DEF Ascends
    <3>2. \A d, f : Leq(d, f) => Leq(Read(d), Read(f))
      BY DEF Leq, Read, Absent, Bottom, Elem
    <3> QED
      BY <3>1, <3>2 DEF Claim
  <2> QED
    BY <1>1, <1>2, <2>1, <2>2, SameElements
<1>5. reach' = reach \union R
  <2>1. reach \subseteq reach'
    BY <1>1 DEF Step
  <2> HIDE DEF reach
  <2> QED
    BY <2>1
<1>6. \A b \in R : inst = Terminator(fn, a) /\ b \in Succs(fn, a) /\ Abstract!Feasible(a, b)
  <2>1. ASSUME NEW b \in R PROVE inst = Terminator(fn, a) /\ Open(a, b)
    BY <1>1 DEF Step
  <2> HIDE DEF R
  <2> QED
    BY <1>1, <2>1, OpenIsEdge, OpenIsFeasible
<1>7. \E Q \in SUBSET {b \in Abstract!Succs(fn, a) : Abstract!Feasible(a, b)} :
        reach' = reach \union (IF inst = Abstract!Terminator(fn, a) THEN Q ELSE {})
  <2> HIDE DEF reach, R
  <2>1. CASE inst = Terminator(fn, a)
    BY <1>5, <1>6, <2>1, SameFunctionGraph
  <2>2. CASE inst # Terminator(fn, a)
    <3>1. R = {}
      BY <1>6, <2>2
    <3> QED
      BY <1>5, <2>2, <3>1, SameFunctionGraph
  <2> QED
    BY <2>1, <2>2
<1>8. (phase = "analysed")' = (phase = "analysed") /\ ~(phase = "analysed")
  BY <1>1
<1>9. a \in reach
  BY <1>1
<1> HIDE DEF reach, after
<1> QED
  BY <1>1, <1>3, <1>4, <1>7, <1>8, <1>9 DEF Abstract!Visit, reach

(* A step that leaves the tables alone is none for ConstantAnalysis. *)
LEMMA TablesStutter ==
  ASSUME UNCHANGED <<fn, blockTable, constantTable>>,
         (phase' = "analysed") <=> (phase = "analysed")
  PROVE  UNCHANGED Abstract!analysisVars
BY DEF Abstract!analysisVars, Reachable, LatticeElem, Ref

(* Open edges stay open, and visits mark their targets only. *)
LEMMA StepFeedsOpenly ==
  ASSUME Upward, OpenlyFed, Step
  PROVE  OpenlyFed'
<1>1. /\ fn' = fn /\ TypeOK /\ fn.parent[inst] \in Blocks(fn)
      /\ Reachable(fn.parent[inst])
      /\ \A b \in Blocks(fn) : Reachable(b) => Reachable(b)'
  BY DEF Step, Upward, TypeOK, IsFunction
<1>2. ReachableBlocks \subseteq ReachableBlocks'
  BY <1>1 DEF ReachableBlocks
<1>3. ASSUME NEW b \in ReachableBlocks', b # Entry(fn)
      PROVE  \E a \in ReachableBlocks' : Open(a, b)'
  <2>1. b \in Blocks(fn) /\ Reachable(b)'
    BY <1>1 DEF ReachableBlocks
  <2>2. \E a \in ReachableBlocks : Open(a, b)
    <3>1. CASE Reachable(b)
      BY <1>3, <2>1, <3>1 DEF OpenlyFed, ReachableBlocks
    <3>2. CASE ~Reachable(b)
      BY <1>1, <2>1, <3>2 DEF Step, ReachableBlocks
    <3> QED
      BY <3>1, <3>2
  <2>3. PICK a \in ReachableBlocks : Open(a, b)
    BY <2>2
  <2>4. a \in Blocks(fn)
    BY DEF ReachableBlocks
  <2>5. Open(a, b)'
    BY <2>3, <2>4, OpenStays
  <2> QED
    BY <1>2, <2>5
<1>4. Entry(fn)' = Entry(fn)
  BY <1>1 DEF Entry
<1> QED
  BY <1>3, <1>4 DEF OpenlyFed

(* The same when the tables stay. *)
LEMMA StutterFeedsOpenly ==
  ASSUME UNCHANGED <<fn, blockTable, constantTable>>, OpenlyFed
  PROVE  OpenlyFed'
<1>1. ReachableBlocks' = ReachableBlocks /\ Entry(fn)' = Entry(fn)
  BY DEF ReachableBlocks, Reachable, Entry
<1>2. \A a, b : Open(a, b)' <=> Open(a, b)
  BY DEF Open, LatticeElem, Terminator, Succs
<1> QED
  BY <1>1, <1>2 DEF OpenlyFed

(* A visit. *)
LEMMA VisitRefines ==
  ASSUME RefinementInv, DominatedInv', Ascends, ZeroFree, Visit
  PROVE  /\ fn' = fn /\ OpenlyFed'
         /\ \/ Abstract!Visit(inst) /\ inst \in Insts(fn)
            \/ UNCHANGED Abstract!analysisVars
<1>1. /\ Ordered /\ (AllSettled \/ \E p, d : FirstPass(p, d))
      /\ AscentInv /\ IsForward(fn) /\ TypeOK /\ Justified
      /\ IsDominated(fn) /\ Fed /\ IsPlain(fn) /\ OpenlyFed
  BY DEF RefinementInv, DominatedInv, ForwardInv, Ordered, AscentInv
<1>2. AscentInv' /\ TypeOK' /\ Justified'
  BY DEF DominatedInv, ForwardInv, Ordered, AscentInv
<1>3. todo # <<>> => /\ \A j \in ReadBy(inst) : Claim(j) # Bottom
                     /\ Result(inst) # Bottom
  BY <1>1, HeadValued
<1>4. Step \/ (/\ phase = "analyse" /\ phase' # "analysed"
               /\ UNCHANGED <<fn, blockTable, constantTable>>)
  BY <1>1, <1>2, <1>3, VisitSteps
<1>5. CASE Step
  <2>1. /\ fn' = fn /\ inst \in Insts(fn) /\ Reachable(fn.parent[inst])
        /\ \A b \in Blocks(fn) : blockTable[b] = "top" => blockTable'[b] = "top"
    BY <1>5 DEF Step, Reachable
  <2>2. Upward
    BY <1>1, <1>2, <2>1 DEF Upward, Justified
  <2>3. todo # <<>>
    <3>1. \E ops : Visiting(ops)
      BY DEF Visit, VisitMemory, VisitAlloca, VisitCall, VisitGetElementPtr,
         VisitLoad, VisitStore, VisitPtrToInt, VisitIntToPtr, VisitBinaryOperator,
         VisitCast, VisitICmp, VisitExtOrTrunc, VisitPHI, VisitBr, VisitCondBr,
         VisitReturn
    <3> QED
      BY <3>1 DEF Visiting
  <2>4. Result(inst) \in {Abstract!Transfer(inst), Top}
    BY <1>1, <1>3, <2>1, <2>3, ResultIsTransfer
  <2> QED
    BY <1>1, <1>2, <1>5, <2>1, <2>2, <2>4, StepFeedsOpenly, StepRefines
<1>6. CASE /\ phase = "analyse" /\ phase' # "analysed"
           /\ UNCHANGED <<fn, blockTable, constantTable>>
  BY <1>1, <1>6, StutterFeedsOpenly, TablesStutter
<1> QED
  BY <1>4, <1>5, <1>6

(* The end of the analysis: everything is settled, so everything is covered. *)
LEMMA EndRefines ==
  ASSUME RefinementInv, ZeroFree, QueueExhausted
  PROVE  Abstract!Stop
<1>1. Ordered /\ IsPlain(fn) /\ (AllSettled \/ \E p, d : FirstPass(p, d))
  BY DEF RefinementInv, DominatedInv, ForwardInv
<1>2. AllSettled
  BY <1>1, QueueSettled
<1>3. Abstract!Covered
  BY <1>1, <1>2, ClaimsCovered, SameCovered
<1>4. UNCHANGED <<fn, blockTable, constantTable>> /\ phase # "analysed"
      /\ phase' = "analysed"
  BY DEF QueueExhausted
<1>5. UNCHANGED <<fn, {b \in Blocks(fn) : Reachable(b)},
                  [i \in Insts(fn) |-> LatticeElem(Ref(i))]>>
  BY <1>4 DEF Reachable, LatticeElem, Ref
<1> QED
  BY <1>3, <1>4, <1>5 DEF Abstract!Stop

(* Every step is one of ConstantAnalysis, or none. *)
LEMMA NextRefines ==
  ASSUME RefinementInv, ZeroFree, [Next]_vars
  PROVE  RefinementInv' /\ [Abstract!Next]_(Abstract!analysisVars)
<1>1. DominatedInv' /\ Ascends
  BY NextDominated, NextAscent DEF RefinementInv, DominatedInv, ForwardInv, Ordered
<1>2. CASE Visit
  <2>1. /\ fn' = fn /\ OpenlyFed'
        /\ \/ Abstract!Visit(inst) /\ inst \in Insts(fn)
           \/ UNCHANGED Abstract!analysisVars
    BY <1>1, <1>2, VisitRefines
  <2>2. RefinementInv'
    BY <1>1, <2>1 DEF RefinementInv, IsPlain
  <2>3. Abstract!Visit(inst) /\ inst \in Insts(fn) => Abstract!Next
    BY SameFunctionGraph DEF Abstract!Next
  <2> QED
    BY <2>1, <2>2, <2>3
<1>3. CASE QueueExhausted
  <2>1. Abstract!Stop
    BY <1>3, EndRefines
  <2>2. UNCHANGED <<fn, blockTable, constantTable>>
    BY <1>3 DEF QueueExhausted
  <2>3. RefinementInv'
    BY <1>1, <2>2, StutterFeedsOpenly DEF RefinementInv, IsPlain
  <2> QED
    BY <2>1, <2>3 DEF Abstract!Next
<1>4. CASE GetNextBlock \/ UNCHANGED vars
  <2>1. /\ UNCHANGED <<fn, blockTable, constantTable>> /\ phase' = phase
    BY <1>4 DEF GetNextBlock, vars
  <2>2. UNCHANGED Abstract!analysisVars
    BY <2>1, TablesStutter
  <2>3. RefinementInv'
    BY <1>1, <2>1, StutterFeedsOpenly DEF RefinementInv, IsPlain
  <2> QED
    BY <2>2, <2>3
<1> QED
  BY <1>2, <1>3, <1>4 DEF Next, Finished

(* The work queue implements sparse conditional constant propagation: every *)
(* visit takes a step that ConstantAnalysis permits, whatever the order of  *)
(* the use lists, and the queue runs empty only when the claims cover all   *)
(* the function can do.                                                     *)
THEOREM AnalysisIsImplemented ==
  OnlyRefinable => (Spec /\ []ZeroFree => ImplementsAnalysis)
<1> SUFFICES ASSUME OnlyRefinable PROVE Spec /\ []ZeroFree => ImplementsAnalysis
  OBVIOUS
<1>1. Init => RefinementInv /\ Abstract!Init
  BY InitRefines
<1>2. RefinementInv /\ ZeroFree /\ [Next]_vars =>
        RefinementInv' /\ [Abstract!Next]_(Abstract!analysisVars)
  BY NextRefines
<1> QED
  BY <1>1, <1>2, PTL DEF Spec, ImplementsAnalysis, Abstract!Spec

-----------------------------------------------------------------------------
(* tearDownInsts after such an analysis.  What is in the table was visited *)
(* or read, in a reachable block; a branch is recorded with its condition, *)
(* a return at top.                                                        *)
Recorded ==
  \A i \in Insts(fn) : constantTable[i] # Absent =>
    /\ Reachable(fn.parent[i])
    /\ fn.inst[i].op \in DOMAIN NumSuccs => constantTable[i] # Bottom

(* A visit that keeps the table enters what it looked up. *)
LEMMA KeepEnters ==
  ASSUME TypeOK, NEW S, Keep(LookUp(S)), NEW j \in Insts(fn),
         constantTable'[j] # constantTable[j]
  PROVE  j \in S
BY DEF Keep, LookUp, TypeOK

(* An insertion enters the visited instruction as well. *)
LEMMA InsertEnters ==
  ASSUME TypeOK, NEW S, NEW new, NEW q, NEW B, Insert(LookUp(S), new, q, B),
         inst \in Insts(fn), NEW j \in Insts(fn),
         constantTable'[j] # constantTable[j]
  PROVE  /\ j \in S \union {inst}
         /\ j = inst => constantTable'[j] = new
<1>1. constantTable' = [LookUp(S) EXCEPT ![inst] = new]
  BY DEF Insert
<1>2. LookUp(S) \in [Insts(fn) -> Elements]
  BY LookUpType
<1>3. CASE j = inst
  BY <1>1, <1>2, <1>3
<1>4. CASE j # inst
  <2>1. constantTable'[j] = LookUp(S)[j]
    BY <1>1, <1>2, <1>4
  <2> QED
    BY <1>4, <2>1 DEF LookUp
<1> QED
  BY <1>3, <1>4

(* So does one that queues the users. *)
LEMMA RaiseEnters ==
  ASSUME TypeOK, NEW S, NEW new, Raise(LookUp(S), new), inst \in Insts(fn),
         NEW j \in Insts(fn), constantTable'[j] # constantTable[j]
  PROVE  j \in S \union {inst}
BY InsertEnters DEF Raise

(* The operands that are looked up are read. *)
LEMMA OperandsRead ==
  ASSUME NEW K, K \subseteq DOMAIN fn.inst[inst].args,
         \A k \in K : Reachable(UsedIn(fn, inst, k)),
         NEW j \in Operands(K)
  PROVE  j \in ReadBy(inst)
<1>1. PICK k \in K : fn.inst[inst].args[k] = Ref(j)
  BY DEF Operands, arg, instr, inst
<1>2. Ref(j).kind = "inst" /\ Ref(j).id = j
  BY DEF Ref
<1> QED
  BY <1>1, <1>2 DEF ReadBy

(* Those of an instruction that is no phi are read in its own block. *)
LEMMA FirstOperandsRead ==
  ASSUME TypeOK, NEW ops, Visiting(ops), Reachable(fn.parent[inst]),
         NEW n \in {1, 2}, fn.inst[inst].op \in DOMAIN Arity,
         Arity[fn.inst[inst].op] = n, NEW j \in Operands(1 .. n)
  PROVE  j \in ReadBy(inst)
<1>1. inst \in Insts(fn) /\ IsInst(fn, inst)
  BY VisitedInst
<1>2. DOMAIN fn.inst[inst].args = 1 .. n
  BY <1>1 DEF IsInst
<1>3. fn.inst[inst].op # "phi"
  BY DEF Arity
<1> QED
  BY <1>2, <1>3, OperandsRead DEF UsedIn

(* What a visit that computes something enters. *)
LEMMA ComputationEnters ==
  ASSUME TypeOK, Reachable(fn.parent[inst]),
         VisitMemory \/ VisitBinaryOperator \/ VisitCast \/ VisitICmp
           \/ VisitExtOrTrunc \/ VisitPHI,
         NEW j \in Insts(fn), constantTable'[j] # constantTable[j]
  PROVE  /\ j \in ReadBy(inst) \union {inst}
         /\ inst \in Insts(fn) /\ fn.inst[inst].op \notin DOMAIN NumSuccs
<1>1. ASSUME NEW S, NEW new, inst \in Insts(fn),
             Keep(LookUp(S)) \/ Raise(LookUp(S), new)
               \/ Insert(LookUp(S), new, <<>>, {})
      PROVE  j \in S \union {inst}
  BY <1>1, KeepEnters, RaiseEnters, InsertEnters
<1>2. ASSUME NEW ops, Visiting(ops), ops \intersect {"br", "condbr", "ret"} = {}
      PROVE  /\ inst \in Insts(fn) /\ instr = fn.inst[inst] /\ instr.op \in ops
             /\ fn.inst[inst].op \notin DOMAIN NumSuccs
  BY <1>2, VisitedInst DEF NumSuccs
<1>3. CASE VisitMemory
  <2> DEFINE ops == {"alloca", "call", "gep", "load", "store", "ptrtoint",
                     "inttoptr"}
  <2>1. Visiting(ops) /\ MapToTop
    BY <1>3 DEF VisitMemory, VisitAlloca, VisitCall, VisitGetElementPtr, VisitLoad,
           VisitStore, VisitPtrToInt, VisitIntToPtr, Visiting
  <2>2. inst \in Insts(fn) /\ fn.inst[inst].op \notin DOMAIN NumSuccs
    BY <1>2, <2>1
  <2>3. Keep(LookUp({})) \/ Raise(LookUp({inst}), Top)
    BY <2>1, LookUpNothing DEF MapToTop
  <2> QED
    BY <1>1, <2>2, <2>3
<1>4. CASE VisitBinaryOperator
  <2> DEFINE S == Operands({1, 2}) \union {inst}
  <2>1. /\ Visiting({"binop"})
        /\ Keep(LookUp(S)) \/ \E new : Raise(LookUp(S), new)
    BY <1>4 DEF VisitBinaryOperator
  <2>2. /\ inst \in Insts(fn) /\ fn.inst[inst].op \notin DOMAIN NumSuccs
        /\ fn.inst[inst].op = "binop"
    BY <1>2, <2>1
  <2>3. j \in S \union {inst}
    <3> HIDE DEF S
    <3> QED
      BY <1>1, <2>1, <2>2
  <2>4. {1, 2} = 1 .. 2 /\ Arity["binop"] = 2 /\ "binop" \in DOMAIN Arity
    BY DEF Arity
  <2> QED
    BY <2>1, <2>2, <2>3, <2>4, FirstOperandsRead
<1>5. CASE VisitCast
  <2> DEFINE S == Operands({1})
  <2>1. Visiting({"cast"}) /\ Insert(LookUp(S), LatticeElem(arg(1)), <<>>, {})
    BY <1>5 DEF VisitCast
  <2>2. /\ inst \in Insts(fn) /\ fn.inst[inst].op \notin DOMAIN NumSuccs
        /\ fn.inst[inst].op = "cast"
    BY <1>2, <2>1
  <2>3. j \in S \union {inst}
    BY <1>1, <2>1, <2>2
  <2>4. {1} = 1 .. 1 /\ Arity["cast"] = 1 /\ "cast" \in DOMAIN Arity
    BY DEF Arity
  <2> QED
    BY <2>1, <2>2, <2>3, <2>4, FirstOperandsRead
<1>6. CASE VisitICmp
  <2> DEFINE S == Operands({1, 2}) \union {inst}
  <2>1. /\ Visiting({"icmp"})
        /\ \/ Keep(LookUp(S)) \/ \E new : Raise(LookUp(S), new)
           \/ \E new : Insert(LookUp(S), new, <<>>, {})
    BY <1>6 DEF VisitICmp
  <2>2. /\ inst \in Insts(fn) /\ fn.inst[inst].op \notin DOMAIN NumSuccs
        /\ fn.inst[inst].op = "icmp"
    BY <1>2, <2>1
  <2>3. j \in S \union {inst}
    <3> HIDE DEF S
    <3> QED
      BY <1>1, <2>1, <2>2
  <2>4. {1, 2} = 1 .. 2 /\ Arity["icmp"] = 2 /\ "icmp" \in DOMAIN Arity
    BY DEF Arity
  <2> QED
    BY <2>1, <2>2, <2>3, <2>4, FirstOperandsRead
<1>7. CASE VisitExtOrTrunc
  <2> DEFINE S == Operands({1}) \union {inst}
  <2>1. /\ Visiting({"zext", "sext", "trunc"})
        /\ Keep(LookUp(S)) \/ \E new : Raise(LookUp(S), new)
    BY <1>7 DEF VisitExtOrTrunc
  <2>2. /\ inst \in Insts(fn) /\ fn.inst[inst].op \notin DOMAIN NumSuccs
        /\ fn.inst[inst].op \in {"zext", "sext", "trunc"}
    BY <1>2, <2>1
  <2>3. j \in S \union {inst}
    <3> HIDE DEF S
    <3> QED
      BY <1>1, <2>1, <2>2
  <2>4. /\ {1} = 1 .. 1
        /\ Arity[fn.inst[inst].op] = 1 /\ fn.inst[inst].op \in DOMAIN Arity
    BY <2>2 DEF Arity
  <2> QED
    BY <2>1, <2>2, <2>3, <2>4, FirstOperandsRead
<1>8. CASE VisitPHI
  <2> DEFINE live == {k \in DOMAIN instr.args : Reachable(instr.from[k])}
             seen == {k \in live : \A a \in live : arg(a) = Arg => k < a}
             S    == Operands(seen) \union {inst}
  <2>1. /\ Visiting({"phi"})
        /\ Keep(LookUp(S)) \/ \E new : Raise(LookUp(S), new)
    BY <1>8 DEF VisitPHI
  <2>2. /\ inst \in Insts(fn) /\ fn.inst[inst].op \notin DOMAIN NumSuccs
        /\ instr = fn.inst[inst] /\ fn.inst[inst].op = "phi"
    BY <1>2, <2>1
  <2>3. j \in S \union {inst}
    <3> HIDE DEF S
    <3> QED
      BY <1>1, <2>1, <2>2
  <2>4. seen \subseteq DOMAIN fn.inst[inst].args
    BY <2>2
  <2>5. \A k \in seen : Reachable(UsedIn(fn, inst, k))
    BY <2>2 DEF UsedIn
  <2> HIDE DEF seen
  <2> QED
    BY <2>2, <2>3, <2>4, <2>5, OperandsRead
<1> QED
  BY <1>3, <1>4, <1>5, <1>6, <1>7, <1>8

(* What any visit enters. *)
LEMMA VisitEnters ==
  ASSUME TypeOK, IsForward(fn), IsDominated(fn), Fed, todo # <<>>,
         Reachable(fn.parent[inst]), inst \in Insts(fn), Visit,
         NEW j \in Insts(fn), constantTable'[j] # constantTable[j]
  PROVE  /\ j \in ReadBy(inst) \union {inst}
         /\ fn.inst[j].op \in DOMAIN NumSuccs => constantTable'[j] # Bottom
<1>1. ASSUME NEW k \in ReadBy(inst) PROVE fn.inst[k].op \notin DOMAIN NumSuccs
  BY <1>1, ReadsReachable
<1>2. CASE \/ VisitMemory \/ VisitBinaryOperator \/ VisitCast \/ VisitICmp
           \/ VisitExtOrTrunc \/ VisitPHI
  BY <1>1, <1>2, ComputationEnters
<1>3. CASE VisitReturn
  <2>1. Insert(LookUp({}), Top, <<>>, {})
    BY <1>3, LookUpNothing DEF VisitReturn
  <2>2. j = inst /\ constantTable'[j] = Top
    BY <2>1, InsertEnters
  <2> QED
    BY <2>2 DEF Top, Bottom, Elem
<1>4. CASE VisitBr
  BY <1>4 DEF VisitBr
<1>5. CASE VisitCondBr
  <2> DEFINE cond == LatticeElem(arg(1))
             S    == Operands({1})
  <2>1. Visiting({"condbr"})
    BY <1>5 DEF VisitCondBr
  <2>2. fn.inst[inst].op = "condbr"
    BY <2>1, VisitedInst
  <2>3. /\ {1} = 1 .. 1
        /\ Arity[fn.inst[inst].op] = 1 /\ fn.inst[inst].op \in DOMAIN Arity
    BY <2>2 DEF Arity
  <2>4. \A k \in S : k \in ReadBy(inst)
    BY <2>1, <2>3, FirstOperandsRead
  <2>5. CASE cond.state # "value"
    <3>1. constantTable' = LookUp(S)
      BY <1>5, <2>5 DEF VisitCondBr
    <3>2. j \in S
      BY <3>1 DEF LookUp, TypeOK
    <3> QED
      BY <1>1, <2>4, <3>2
  <2>6. CASE cond.state = "value"
    <3>1. \/ Keep(LookUp(S))
          \/ \E q, B : Insert(LookUp(S), cond, q, B)
      BY <1>5, <2>6 DEF VisitCondBr
    <3>2. j \in S \/ (j = inst /\ constantTable'[j] = cond)
      <4> HIDE DEF S, cond
      <4> QED
        BY <3>1, KeepEnters, InsertEnters
    <3>3. cond # Bottom
      BY <2>6 DEF Bottom, Elem
    <3> HIDE DEF S, cond
    <3> QED
      BY <1>1, <2>4, <3>2, <3>3
  <2> QED
    BY <2>5, <2>6
<1> QED
  BY <1>2, <1>3, <1>4, <1>5 DEF Visit

(* At first the table is empty. *)
LEMMA InitRecorded == Init => Recorded
BY DEF Init, Recorded

(* The table keeps to the reachable blocks. *)
LEMMA NextRecorded ==
  ASSUME DominatedInv, Recorded, Next
  PROVE  Recorded'
<1>1. /\ AscentInv /\ TypeOK /\ IsForward(fn) /\ IsDominated(fn) /\ Fed
      /\ IsFunction(fn) /\ Ordered /\ (AllSettled \/ \E p, d : FirstPass(p, d))
      /\ DominatedInv' /\ AscentInv'
  BY NextDominated DEF DominatedInv, ForwardInv, Ordered, AscentInv, TypeOK
<1>2. CASE Visit
  <2>1. /\ fn' = fn
        /\ \A b \in Blocks(fn) : Reachable(b) => Reachable(b)'
    BY <1>1, <1>2, VisitReaches
  <2>2. todo # <<>>
    BY <1>2 DEF Visit, VisitMemory, VisitAlloca, VisitCall, VisitGetElementPtr,
       VisitLoad, VisitStore, VisitPtrToInt, VisitIntToPtr, VisitBinaryOperator,
       VisitCast, VisitICmp, VisitExtOrTrunc, VisitPHI, VisitBr, VisitCondBr,
       VisitReturn, Visiting
  <2>3. inst \in Insts(fn) /\ Reachable(fn.parent[inst])
    BY <1>1, <2>2, VisitedReachable
  <2>4. ASSUME NEW i \in Insts(fn), constantTable'[i] # Absent
        PROVE  /\ Reachable(fn.parent[i])
               /\ fn.inst[i].op \in DOMAIN NumSuccs => constantTable'[i] # Bottom
    <3>1. CASE constantTable'[i] = constantTable[i]
      BY <2>4, <3>1 DEF Recorded
    <3>2. CASE constantTable'[i] # constantTable[i]
      <4>1. /\ i \in ReadBy(inst) \union {inst}
            /\ fn.inst[i].op \in DOMAIN NumSuccs => constantTable'[i] # Bottom
        BY <1>1, <1>2, <2>2, <2>3, <3>2, VisitEnters
      <4> QED
        BY <1>1, <2>3, <4>1, ReadsReachable
    <3> QED
      BY <3>1, <3>2
  <2>5. \A i \in Insts(fn) : fn.parent[i] \in Blocks(fn)
    BY <1>1 DEF IsFunction
  <2> QED
    BY <2>1, <2>4, <2>5 DEF Recorded
<1>3. CASE ~Visit
  <2>1. UNCHANGED <<fn, blockTable, constantTable>>
    BY <1>3 DEF Next, GetNextBlock, QueueExhausted, Finished, vars
  <2> QED
    BY <2>1 DEF Recorded, Reachable
<1> QED
  BY <1>2, <1>3

(* The inductive invariant: once the analysis is over no entry of the table *)
(* is bottom, so nothing is erased for want of a value, and the table stays *)
(* as it is.                                                                *)
TearDownInv ==
  /\ stage = "analysis" => DominatedInv /\ Recorded
  /\ stage # "analysis" =>
       /\ phase = "analysed" /\ stage \notin {"asserted", "dangling"}
       /\ \A i \in Insts(fn) : constantTable[i].state # "bottom"

(* Before the analysis nothing is torn down. *)
LEMMA InitTearDown == OnlyDominated /\ CleanupInit => TearDownInv
BY InitDominated, InitRecorded DEF CleanupInit, TearDownInv

(* After the analysis everything in the table has a value or is at top. *)
LEMMA NothingUnknown ==
  ASSUME DominatedInv, Recorded, ZeroFree, phase = "analysed", NEW i \in Insts(fn)
  PROVE  constantTable[i].state # "bottom"
<1>1. /\ Ordered /\ IsDominated(fn) /\ Fed /\ AllSettled /\ Justified
  BY DEF DominatedInv, ForwardInv, Ordered, AscentInv
<1>2. CanonicalEntry(constantTable[i])
  BY <1>1 DEF Justified
<1>3. ASSUME constantTable[i] = Bottom PROVE FALSE
  <2>1. constantTable[i] # Absent
    BY <1>3 DEF Bottom, Absent, Elem
  <2>2. Reachable(fn.parent[i]) /\ fn.inst[i].op \notin DOMAIN NumSuccs
    BY <1>3, <2>1 DEF Recorded
  <2>3. i \in SettledAll
    BY <2>2 DEF SettledAll
  <2>4. Claim(i) # Bottom
    BY <1>1, <2>3, AllValued
  <2> QED
    BY <1>3, <2>1, <2>4 DEF Claim, Read
<1> QED
  BY <1>2, <1>3 DEF CanonicalEntry, Canonical, Absent, Bottom, Top, Val, Elem

(* The teardown and the deletion leave the table alone. *)
LEMMA NextTearDown ==
  ASSUME TearDownInv, ZeroFree, [CleanupNext]_<<vars, cleanup>>
  PROVE  TearDownInv'
<1>1. CASE ContinueAnalysis
  <2>1. Next /\ stage' = stage /\ phase = "analyse"
    BY <1>1, VisitAnalyses DEF ContinueAnalysis, Next, cleanup, GetNextBlock,
       QueueExhausted
  <2>2. stage = "analysis"
    BY <2>1 DEF TearDownInv
  <2> QED
    BY <2>1, <2>2, NextDominated, NextRecorded DEF TearDownInv
<1>2. CASE StartTearDown
  <2>1. /\ stage = "analysis" /\ phase = "analysed" /\ stage' = "tearDown"
        /\ UNCHANGED vars
    BY <1>2 DEF StartTearDown
  <2>2. \A i \in Insts(fn) : constantTable[i].state # "bottom"
    BY <2>1, NothingUnknown DEF TearDownInv
  <2> QED
    BY <2>1, <2>2 DEF TearDownInv, vars
<1>3. CASE UNCHANGED <<vars, cleanup>>
  <2>1. UNCHANGED vars /\ stage' = stage
    BY <1>3 DEF cleanup
  <2>2. stage = "analysis" => DominatedInv'
    BY <2>1, NextDominated DEF TearDownInv
  <2>3. stage = "analysis" => Recorded'
    BY <2>1 DEF TearDownInv, Recorded, Reachable, vars
  <2> QED
    BY <2>1, <2>2, <2>3 DEF TearDownInv, vars
<1>4. ASSUME NEW i \in Insts(fn), EraseUnknown(i) PROVE FALSE
  BY <1>4 DEF EraseUnknown, TearingDown, TearDownInv
<1>5. CASE \/ \E i \in Insts(fn) : KeepInst(i) \/ FoldBranch(i) \/ ReplaceByConstant(i)
           \/ CollectDeadBlocks \/ ShortenChain \/ NextRound \/ FinishDeletion
  <2>1. /\ UNCHANGED vars /\ stage # "analysis"
        /\ stage' \in {stage, "deletion", "done", "dead_left"}
    BY <1>5 DEF KeepInst, FoldBranch, ReplaceByConstant, TearingDown,
       CollectDeadBlocks, ShortenChain, NextRound, FinishDeletion
  <2> QED
    BY <2>1 DEF TearDownInv, vars
<1> QED
  BY <1>1, <1>2, <1>3, <1>4, <1>5 DEF CleanupNext

(* The assertions of tearDownInsts hold (sccp_pass.cc:742-747): after the   *)
(* analysis of such a function nothing in the table is without value, so no *)
(* user of what is erased can be in the table with one.                     *)
THEOREM TearDownAssertionsHold ==
  OnlyDominated => (CleanupSpec /\ []ZeroFree => []UsersAreUnknown)
<1>1. TearDownInv => UsersAreUnknown
  BY DEF TearDownInv, UsersAreUnknown
<1> QED
  BY <1>1, InitTearDown, NextTearDown, PTL DEF CleanupSpec

(* Nor is an instruction erased while another one uses its result: what    *)
(* goes is replaced by its constant.                                       *)
THEOREM TearDownLeavesNoUse ==
  OnlyDominated => (CleanupSpec /\ []ZeroFree => []NothingDangles)
<1>1. TearDownInv => NothingDangles
  BY DEF TearDownInv, NothingDangles
<1> QED
  BY <1>1, InitTearDown, NextTearDown, PTL DEF CleanupSpec
=============================================================================
