-------------------------- MODULE AnalysedRunProofs --------------------------
(***************************************************************************)
(* A run of an analysed function stays within the claims, for every        *)
(* function and every order of the analysis.                               *)
(***************************************************************************)
EXTENDS AnalysedRun, LatticeProofs, TLAPS

(* What is claimed of instruction i covers what it has computed. *)
EnvCovered == \A i \in Insts(fn) : \A v \in env[i] : Leq(Val(v), known[i])

RestInBlock ==
  /\ rest \in Seq(Insts(fn))
  /\ \A k \in DOMAIN rest : fn.parent[rest[k]] = block

(* The inductive invariant: once the analysis is done its claims are closed *)
(* (Covered), and the run is somewhere inside them.                         *)
Shape ==
  /\ fn \in Functions
  /\ done \in BOOLEAN
  /\ reach \subseteq Blocks(fn)
  /\ block \in Blocks(fn)
  /\ known = [i \in Insts(fn) |-> known[i]]
  /\ \A i \in Insts(fn) : Canonical(known[i])
  /\ env = [i \in Insts(fn) |-> env[i]]
  /\ RestInBlock

IInv ==
  /\ Shape
  /\ done => Covered
  /\ done => block \in reach /\ EnvCovered
  /\ ~done => block = Entry(fn) /\ \A i \in Insts(fn) : env[i] = {}

-----------------------------------------------------------------------------
(* An instruction's operands are canonical and cover the values they have. *)
LEMMA OperandIsCanonical ==
  ASSUME Shape, NEW i \in Insts(fn), NEW k \in DOMAIN fn.inst[i].args
  PROVE  Canonical(Operand(fn.inst[i].args[k]))
<1> DEFINE o == fn.inst[i].args[k]
<1>1. IsOperand(fn, o)
  BY AnalysedRunAssumption DEF Shape, IsFunction, IsInst, Insts
<1>2. CASE o.kind = "int"
  BY <1>2 DEF Operand, Canonical, Val, Elem
<1>3. CASE o.kind = "inst"
  BY <1>1, <1>3 DEF IsOperand, Operand, Shape, Insts, Arg, OtherConstant
<1>4. CASE o.kind # "int" /\ o.kind # "inst"
  BY <1>4 DEF Operand, Canonical
<1> QED
  BY <1>2, <1>3, <1>4

(* What an operand may hold in the run is below what is claimed of it. *)
LEMMA OperandIsCovered ==
  ASSUME Shape, EnvCovered, NEW i \in Insts(fn),
         NEW k \in DOMAIN fn.inst[i].args,
         NEW v \in Program!Operand(fn.inst[i].args[k])
  PROVE  Leq(Val(v), Operand(fn.inst[i].args[k]))
<1> DEFINE o == fn.inst[i].args[k]
<1>1. IsOperand(fn, o)
  BY AnalysedRunAssumption DEF Shape, IsFunction, IsInst, Insts
<1>2. CASE o.kind = "int"
  BY <1>2 DEF Operand, Program!Operand, Val, Elem, Leq
<1>3. CASE o.kind = "inst"
  BY <1>1, <1>3
  DEF IsOperand, Operand, Program!Operand, EnvCovered, Insts, Arg, OtherConstant
<1>4. CASE o.kind # "int" /\ o.kind # "inst"
  BY <1>4 DEF Operand, Top, Elem, Leq
<1> QED
  BY <1>2, <1>3, <1>4

-----------------------------------------------------------------------------
(* What the entries of an instruction look like. *)
LEMMA Wellformed ==
  ASSUME Shape, NEW i \in Insts(fn)
  PROVE  /\ IsInst(fn, i)
         /\ fn.parent[i] \in Blocks(fn)
         /\ \A b \in Blocks(fn) : fn.body[b] \in Seq(Insts(fn))
         /\ \A b \in Blocks(fn) : \A k \in DOMAIN fn.body[b] :
              fn.parent[fn.body[b][k]] = b
         /\ Entry(fn) \in Blocks(fn)
<1>1. IsFunction(fn)
  BY AnalysedRunAssumption DEF Shape
<1>2. Entry(fn) \in Blocks(fn)
  BY <1>1 DEF IsFunction, Entry
<1> QED
  BY <1>1, <1>2 DEF IsFunction

(* With strict evaluation, covered operands give a covered result. *)
LEMMA StrictIsCovered ==
  ASSUME NEW d, NEW e, NEW a, NEW b, NEW w, NEW x,
         Canonical(d), Canonical(e), Leq(Val(a), d), Leq(Val(b), e),
         d = Val(a) /\ e = Val(b) => w = x
  PROVE  Leq(Val(w), Strict({d, e}, Val(x)))
<1>1. Bottom \notin {d, e}
  BY DEF Leq, Val, Bottom, Elem
<1>2. CASE Top \in {d, e}
  <2>1. Strict({d, e}, Val(x)) = Top
    BY <1>1, <1>2 DEF Strict
  <2> QED
    BY <2>1 DEF Leq, Top, Elem
<1>3. CASE Top \notin {d, e}
  <2>1. w = x
    BY <1>3, CoveredValue
  <2>2. Strict({d, e}, Val(x)) = Val(x)
    BY <1>1, <1>3 DEF Strict
  <2> QED
    BY <2>1, <2>2 DEF Leq, Val, Elem
<1> QED
  BY <1>2, <1>3

(* The instance of IrRun means by an operator what this module does. *)
LEMMA SameMeaning ==
  /\ Program!Operators = Operators
  /\ Program!Predicates = Predicates
  /\ \A f, a, b, m : Program!Calculate(f, a, b, m) = Calculate(f, a, b, m)
  /\ \A f, a, b : Program!ToInt(Program!Holds(f, a, b)) = ToInt(Holds(f, a, b))
  /\ \A r, a : Program!ConvertValue(r, a) = Converted(r, a)
<1>1. /\ Program!Operators = Operators
      /\ Program!Predicates = Predicates
  BY DEF Program!Operators, Operators, Program!Predicates, Predicates
<1>2. ASSUME NEW f, NEW a, NEW b, NEW m
      PROVE  Program!Calculate(f, a, b, m) = Calculate(f, a, b, m)
  BY DEF Program!Calculate, Calculate, Program!Signed, Signed
<1>3. ASSUME NEW f, NEW a, NEW b
      PROVE  Program!ToInt(Program!Holds(f, a, b)) = ToInt(Holds(f, a, b))
  BY DEF Program!ToInt, ToInt, Program!Holds, Holds
<1>4. ASSUME NEW r, NEW a PROVE Program!ConvertValue(r, a) = Converted(r, a)
  BY DEF Program!ConvertValue, Converted, Program!Signed, Signed
<1> QED
  BY <1>1, <1>2, <1>3, <1>4

(* What an instruction computes is covered by its transfer function. *)
LEMMA ResultIsCovered ==
  ASSUME Shape, EnvCovered, NEW i \in Insts(fn),
         fn.inst[i].op \notin DOMAIN NumSuccs, fn.inst[i].op # "phi",
         NEW v \in Program!Results(i)
  PROVE  Leq(Val(v), Transfer(i))
<1> DEFINE r == fn.inst[i]
           e(k) == Operand(r.args[k])
           binary == r.op = "binop" /\ r.fun \in Operators
           comparison == r.op = "icmp" /\ r.fun \in Predicates
           conversion == r.op \in {"zext", "sext", "trunc", "cast"}
<1>1. IsInst(fn, i)
  BY Wellformed
<1>2. CASE binary
  <2>1. DOMAIN r.args = 1 .. 2
    BY <1>1, <1>2 DEF IsInst, Arity
  <2>2. PICK a \in Program!Operand(r.args[1]), b \in Program!Operand(r.args[2]) :
          v = Calculate(r.fun, a, b, IntModulus)
    BY <1>2, SameMeaning DEF Program!Results
  <2>3. Leq(Val(a), e(1)) /\ Leq(Val(b), e(2))
    BY <2>1, <2>2, OperandIsCovered
  <2>4. Canonical(e(1)) /\ Canonical(e(2))
    BY <2>1, OperandIsCanonical
  <2>5. Transfer(i) = Strict({e(1), e(2)},
            Val(Calculate(r.fun, e(1).value, e(2).value, IntModulus)))
    BY <1>2 DEF Transfer
  <2>6. e(1) = Val(a) /\ e(2) = Val(b) =>
          v = Calculate(r.fun, e(1).value, e(2).value, IntModulus)
    BY <2>2 DEF Val, Elem
  <2> QED
    BY <2>3, <2>4, <2>5, <2>6, StrictIsCovered
<1>3. CASE comparison
  <2>1. DOMAIN r.args = 1 .. 2
    BY <1>1, <1>3 DEF IsInst, Arity
  <2>2. PICK a \in Program!Operand(r.args[1]), b \in Program!Operand(r.args[2]) :
          v = ToInt(Holds(r.fun, a, b))
    BY <1>3, SameMeaning DEF Program!Results
  <2>3. Leq(Val(a), e(1)) /\ Leq(Val(b), e(2))
    BY <2>1, <2>2, OperandIsCovered
  <2>4. Canonical(e(1)) /\ Canonical(e(2))
    BY <2>1, OperandIsCanonical
  <2>5. Transfer(i) = Strict({e(1), e(2)},
            Val(ToInt(Holds(r.fun, e(1).value, e(2).value))))
    BY <1>3 DEF Transfer
  <2>6. e(1) = Val(a) /\ e(2) = Val(b) =>
          v = ToInt(Holds(r.fun, e(1).value, e(2).value))
    BY <2>2 DEF Val, Elem
  <2> QED
    BY <2>3, <2>4, <2>5, <2>6, StrictIsCovered
<1>4. CASE conversion
  <2>1. DOMAIN r.args = 1 .. 1
    BY <1>1, <1>4 DEF IsInst, Arity
  <2>2. PICK a \in Program!Operand(r.args[1]) : v = Converted(r, a)
    BY <1>4, SameMeaning DEF Program!Results, Operators, Predicates
  <2>3. Leq(Val(a), e(1)) /\ Canonical(e(1))
    BY <2>1, <2>2, OperandIsCovered, OperandIsCanonical
  <2>4. Transfer(i) = Strict({e(1)}, Val(Converted(r, e(1).value)))
    BY <1>4 DEF Transfer
  <2>5. e(1) = Val(a) => v = Converted(r, e(1).value)
    BY <2>2 DEF Val, Elem
  <2> QED
    BY <2>3, <2>4, <2>5, StrictIsCovered
<1>5. CASE ~binary /\ ~comparison /\ ~conversion
  <2>1. Transfer(i) = Top
    BY <1>5 DEF Transfer, NumSuccs
  <2> QED
    BY <2>1 DEF Leq, Top, Elem
<1> QED
  BY <1>2, <1>3, <1>4, <1>5

-----------------------------------------------------------------------------
(* The instruction a run is at lies in the block it is in. *)
LEMMA HeadInBlock ==
  ASSUME Shape, rest # <<>>
  PROVE  /\ Head(rest) \in Insts(fn)
         /\ fn.parent[Head(rest)] = block
         /\ Tail(rest) \in Seq(Insts(fn))
         /\ \A k \in DOMAIN Tail(rest) : fn.parent[Tail(rest)[k]] = block
BY DEF Shape, RestInBlock

(* Covered speaks about the analysis alone: the run cannot disturb it. *)
LEMMA CoveredStays ==
  ASSUME Covered, UNCHANGED <<fn, reach, known>>
  PROVE  Covered'
<1>1. fn' = fn /\ reach' = reach /\ known' = known
  OBVIOUS
<1>2. ASSUME NEW o PROVE Operand(o)' = Operand(o)
  BY <1>1 DEF Operand
<1>3. ASSUME NEW a, NEW b PROVE Feasible(a, b)' <=> Feasible(a, b)
  <2>1. Operand(fn.inst[Terminator(fn, a)].args[1])'
          = Operand(fn.inst[Terminator(fn, a)].args[1])
    BY <1>1, <1>2
  <2> QED
    BY <1>1, <2>1 DEF Feasible
<1>4. ASSUME NEW i PROVE Transfer(i)' = Transfer(i)
  <2> DEFINE r == fn.inst[i]
             live == {k \in DOMAIN r.args :
                        r.from[k] \in reach /\ Feasible(r.from[k], fn.parent[i])}
             merged == {Operand(r.args[k]) : k \in live}
  <2>1. \A k : Operand(r.args[k])' = Operand(r.args[k])
    BY <1>1, <1>2
  <2>2. live' = live
    BY <1>1, <1>3
  <2>3. merged' = merged
    BY <2>1, <2>2
  <2> QED
    BY <1>1, <2>1, <2>3 DEF Transfer
<1> QED
  BY <1>1, <1>3, <1>4 DEF Covered

(* An instruction that is executed leaves the run within the claims. *)
LEMMA ExecuteStays ==
  ASSUME IInv, done, Program!Execute, UNCHANGED analysisVars
  PROVE  IInv'
<1> DEFINE i == Head(rest)
<1>1. /\ Shape /\ Covered /\ EnvCovered /\ block \in reach
      /\ rest # <<>> /\ fn.inst[i].op \notin DOMAIN NumSuccs
      /\ rest' = Tail(rest) /\ block' = block
      /\ fn' = fn /\ reach' = reach /\ known' = known /\ done' = done
  BY DEF IInv, Program!Execute, analysisVars, Program!NumSuccs, NumSuccs
<1>2. /\ i \in Insts(fn) /\ fn.parent[i] = block
  BY <1>1, HeadInBlock
<1>3. RestInBlock'
  BY <1>1, HeadInBlock DEF RestInBlock
<1>4. CASE fn.inst[i].op = "phi"
  <2>1. env' = env
    BY <1>4 DEF Program!Execute, Program!IsPhi
  <2> QED
    BY <1>1, <1>3, <2>1, CoveredStays DEF IInv, Shape, EnvCovered
<1>5. CASE fn.inst[i].op # "phi"
  <2>1. PICK v \in Program!Results(i) : env' = [env EXCEPT ![i] = {v}]
    BY <1>5 DEF Program!Execute, Program!IsPhi
  <2>2. Leq(Val(v), known[i])
    <3>1. Leq(Val(v), Transfer(i))
      BY <1>1, <1>2, <1>5, ResultIsCovered
    <3>2. Leq(Transfer(i), known[i])
      BY <1>1, <1>2 DEF Covered
    <3> QED
      BY <3>1, <3>2, LeqTransitive
  <2>3. EnvCovered'
    BY <1>1, <1>2, <2>1, <2>2 DEF EnvCovered, Shape
  <2>4. Shape'
    BY <1>1, <1>2, <1>3, <2>1 DEF Shape
  <2>5. Covered'
    BY <1>1, CoveredStays
  <2> QED
    BY <1>1, <2>3, <2>4, <2>5 DEF IInv
<1> QED
  BY <1>4, <1>5

(* Following a feasible edge leaves the run within the claims. *)
LEMMA JumpStays ==
  ASSUME IInv, done, NEW b \in Blocks(fn), Feasible(block, b),
         b \in Succs(fn, block), Program!Jump(b), UNCHANGED analysisVars
  PROVE  IInv'
<1>1. /\ Shape /\ Covered /\ EnvCovered /\ block \in reach
      /\ rest' = fn.body[b] /\ block' = b
      /\ fn' = fn /\ reach' = reach /\ known' = known /\ done' = done
  BY DEF IInv, Program!Jump, analysisVars
<1>2. b \in reach
  BY <1>1 DEF Covered
<1> DEFINE phis == {i \in Insts(fn) : fn.inst[i].op = "phi" /\ fn.parent[i] = b}
<1>3. PICK w : /\ \A i \in phis : w[i] \in Program!Received(i, block)
               /\ env' = [i \in Insts(fn) |->
                            IF i \in phis THEN {w[i]} ELSE env[i]]
  BY DEF Program!Jump, Program!IsPhi, Program!Insts, Insts
<1>4. ASSUME NEW i \in phis PROVE Leq(Val(w[i]), known[i])
  <2> DEFINE r == fn.inst[i]
             e(k) == Operand(r.args[k])
             live == {k \in DOMAIN r.args :
                        r.from[k] \in reach /\ Feasible(r.from[k], fn.parent[i])}
  <2>1. IsInst(fn, i)
    BY <1>1, Wellformed
  <2>2. PICK k \in DOMAIN r.from : /\ r.from[k] = block
                                   /\ w[i] \in Program!Operand(r.args[k])
    BY <1>3 DEF Program!Received
  <2>3. k \in live
    BY <1>1, <2>1, <2>2 DEF IsInst
  <2>4. Leq(Val(w[i]), e(k))
    BY <1>1, <2>2, <2>3, OperandIsCovered
  <2>5. \A x \in {e(m) : m \in live} : Canonical(x)
    BY <1>1, OperandIsCanonical
  <2> HIDE DEF e, live
  <2>6. Leq(e(k), Join({e(m) : m \in live}))
    BY <2>3, <2>5, JoinIsUpperBound
  <2>7. Transfer(i) = Join({e(m) : m \in live})
    BY <1>4 DEF Transfer, e, live
  <2>8. Leq(Transfer(i), known[i])
    BY <1>1, <1>2, <1>4 DEF Covered, NumSuccs
  <2> QED
    BY <2>4, <2>6, <2>7, <2>8, LeqTransitive
<1>5. EnvCovered'
  BY <1>1, <1>3, <1>4 DEF EnvCovered
<1>6. RestInBlock'
  <2>1. /\ fn.body[b] \in Seq(Insts(fn))
        /\ \A k \in DOMAIN fn.body[b] : fn.parent[fn.body[b][k]] = b
    BY <1>1, AnalysedRunAssumption DEF Shape, IsFunction
  <2> QED
    BY <1>1, <2>1 DEF RestInBlock
<1>7. Shape'
  BY <1>1, <1>3, <1>6 DEF Shape
<1>8. Covered'
  BY <1>1, CoveredStays
<1> QED
  BY <1>1, <1>2, <1>5, <1>7, <1>8 DEF IInv

(* A branch follows an edge that the claims call feasible. *)
LEMMA BranchStays ==
  ASSUME IInv, done, Program!TakeBranch, UNCHANGED analysisVars
  PROVE  IInv'
<1> DEFINE i == Head(rest)
           r == fn.inst[i]
<1>1. /\ Shape /\ EnvCovered /\ rest # <<>>
  BY DEF IInv, Program!TakeBranch
<1>2. i \in Insts(fn) /\ fn.parent[i] = block /\ IsInst(fn, i)
  BY <1>1, HeadInBlock, Wellformed
<1>3. CASE r.op = "br" /\ Program!Jump(r.succs[1])
  <2>1. i = Terminator(fn, block) /\ DOMAIN r.succs = 1 .. 1
    BY <1>2, <1>3 DEF IsInst, NumSuccs
  <2>2. r.succs[1] \in Blocks(fn)
    BY <1>2, <2>1 DEF IsInst
  <2>3. Feasible(block, r.succs[1]) /\ r.succs[1] \in Succs(fn, block)
    BY <1>3, <2>1 DEF Feasible, Succs
  <2> QED
    BY <1>3, <2>2, <2>3, JumpStays
<1>4. ASSUME r.op = "condbr", NEW c \in Program!Operand(r.args[1]),
             Program!Jump(r.succs[IF c = 0 THEN 2 ELSE 1])
      PROVE  IInv'
  <2> DEFINE k == IF c = 0 THEN 2 ELSE 1
             e == Operand(r.args[1])
  <2>1. /\ i = Terminator(fn, block) /\ DOMAIN r.succs = 1 .. 2
        /\ DOMAIN r.args = 1 .. 1
    BY <1>2, <1>4 DEF IsInst, NumSuccs, Arity
  <2>2. r.succs[k] \in Blocks(fn) /\ r.succs[k] \in Succs(fn, block)
    BY <1>2, <2>1 DEF IsInst, Succs
  <2>3. e = Top \/ e = Val(c)
    BY <1>1, <1>2, <1>4, <2>1, OperandIsCovered, OperandIsCanonical, CoveredValue
  <2>4. Feasible(block, r.succs[k])
    BY <1>4, <2>1, <2>2, <2>3 DEF Feasible, Val, Top, Elem
  <2> QED
    BY <1>4, <2>2, <2>4, JumpStays
<1> QED
  BY <1>3, <1>4 DEF Program!TakeBranch

(* Leaving the function changes nothing but what is left to execute. *)
LEMMA LeaveStays ==
  ASSUME IInv, Program!LeaveFunction, UNCHANGED analysisVars
  PROVE  IInv'
<1>1. rest' = <<>> /\ block' = block /\ env' = env
  BY DEF Program!LeaveFunction
<1>2. RestInBlock'
  BY <1>1 DEF RestInBlock
<1> QED
  BY <1>1, <1>2, CoveredStays DEF IInv, Shape, EnvCovered, analysisVars

-----------------------------------------------------------------------------
(* A transfer function yields a canonical element. *)
LEMMA TransferIsCanonical ==
  ASSUME Shape, NEW i \in Insts(fn)
  PROVE  Canonical(Transfer(i))
<1> DEFINE r == fn.inst[i]
           live == {k \in DOMAIN r.args :
                      r.from[k] \in reach /\ Feasible(r.from[k], fn.parent[i])}
<1>1. ASSUME NEW S, NEW v PROVE Canonical(Strict(S, Val(v)))
  BY DEF Strict, Canonical, Val, Elem
<1>2. Canonical(Join({Operand(r.args[k]) : k \in live}))
  BY OperandIsCanonical, JoinIsCanonical
<1>3. r.op = "condbr" => Canonical(Operand(r.args[1]))
  <2>1. IsInst(fn, i)
    BY Wellformed
  <2> QED
    BY <2>1, OperandIsCanonical DEF IsInst, Arity
<1>4. Canonical(Top) /\ Canonical(Bottom)
  BY DEF Canonical
<1> HIDE DEF live
<1>5. r.op = "phi" => Transfer(i) = Join({Operand(r.args[k]) : k \in live})
  BY DEF Transfer, live
<1> QED
  BY <1>1, <1>2, <1>3, <1>4, <1>5 DEF Transfer

(* The successors of a block are blocks. *)
LEMMA SuccsAreBlocks ==
  ASSUME Shape, NEW b \in Blocks(fn)
  PROVE  Succs(fn, b) \subseteq Blocks(fn)
<1>1. fn.body[b] \in Seq(Insts(fn)) /\ fn.body[b] # <<>>
  BY AnalysedRunAssumption DEF Shape, IsFunction
<1>2. Terminator(fn, b) \in Insts(fn)
  BY <1>1 DEF Terminator
<1>3. IsInst(fn, Terminator(fn, b))
  BY <1>2, Wellformed
<1> QED
  BY <1>3 DEF IsInst, Succs

(* While the analysis works the run has not begun. *)
LEMMA VisitStays ==
  ASSUME IInv, NEW i \in Insts(fn), Visit(i), UNCHANGED runVars
  PROVE  IInv'
<1>1. /\ Shape /\ ~done /\ done' = done /\ fn' = fn
      /\ block' = block /\ rest' = rest /\ env' = env
      /\ fn.parent[i] \in Blocks(fn)
  BY DEF IInv, Visit, runVars, Shape
<1>2. reach' \subseteq Blocks(fn)
  BY <1>1, Wellformed, SuccsAreBlocks DEF Visit, Shape
<1>3. PICK e \in {known[i], Transfer(i), Top} : known' = [known EXCEPT ![i] = e]
  BY DEF Visit
<1>4. Canonical(e)
  BY <1>1, <1>3, TransferIsCanonical DEF Shape, Canonical
<1>5. \A j \in Insts(fn) : Canonical(known'[j])
  BY <1>1, <1>3, <1>4 DEF Shape
<1>6. known' = [j \in Insts(fn) |-> known'[j]]
  BY <1>1, <1>3 DEF Shape
<1>7. Shape'
  BY <1>1, <1>2, <1>5, <1>6 DEF Shape, RestInBlock
<1> QED
  BY <1>1, <1>7 DEF IInv

(* When the analysis stops its claims are closed. *)
LEMMA StopStays ==
  ASSUME IInv, Stop, UNCHANGED runVars
  PROVE  IInv'
<1>1. /\ Covered /\ done' = TRUE /\ ~done
      /\ fn' = fn /\ reach' = reach /\ known' = known
      /\ block' = block /\ rest' = rest /\ env' = env
  BY DEF Stop, runVars
<1>2. Covered'
  BY <1>1, CoveredStays
<1>3. block \in reach /\ EnvCovered
  BY <1>1 DEF IInv, Covered, EnvCovered
<1>4. Shape'
  BY <1>1 DEF IInv, Shape, RestInBlock
<1> QED
  BY <1>1, <1>2, <1>3, <1>4 DEF IInv, EnvCovered

-----------------------------------------------------------------------------
(* The invariant holds before the analysis starts. *)
LEMMA InitEstablishes == RunInit => IInv
<1> SUFFICES ASSUME RunInit PROVE IInv
  OBVIOUS
<1>1. /\ fn \in Functions /\ reach = {Entry(fn)} /\ done = FALSE
      /\ known = [i \in Insts(fn) |-> Bottom]
  BY DEF RunInit, Init
<1>2. /\ block = Entry(fn) /\ rest = fn.body[Entry(fn)]
      /\ env = [i \in Insts(fn) |-> {}]
  BY DEF RunInit, Program!RunInit, Program!Entry, Entry, Program!Insts, Insts
<1>3. IsFunction(fn)
  BY <1>1, AnalysedRunAssumption
<1>4. Entry(fn) \in Blocks(fn)
  BY <1>3 DEF IsFunction, Entry
<1>5. RestInBlock
  BY <1>2, <1>3, <1>4 DEF RestInBlock, IsFunction
<1>6. \A i \in Insts(fn) : Canonical(known[i])
  BY <1>1 DEF Canonical
<1>7. Shape
  BY <1>1, <1>2, <1>4, <1>5, <1>6 DEF Shape
<1> QED
  BY <1>1, <1>2, <1>7 DEF IInv

(* Analysis steps, stopping and steps of the run preserve the invariant. *)
LEMMA NextPreserves == IInv /\ [RunNext]_<<analysisVars, runVars>> => IInv'
<1> SUFFICES ASSUME IInv, [RunNext]_<<analysisVars, runVars>> PROVE IInv'
  OBVIOUS
<1>1. ASSUME NEW i \in Insts(fn), Visit(i), UNCHANGED runVars PROVE IInv'
  BY <1>1, VisitStays
<1>2. CASE Stop /\ UNCHANGED runVars
  BY <1>2, StopStays
<1>3. CASE done /\ Program!Execute /\ UNCHANGED analysisVars
  BY <1>3, ExecuteStays
<1>4. CASE done /\ Program!TakeBranch /\ UNCHANGED analysisVars
  BY <1>4, BranchStays
<1>5. CASE done /\ Program!LeaveFunction /\ UNCHANGED analysisVars
  BY <1>5, LeaveStays
<1>6. CASE UNCHANGED <<analysisVars, runVars>>
  BY <1>6, CoveredStays
  DEF IInv, Shape, EnvCovered, RestInBlock, analysisVars, runVars
<1> QED
  BY <1>1, <1>2, <1>3, <1>4, <1>5, <1>6
  DEF RunNext, Analyse, RunProgram, Next, Program!Run

(* Whatever the analysis did to keep its promise, the run never enters a    *)
(* block that was not claimed reachable and no instruction computes a value *)
(* other than the constant claimed for it.                                  *)
THEOREM RunStaysWithinClaims == RunSpec => []WithinClaims
<1>1. IInv => WithinClaims
  BY DEF IInv, WithinClaims, EnvCovered
<1> QED
  BY <1>1, InitEstablishes, NextPreserves, PTL DEF RunSpec
=============================================================================
