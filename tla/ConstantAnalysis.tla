-------------------------- MODULE ConstantAnalysis --------------------------
(***************************************************************************)
(* What sparse conditional constant propagation promises, independent of   *)
(* any order of work: starting from "only the entry is reachable, nothing  *)
(* is known", blocks become reachable and elements ascend one step at a    *)
(* time, and the analysis may stop only when its claims cover everything   *)
(* the function can do.                                                    *)
(***************************************************************************)
EXTENDS LlvmIr, ConstantLattice

CONSTANTS
  IntModulus,   \* number of values of a C int
  CharModulus   \* number of values of a char

VARIABLES
  fn,     \* the function analysed
  reach,  \* blocks claimed reachable
  known,  \* instruction -> what is claimed of its results
  done    \* the claims are final

analysisVars == <<fn, reach, known, done>>

Operand(o) ==
  CASE o.kind = "int"  -> Val(o.value)
    [] o.kind = "inst" -> known[o.id]
    [] OTHER -> Top

(* Branch a -> b can be taken, going by what is known of its condition. *)
Feasible(a, b) ==
  LET t == fn.inst[Terminator(fn, a)] IN
  CASE t.op = "br" -> b = t.succs[1]
    [] t.op = "condbr" ->
         LET c == Operand(t.args[1]) IN
         CASE c.state = "value" -> b = t.succs[IF c.value = 0 THEN 2 ELSE 1]
           [] c.state = "top" -> b \in Succs(fn, a)
           [] OTHER -> FALSE
    [] OTHER -> FALSE

Converted(r, v) ==
  CASE r.op = "zext" /\ r.fun = "i8" -> v % CharModulus
    [] r.op = "trunc" -> Signed(v, IF r.fun = "i32" THEN CharModulus
                                                    ELSE IntModulus)
    [] OTHER -> v

(* The strongest claim about instruction i that the present ones justify. *)
Strict(S, value) ==
  CASE Bottom \in S -> Bottom
    [] Bottom \notin S /\ Top \in S -> Top
    [] OTHER -> value

Transfer(i) ==
  LET r    == fn.inst[i]
      e(k) == Operand(r.args[k])
  IN
  CASE r.op = "binop" /\ r.fun \in Operators ->
         Strict({e(1), e(2)},
                Val(Calculate(r.fun, e(1).value, e(2).value, IntModulus)))
    [] r.op = "icmp" /\ r.fun \in Predicates ->
         Strict({e(1), e(2)}, Val(ToInt(Holds(r.fun, e(1).value, e(2).value))))
    [] r.op \in {"zext", "sext", "trunc", "cast"} ->
         Strict({e(1)}, Val(Converted(r, e(1).value)))
    [] r.op = "phi" ->
         Join({e(k) : k \in {k \in DOMAIN r.args :
                 r.from[k] \in reach /\ Feasible(r.from[k], fn.parent[i])}})
    [] r.op = "condbr" -> e(1)
    [] r.op = "br" -> Bottom
    [] OTHER -> Top

(* Everything the function can do is covered by the claims. *)
Covered ==
  /\ Entry(fn) \in reach
  /\ \A a \in reach : \A b \in Succs(fn, a) : Feasible(a, b) => b \in reach
  /\ \A i \in Insts(fn) :
       fn.parent[i] \in reach /\ fn.inst[i].op \notin DOMAIN NumSuccs
         => Leq(Transfer(i), known[i])

-----------------------------------------------------------------------------
Init ==
  /\ IsFunction(fn)
  /\ reach = {Entry(fn)}
  /\ known = [i \in Insts(fn) |-> Bottom]
  /\ done = FALSE

(* One instruction of a reachable block: its claim may ascend to what the   *)
(* present claims justify or to top, and a branch may make successors       *)
(* reachable, those it rules out excepted.                                  *)
Visit(i) ==
  LET a == fn.parent[i] IN
  /\ ~done /\ a \in reach
  /\ \E e \in {known[i], Transfer(i), Top} :
       /\ Leq(known[i], e)
       /\ known' = [known EXCEPT ![i] = e]
  /\ \E R \in SUBSET {b \in Succs(fn, a) : Feasible(a, b)} :
       reach' = reach \union (IF i = Terminator(fn, a) THEN R ELSE {})
  /\ UNCHANGED <<fn, done>>

Stop ==
  /\ ~done /\ Covered
  /\ done' = TRUE
  /\ UNCHANGED <<fn, reach, known>>

Next == Stop \/ \E i \in Insts(fn) : Visit(i)

Spec == Init /\ [][Next]_analysisVars
=============================================================================
