-------------------------------- MODULE IrRun --------------------------------
(***************************************************************************)
(* A run of an IR function: what the compiled program does, against which  *)
(* the claims of the optimiser are measured.  LLVM defines these steps; the *)
(* repository uses them when it hands the module to llc or lli.            *)
(***************************************************************************)
EXTENDS LlvmIr

CONSTANTS
  IntModulus,   \* number of values of a C int
  CharModulus,  \* number of values of a char
  Inputs        \* what arguments, loads and calls may deliver

VARIABLES
  fn,     \* the function
  block,  \* the block being executed
  rest,   \* instructions of that block still to execute
  env     \* the latest result of each instruction: {v}, or {} before it ran

runVars == <<block, rest, env>>

(* Arguments, globals and what else is no integer constant may be anything. *)
Operand(o) ==
  CASE o.kind = "int"  -> {o.value}
    [] o.kind = "inst" -> env[o.id]
    [] OTHER -> Inputs

(* Extensions and truncations; `fun' is the source type. *)
ConvertValue(r, v) ==
  CASE r.op = "zext" /\ r.fun = "i8" -> v % CharModulus
    [] r.op = "trunc" -> Signed(v, IF r.fun = "i32" THEN CharModulus
                                                    ELSE IntModulus)
    [] OTHER -> v

(* The values instruction i may compute. *)
Results(i) ==
  LET r == fn.inst[i] IN
  CASE r.op = "binop" /\ r.fun \in Operators ->
         {Calculate(r.fun, a, b, IntModulus) :
            a \in Operand(r.args[1]), b \in Operand(r.args[2])}
    [] r.op = "icmp" /\ r.fun \in Predicates ->
         {ToInt(Holds(r.fun, a, b)) :
            a \in Operand(r.args[1]), b \in Operand(r.args[2])}
    [] r.op \in {"zext", "sext", "trunc", "cast"} ->
         {ConvertValue(r, a) : a \in Operand(r.args[1])}
    [] OTHER -> Inputs

IsPhi(i) == fn.inst[i].op = "phi"

(* What phi i may receive on the edge from block a. *)
Received(i, a) ==
  UNION {Operand(fn.inst[i].args[k]) :
           k \in {k \in DOMAIN fn.inst[i].from : fn.inst[i].from[k] = a}}

RunInit ==
  /\ block = Entry(fn)
  /\ rest = fn.body[Entry(fn)]
  /\ env = [i \in Insts(fn) |-> {}]

Execute ==
  /\ rest # <<>>
  /\ fn.inst[Head(rest)].op \notin DOMAIN NumSuccs
  /\ IF IsPhi(Head(rest))
       THEN UNCHANGED env
       ELSE \E v \in Results(Head(rest)) : env' = [env EXCEPT ![Head(rest)] = {v}]
  /\ rest' = Tail(rest)
  /\ UNCHANGED block

(* Taking an edge evaluates the phis of the target, all at once. *)
Jump(b) ==
  LET phis == {i \in Insts(fn) : IsPhi(i) /\ fn.parent[i] = b} IN
  /\ block' = b
  /\ rest' = fn.body[b]
  /\ \E v \in [phis -> UNION {Received(i, block) : i \in phis}] :
       /\ \A i \in phis : v[i] \in Received(i, block)
       /\ env' = [i \in Insts(fn) |-> IF i \in phis THEN {v[i]} ELSE env[i]]

TakeBranch ==
  /\ rest # <<>>
  /\ LET r == fn.inst[Head(rest)] IN
       \/ r.op = "br" /\ Jump(r.succs[1])
       \/ r.op = "condbr" /\ \E c \in Operand(r.args[1]) :
            Jump(r.succs[IF c = 0 THEN 2 ELSE 1])

LeaveFunction ==
  /\ rest # <<>>
  /\ fn.inst[Head(rest)].op = "ret"
  /\ rest' = <<>>
  /\ UNCHANGED <<block, env>>

Run == Execute \/ TakeBranch \/ LeaveFunction
=============================================================================
