------------------------------- MODULE LlvmIr -------------------------------
(***************************************************************************)
(* The part of LLVM's in-memory IR that the passes of this compiler read:  *)
(* a function is a list of basic blocks in layout order, a block a list of *)
(* instructions, an instruction an opcode with operands and, for a         *)
(* terminator, successor blocks.  LLVM itself is not in this repository;   *)
(* the module holds what src/src/codegen/sccp_pass.cc asks of it.          *)
(***************************************************************************)
EXTENDS Integers, Sequences, FiniteSets

(***************************************************************************)
(* Operands.  An integer constant has the two's complement value `value'   *)
(* of a type with `size' values (2 to the width).  Null pointers, constant *)
(* expressions and globals are all "constant": no pass tells them apart.   *)
(***************************************************************************)
Ref(i)         == [kind |-> "inst", id |-> i]
Arg            == [kind |-> "arg"]
OtherConstant  == [kind |-> "constant"]
ConstInt(v, s) == [kind |-> "int", value |-> v, size |-> s]

IsOperand(f, o) ==
  \/ o = Arg
  \/ o = OtherConstant
  \/ o.kind = "int" /\ o.value \in Int /\ o.size \in Nat \ {0}
  \/ o.kind = "inst" /\ o.id \in DOMAIN f.inst

(***************************************************************************)
(* Functions.  f.layout lists the blocks, f.body[b] the instructions of b, *)
(* f.inst[i] describes instruction i and f.parent[i] is its block.  In an  *)
(* instruction `fun' is the sub-opcode (arithmetic operator, predicate,    *)
(* source type of a truncation) and `from' the incoming blocks of a phi.   *)
(***************************************************************************)
Blocks(f) == DOMAIN f.body
Insts(f)  == DOMAIN f.inst
Entry(f)  == f.layout[1]

Terminator(f, b) == f.body[b][Len(f.body[b])]
Succs(f, b) == LET t == f.inst[Terminator(f, b)]
               IN  {t.succs[k] : k \in DOMAIN t.succs}
Preds(f, b) == {a \in Blocks(f) : b \in Succs(f, a)}

(* The use list of i: one element per operand slot that holds i.  Its order *)
(* is whatever the construction of the IR left behind.                      *)
Uses(f, i) == UNION {{<<u, k>> : k \in {k \in DOMAIN f.inst[u].args :
                                          f.inst[u].args[k] = Ref(i)}} :
                     u \in Insts(f)}

Arity == [alloca |-> 0, binop |-> 2, cast |-> 1, icmp |-> 2, zext |-> 1,
          sext |-> 1, trunc |-> 1, br |-> 0, condbr |-> 1]
NumSuccs == [br |-> 1, condbr |-> 2, ret |-> 0]
AnyArity == {"call", "gep", "load", "store", "phi", "ret", "ptrtoint",
             "inttoptr"}

IsInst(f, i) ==
  LET r == f.inst[i] IN
  /\ r.op \in DOMAIN Arity \union AnyArity
  /\ \A k \in DOMAIN r.args : IsOperand(f, r.args[k])
  /\ r.op \in DOMAIN Arity => DOMAIN r.args = 1 .. Arity[r.op]
  /\ \A k \in DOMAIN r.succs : r.succs[k] \in Blocks(f)
  /\ r.op \in DOMAIN NumSuccs <=> i = Terminator(f, f.parent[i])
  /\ r.op \in DOMAIN NumSuccs => DOMAIN r.succs = 1 .. NumSuccs[r.op]
  /\ r.op = "phi" => /\ DOMAIN r.from = DOMAIN r.args
                     /\ {r.from[k] : k \in DOMAIN r.from} = Preds(f, f.parent[i])
  /\ IsFiniteSet(Uses(f, i))

(* What LLVM's verifier guarantees of a function with a body. *)
IsFunction(f) ==
  /\ f.layout \in Seq(Blocks(f))
  /\ f.layout # <<>>
  /\ \A b \in Blocks(f) : \E k \in DOMAIN f.layout : f.layout[k] = b
  /\ f.body \in [Blocks(f) -> Seq(Insts(f)) \ {<<>>}]
  /\ f.parent \in [Insts(f) -> Blocks(f)]
  /\ \A b \in Blocks(f) : \A k \in DOMAIN f.body[b] :
       /\ f.parent[f.body[b][k]] = b
       /\ f.inst[f.body[b][k]].op \in DOMAIN NumSuccs => k = Len(f.body[b])
  /\ \A i \in Insts(f) : \E k \in DOMAIN f.body[f.parent[i]] :
       f.body[f.parent[i]][k] = i
  /\ \A i \in Insts(f) : IsInst(f, i)
  /\ Preds(f, Entry(f)) = {}

(***************************************************************************)
(* What the instructions compute.  A value is a signed integer, except     *)
(* that of a comparison, which is 0 or 1.                                  *)
(***************************************************************************)
Signed(v, m) == ((v + m \div 2) % m) - m \div 2
ToInt(b)     == IF b THEN 1 ELSE 0

Operators  == {"add", "sub", "mul"}
Predicates == {"eq", "ne", "slt"}

Calculate(fun, a, b, m) ==
  Signed(CASE fun = "add" -> a + b [] fun = "sub" -> a - b
           [] fun = "mul" -> a * b, m)

Holds(pred, a, b) ==
  CASE pred = "eq" -> a = b [] pred = "ne" -> a # b [] pred = "slt" -> a < b

(***************************************************************************)
(* Constructors for the functions of a model-checking run.                 *)
(***************************************************************************)
Instruction(op, fun, args) == [op |-> op, fun |-> fun, args |-> args,
                               from |-> <<>>, succs |-> <<>>]
Phi(vals, blks)        == [Instruction("phi", "", vals) EXCEPT !.from = blks]
Br(b)                  == [Instruction("br", "", <<>>) EXCEPT !.succs = <<b>>]
CondBr(c, t, e)        == [Instruction("condbr", "", <<c>>) EXCEPT !.succs = <<t, e>>]
Ret(vals)              == Instruction("ret", "", vals)

(* code is a sequence of blocks [name, insts], insts a sequence of          *)
(* <<identifier, instruction>> pairs; identifiers are unique in a function. *)
Function(code) ==
  LET pairs == UNION {{code[n].insts[k] : k \in DOMAIN code[n].insts} :
                      n \in DOMAIN code}
      ids   == {p[1] : p \in pairs}
      at(b) == CHOOSE n \in DOMAIN code : code[n].name = b
  IN  [layout |-> [n \in DOMAIN code |-> code[n].name],
       body   |-> [b \in {code[n].name : n \in DOMAIN code} |->
                     [k \in DOMAIN code[at(b)].insts |->
                        code[at(b)].insts[k][1]]],
       inst   |-> [i \in ids |-> (CHOOSE p \in pairs : p[1] = i)[2]],
       parent |-> [i \in ids |->
                     CHOOSE b \in {code[n].name : n \in DOMAIN code} :
                       \E k \in DOMAIN code[at(b)].insts :
                         code[at(b)].insts[k][1] = i]]
=============================================================================
