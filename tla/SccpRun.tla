------------------------------- MODULE SccpRun -------------------------------
(***************************************************************************)
(* The optimiser and the program: the analysis of Sccp runs to its end,    *)
(* then the function it analysed is executed, and what it does is compared *)
(* with what the tables claim.                                             *)
(***************************************************************************)
EXTENDS Sccp

CONSTANT Inputs   \* what arguments, loads and calls may deliver in a run

ASSUME SccpRunAssumption == Inputs \subseteq Int

VARIABLES block, rest, env   \* as in IrRun

Program == INSTANCE IrRun

runVars == <<block, rest, env>>

RunInit == Init /\ Program!RunInit

Analyse == Next /\ UNCHANGED runVars

RunProgram == phase = "analysed" /\ Program!Run /\ UNCHANGED vars

RunNext == Analyse \/ RunProgram

RunSpec == RunInit /\ [][RunNext]_<<vars, runVars>>

-----------------------------------------------------------------------------
(* What the run meets is what the tables say: a block that is deleted is    *)
(* never entered, and an instruction that is replaced by a constant never   *)
(* computes anything else.                                                  *)
ClaimedValuesHold ==
  phase = "analysed" =>
    /\ Reachable(block)
    /\ \A i \in Insts(fn) : \A v \in env[i] :
         Leq(Val(v), LatticeElem(Ref(i))) /\ LatticeElem(Ref(i)) # Bottom

(* A branch that is folded (sccp_pass.cc:767) is never taken the other way: *)
(* visitBranchInst records it once and never raises it.                     *)
FoldedBranchesHold ==
  phase = "analysed" /\ rest # <<>> /\ fn.inst[Head(rest)].op = "condbr" =>
    LET claim == LatticeElem(Ref(Head(rest))) IN
    claim.state = "value" =>
      \A c \in Program!Operand(fn.inst[Head(rest)].args[1]) : c = 0 <=> claim.value = 0

(* All that tearDownInsts and deleteDeadBlocks act on is true of every run. *)
ClaimsHold == ClaimedValuesHold /\ FoldedBranchesHold
=============================================================================
