----------------------------- MODULE AnalysedRun -----------------------------
(***************************************************************************)
(* Why the promise of ConstantAnalysis is the right one: an analysis that  *)
(* keeps it, in whatever order it works, is finished, and then the         *)
(* function is executed.                                                   *)
(***************************************************************************)
EXTENDS ConstantAnalysis

CONSTANTS
  Functions,    \* the IR functions analysed
  Inputs        \* what arguments, loads and calls may deliver in a run

ASSUME AnalysedRunAssumption ==
  /\ \A f \in Functions : IsFunction(f)
  /\ IntModulus \in Nat \ {0}
  /\ CharModulus \in Nat \ {0}
  /\ Inputs \subseteq Int

VARIABLES block, rest, env   \* as in IrRun

Program == INSTANCE IrRun

runVars == <<block, rest, env>>

RunInit == fn \in Functions /\ Init /\ Program!RunInit

Analyse == Next /\ UNCHANGED runVars

RunProgram == done /\ Program!Run /\ UNCHANGED analysisVars

RunNext == Analyse \/ RunProgram

RunSpec == RunInit /\ [][RunNext]_<<analysisVars, runVars>>

-----------------------------------------------------------------------------
(* The run stays within the final claims: it never enters a block that was *)
(* not claimed reachable (deleteDeadBlocks removes those), and no           *)
(* instruction computes a value other than the constant claimed for it      *)
(* (tearDownInsts replaces it by that constant).                            *)
WithinClaims ==
  done => /\ block \in reach
          /\ \A i \in Insts(fn) : \A v \in env[i] : Leq(Val(v), known[i])
=============================================================================
