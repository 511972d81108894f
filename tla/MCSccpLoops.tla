----------------------------- MODULE MCSccpLoops -----------------------------
EXTENDS Sccp, MCLoops
MCGarbageInts == {0, 1}
MCGarbageStates == {"bottom", "value", "top"}

(* Graphs of the family, and compiled C functions. *)
LoopingFunctions == LoopFunctions \union SourceFunctions
=============================================================================
