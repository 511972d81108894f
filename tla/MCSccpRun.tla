------------------------------ MODULE MCSccpRun ------------------------------
EXTENDS SccpRun, MCDags

MCGarbageInts == {0, 1}
MCGarbageStates == {"bottom", "value", "top"}
MCInputs == {0, 1, 2}

(* Graphs of a family, and compiled C functions, some with loops. *)
AnalysedFunctions == DagFunctions \union SourceFunctions
=============================================================================
