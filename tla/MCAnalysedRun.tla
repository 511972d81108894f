---------------------------- MODULE MCAnalysedRun ----------------------------
EXTENDS AnalysedRun, MCFunctions

MCInputs == {0, 1, 2}
BranchFunctions == SourceFunctions \ {StaysZero}
=============================================================================
