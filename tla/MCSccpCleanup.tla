---------------------------- MODULE MCSccpCleanup ----------------------------
EXTENDS SccpCleanup, MCFunctions
OnlyAndFalse == {AndFalse}
OnlyBreakWithResult == {BreakWithResult}
OnlyReturnsZero == {ReturnsZero}
OnlyDeadLoopWithIf == {DeadLoopWithIf}
CleanFunctions == SourceFunctions \union {DeadCode, UnusedZero}
MCGarbageInts == {0, 1}
MCGarbageStates == {"bottom", "value", "top"}
=============================================================================
