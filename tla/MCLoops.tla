------------------------------ MODULE MCLoops ------------------------------
EXTENDS MCFunctions

(* Graphs with back edges in which no cycle consists of conditional branches *)
(* only, as cogen.cc emits them: a while loop closes with an unconditional   *)
(* branch, a do loop enters its test with one, and so does every goto.       *)
CondEdges(s) == {<<j, k>> \in (1 .. 3) \X (1 .. 4) :
                   Len(s.succs[j]) = 2 /\ k \in ToSet(s.succs[j])}
LoopShapes == {s \in Shapes(4, [k \in 1 .. 3 |-> 2 .. 4],
                            {"arg", "phi"}, {"zero", "phi", "sum"}) :
                 /\ Canonical(s)
                 /\ \A k \in 2 .. 3 : <<k, k>> \notin CondEdges(s)
                 /\ ~({<<2, 3>>, <<3, 2>>} \subseteq CondEdges(s))}
LoopFunctions == {ShapeFunction(s) : s \in LoopShapes}
=============================================================================
