------------------------------- MODULE MCDags -------------------------------
EXTENDS MCFunctions

(* All acyclic graphs of four blocks whose layout is a topological order,  *)
(* and two C functions of that kind that use memory and conversions.       *)
DagShapes == {s \in Shapes(4, [k \in 1 .. 3 |-> (k + 1) .. 4],
                           {"arg", "phi"}, {"zero", "one", "phi", "sum"}) :
                Canonical(s)}
DagFunctions == {ShapeFunction(s) : s \in DagShapes} \union {Memory, Pointers}
=============================================================================
