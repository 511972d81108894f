-------------------------- MODULE MCCodeGenerator --------------------------
(* Kinds of translation units for TLC.  With labels, four statements give  *)
(* a goto and its label in either order inside and around a loop; without, *)
(* two statements and three operators give an operator in each operand of  *)
(* another, in a condition and in a value.                                 *)
EXTENDS CodeGenerator

CONSTANTS f, g, l

Unit(labels, prototyped, innerPrototyped, maxStatements, maxOperators) ==
  [labels |-> labels, prototyped |-> prototyped,
   innerPrototyped |-> innerPrototyped,
   maxStatements |-> maxStatements, maxOperators |-> maxOperators]

MCFunctionNames == {f, g}
MCLabels        == {l}

(* Labels only without prototypes: see the runs with LabelLeakExtents and  *)
(* InnerPrototypeExtents.                                                  *)
SoundExtents          == {Unit({l}, {}, {}, 4, 0), Unit({}, {f, g}, {g}, 2, 3)}
LoopExtents           == {Unit({}, {}, {}, 3, 0)}
LabelLeakExtents      == {Unit({l}, {f}, {}, 2, 0)}
InnerPrototypeExtents == {Unit({l}, {}, {g}, 4, 0)}
=============================================================================
