--------------------------- MODULE ConstantLattice ---------------------------
(***************************************************************************)
(* The lattice of src/src/codegen/sccp_pass.h: bottom (no value seen yet), *)
(* one element per integer, top (not a constant).  The value of a bottom   *)
(* element is 0; that of a top element is never read and kept 0 here.      *)
(***************************************************************************)
EXTENDS Integers

Elem(s, v) == [state |-> s, value |-> v]

Absent == Elem("absent", 0)   \* no entry in the std::map
Bottom == Elem("bottom", 0)
Val(v) == Elem("value", v)
Top    == Elem("top", 0)

Elements == [state : {"absent", "bottom", "value", "top"}, value : Int]

(* The enumerators of LatticeState are ordered; a missing entry reads as 0. *)
Rank(e) == CASE e.state \in {"absent", "bottom"} -> 0
             [] e.state = "value" -> 1
             [] e.state = "top" -> 2

(* The order the analysis relies on: flat, different values are unrelated. *)
Leq(d, e) ==
  \/ d.state \in {"absent", "bottom"}
  \/ e.state = "top"
  \/ d.state = "value" /\ d = e

(* Mutant of Join: an unknown operand is no reason to give up. *)
Join_IgnoreTop(S) ==
  LET values == {e \in S : e.state = "value"}
  IN  CASE values = {} -> Bottom
        [] \E e \in S : values = {e} -> CHOOSE e \in S : values = {e}
        [] OTHER -> Top

(* Mutant of Join: the first value is taken without comparing the others. *)
Join_FirstValue(S) ==
  LET values == {e \in S : e.state = "value"}
      tops   == {e \in S : e.state = "top"}
  IN  CASE tops # {} -> Top
        [] tops = {} /\ values = {} -> Bottom
        [] OTHER -> CHOOSE e \in values : TRUE

(* Least upper bound of a set of elements: the merge of visitPHINode. *)
Join(S) ==
  LET values == {e \in S : e.state = "value"}
      tops   == {e \in S : e.state = "top"}
  IN  CASE tops = {} /\ values = {} -> Bottom
        [] tops = {} /\ (\E e \in S : values = {e}) ->
             CHOOSE e \in S : values = {e}
        [] OTHER -> Top
=============================================================================
