--------------------------- MODULE LatticeProofs ---------------------------
(***************************************************************************)
(* What the other proofs need of the lattice and its merge.                *)
(***************************************************************************)
EXTENDS ConstantLattice, TLAPS

(* The elements an analysis produces: only a value has a value. *)
Canonical(e) == e = Bottom \/ e = Top \/ e = Val(e.value)

(* The order of the lattice is transitive. *)
LEMMA LeqTransitive ==
  ASSUME NEW d, NEW e, NEW f, Leq(d, e), Leq(e, f)
  PROVE  Leq(d, f)
BY DEF Leq

(* A value covered by an element is that element, or the element is top. *)
LEMMA CoveredValue ==
  ASSUME NEW v, NEW e, Canonical(e), Leq(Val(v), e)
  PROVE  e = Top \/ e = Val(v)
BY DEF Canonical, Leq, Val, Top, Bottom, Elem

(* The three cases of a merge. *)
LEMMA JoinCases ==
  ASSUME NEW S, \A e \in S : Canonical(e)
  PROVE  \/ Join(S) = Top
         \/ Join(S) = Bottom /\ \A e \in S : e = Bottom
         \/ /\ Join(S) \in S /\ Join(S).state = "value"
            /\ \A e \in S : e = Bottom \/ e = Join(S)
<1> DEFINE values == {e \in S : e.state = "value"}
           tops   == {e \in S : e.state = "top"}
<1>1. CASE tops = {} /\ values = {}
  BY <1>1 DEF Join, Canonical, Bottom, Top, Val, Elem
<1>2. CASE ~(tops = {} /\ values = {}) /\ tops = {} /\ \E x \in S : values = {x}
  <2>1. Join(S) = CHOOSE x \in S : values = {x}
    BY <1>2 DEF Join
  <2>2. Join(S) \in S /\ values = {Join(S)}
    BY <1>2, <2>1
  <2>3. \A e \in S : e = Bottom \/ e \in values
    BY <1>2 DEF Canonical, Bottom, Top, Val, Elem
  <2> QED
    BY <2>2, <2>3
<1>3. CASE ~(tops = {} /\ values = {}) /\ ~(tops = {} /\ \E x \in S : values = {x})
  BY <1>3 DEF Join
<1> QED
  BY <1>1, <1>2, <1>3

(* The merge is monotone. *)
LEMMA JoinMonotone ==
  ASSUME NEW S, NEW T, \A e \in S : Canonical(e), \A e \in T : Canonical(e),
         \A d \in S : \E e \in T : Leq(d, e)
  PROVE  Leq(Join(S), Join(T)) /\ Canonical(Join(S))
<1>1. CASE Join(T) = Top
  BY <1>1, JoinCases DEF Leq, Canonical, Top, Elem
<1>2. CASE Join(T) = Bottom /\ \A e \in T : e = Bottom
  <2>1. \A d \in S : d = Bottom
    BY <1>2 DEF Leq, Canonical, Bottom, Top, Val, Elem
  <2>2. Join(S) = Bottom
    <3>1. {e \in S : e.state = "value"} = {} /\ {e \in S : e.state = "top"} = {}
      BY <2>1 DEF Bottom, Elem
    <3> QED
      BY <3>1 DEF Join
  <2> QED
    BY <2>2 DEF Leq, Canonical, Bottom, Elem
<1>3. CASE /\ Join(T) \in T /\ Join(T).state = "value"
           /\ \A e \in T : e = Bottom \/ e = Join(T)
  <2>1. \A d \in S : d = Bottom \/ d = Join(T)
    BY <1>3 DEF Leq, Canonical, Bottom, Top, Val, Elem
  <2>2. CASE \A d \in S : d = Bottom
    <3>1. {e \in S : e.state = "value"} = {} /\ {e \in S : e.state = "top"} = {}
      BY <2>2 DEF Bottom, Elem
    <3>2. Join(S) = Bottom
      BY <3>1 DEF Join
    <3> QED
      BY <3>2 DEF Leq, Canonical, Bottom, Elem
  <2>3. CASE Join(T) \in S
    <3>1. {e \in S : e.state = "value"} = {Join(T)} /\ {e \in S : e.state = "top"} = {}
      BY <1>3, <2>1, <2>3 DEF Bottom, Elem
    <3>2. Join(S) = Join(T)
      <4> DEFINE v == Join(T)
      <4>1. {e \in S : e.state = "value"} = {v} /\ {e \in S : e.state = "top"} = {}
            /\ v \in S
        BY <3>1, <2>3
      <4> HIDE DEF v
      <4>2. Join(S) = v
        BY <4>1 DEF Join
      <4> QED
        BY <4>2 DEF v
    <3> QED
      BY <1>3, <3>2, <2>3 DEF Leq
  <2> QED
    BY <2>1, <2>2, <2>3
<1> QED
  BY <1>1, <1>2, <1>3, JoinCases

(* The merge of canonical elements is canonical. *)
LEMMA JoinIsCanonical ==
  ASSUME NEW S, \A e \in S : Canonical(e)
  PROVE  Canonical(Join(S))
BY JoinCases DEF Canonical

(* The merge of a phi is above everything it merges. *)
LEMMA JoinIsUpperBound ==
  ASSUME NEW S, \A x \in S : Canonical(x), NEW e \in S
  PROVE  Leq(e, Join(S))
BY JoinCases DEF Leq, Canonical, Bottom, Top, Val, Elem
=============================================================================
