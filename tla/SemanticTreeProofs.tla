------------------------- MODULE SemanticTreeProofs -------------------------
(***************************************************************************)
(* What the semantic tree promises for every program text: its types, one  *)
(* object per function, scopes that are final once they are left, no       *)
(* infinite struct, look-ups that find the innermost binding, and that the *)
(* tree implements LexicalScopes.                                          *)
(*                                                                         *)
(* The nodes of the open constructs are the active ones and ascend from    *)
(* the outside to the inside (ScopeInv), and below an entry of an open     *)
(* scope a stack has only entries of open scopes, from the inside to the   *)
(* outside (BoundInv).  A step keeps the open scopes, opens one that is    *)
(* younger than all or closes the youngest (ScopeStep), and a stack stays, *)
(* loses entries of closed scopes or has an entry of the current scope     *)
(* pushed (MapsStep, TagsStep); each action is an instance of these.       *)
(***************************************************************************)
EXTENDS SemanticTree, SequenceTheorems, FiniteSetTheorems, WellFoundedInduction, TLAPS

(***************************************************************************)
(* Lemmas about the operators.                                             *)
(***************************************************************************)

(* Min is the least member. *)
LEMMA LeastMember ==
  ASSUME NEW S \in SUBSET Nat, S # {}
  PROVE  Min(S) \in S /\ \A k \in S : Min(S) <= k
  <1>1. PICK m \in S : \A k \in S : ~(<<k, m>> \in OpToRel(<, Nat))
    BY WFMin, NatLessThanWellFounded
  <1>2. OpToRel(<, Nat) = {p \in Nat \X Nat : p[1] < p[2]}
    BY DEF OpToRel
  <1>3. ASSUME NEW k \in S, k < m PROVE FALSE
    <2> DEFINE p == <<k, m>>
    <2>1. p \in Nat \X Nat /\ p[1] < p[2]
      BY <1>3
    <2> HIDE DEF p
    <2>2. p \in OpToRel(<, Nat)
      BY <1>2, <2>1
    <2> QED
      BY <1>1, <2>2 DEF p
  <1>4. \A k \in S : m <= k
    BY <1>3
  <1> QED
    BY <1>4 DEF Min

(* t is the stack without its first m entries. *)
Without(stack, m, t) == /\ m \in 0 .. Len(stack)
                        /\ Len(t) = Len(stack) - m
                        /\ \A i \in 1 .. Len(t) : t[i] = stack[i + m]

(* Remaining drops entries from the top until one is live. *)
LEMMA RemainingIs ==
  ASSUME NEW S, NEW stack \in Seq(S), NEW live
  PROVE  /\ Remaining(stack, live) \in Seq(S)
         /\ \E m : /\ Without(stack, m, Remaining(stack, live))
                   /\ \A i \in 1 .. m : stack[i] \notin live
                   /\ Remaining(stack, live) # <<>> => stack[m + 1] \in live
  <1> DEFINE kept == {k \in DOMAIN stack : stack[k] \in live}
             n == Len(stack)
  <1>1. n \in Nat /\ DOMAIN stack = 1 .. n /\ kept \subseteq 1 .. n
    OBVIOUS
  <1>2. CASE kept = {}
    <2>1. Remaining(stack, live) = <<>>
      BY <1>2 DEF Remaining
    <2>2. \A i \in 1 .. n : stack[i] \notin live
      BY <1>1, <1>2
    <2>3. <<>> \in Seq(S) /\ Len(<<>>) = 0
      OBVIOUS
    <2>4. Without(stack, n, <<>>)
      BY <1>1, <2>3 DEF Without
    <2> QED
      BY <2>1, <2>2, <2>3, <2>4
  <1>3. CASE kept # {}
    <2> DEFINE k == Min(kept)
               t == SubSeq(stack, k, n)
    <2>1. k \in kept /\ \A j \in kept : k <= j
      <3>1. kept \in SUBSET Nat
        BY <1>1
      <3> HIDE DEF kept
      <3> QED
        BY <1>3, <3>1, LeastMember
    <2>2. Remaining(stack, live) = t
      BY <1>3 DEF Remaining
    <2>3. k \in 1 .. n /\ stack[k] \in live
      BY <1>1, <2>1
    <2>4. \A i \in 1 .. k - 1 : stack[i] \notin live
      <3>1. ASSUME NEW i \in 1 .. k - 1, stack[i] \in live PROVE FALSE
        <4>1. i \in kept
          BY <1>1, <2>3, <3>1
        <4> QED
          BY <1>1, <2>1, <2>3, <4>1
      <3> QED
        BY <3>1
    <2> HIDE DEF k, n, kept
    <2>5. t \in Seq(S) /\ Len(t) = n - (k - 1) /\ \A i \in 1 .. Len(t) : t[i] = stack[i + (k - 1)]
      BY <1>1, <2>3 DEF n
    <2>6. Without(stack, k - 1, t)
      BY <1>1, <2>3, <2>5 DEF Without, n
    <2>7. (k - 1) + 1 = k
      BY <1>1, <2>3
    <2> QED
      BY <2>2, <2>3, <2>4, <2>5, <2>6, <2>7
  <1> QED
    BY <1>2, <1>3

(* What push puts on top, and where the rest is then. *)
LEMMA PushIs ==
  ASSUME NEW S, NEW e \in S, NEW stack \in Seq(S)
  PROVE  /\ Push(e, stack) \in Seq(S)
         /\ Len(Push(e, stack)) = Len(stack) + 1 /\ Push(e, stack) # <<>>
         /\ DOMAIN Push(e, stack) = 1 .. Len(stack) + 1
         /\ Push(e, stack)[1] = e
         /\ \A i \in 1 .. Len(stack) : Push(e, stack)[i + 1] = stack[i]
         /\ \A k \in 2 .. Len(stack) + 1 : Push(e, stack)[k] = stack[k - 1]
  BY DEF Push

(* The topmost entry among those at the places H is found again when       *)
(* others above it are dropped, and when one is pushed.                    *)
LEMMA TopmostWithout ==
  ASSUME NEW S, NEW stack \in Seq(S), NEW t \in Seq(S), NEW m, Without(stack, m, t),
         NEW H \in SUBSET DOMAIN stack, \A k \in H : k > m,
         NEW G, G = {i \in DOMAIN t : i + m \in H}
  PROVE  /\ G = {} <=> H = {}
         /\ Topmost(t, G) = Topmost(stack, H)
  <1>1. /\ Len(stack) \in Nat /\ Len(t) \in Nat /\ DOMAIN stack = 1 .. Len(stack)
        /\ DOMAIN t = 1 .. Len(t) /\ m \in Nat
    BY DEF Without
  <1>2. \A k \in H : k - m \in G
    BY <1>1 DEF Without
  <1>3. G = {} <=> H = {}
    BY <1>2
  <1>4. CASE H # {}
    <2>1. /\ Min(H) \in H /\ \A k \in H : Min(H) <= k
          /\ Min(G) \in G /\ \A k \in G : Min(G) <= k
      <3>1. H \in SUBSET Nat /\ G \in SUBSET Nat /\ G # {}
        BY <1>1, <1>3, <1>4
      <3> QED
        BY <1>4, <3>1, LeastMember
    <2>2. Min(H) = Min(G) + m
      <3>1. Min(G) + m \in H /\ Min(H) - m \in G
        BY <1>2, <2>1
      <3>2. Min(G) \in Nat /\ Min(H) \in Nat
        BY <1>1, <2>1
      <3>3. Min(H) <= Min(G) + m /\ Min(G) <= Min(H) - m
        BY <2>1, <3>1
      <3> QED
        BY <1>1, <3>2, <3>3
    <2>3. t[Min(G)] = stack[Min(G) + m]
      BY <1>1, <2>1 DEF Without
    <2> QED
      BY <1>3, <1>4, <2>2, <2>3 DEF Topmost
  <1> QED
    BY <1>3, <1>4 DEF Topmost

(* A push elsewhere does not change what is found ... *)
LEMMA TopmostPush ==
  ASSUME NEW S, NEW stack \in Seq(S), NEW e \in S,
         NEW G \in SUBSET DOMAIN Push(e, stack),
         NEW H, H = {i \in DOMAIN stack : i + 1 \in G}
  PROVE  1 \notin G => /\ G = {} <=> H = {}
                       /\ Topmost(Push(e, stack), G) = Topmost(stack, H)
  <1> DEFINE t == Push(e, stack)
  <1>1. /\ Len(stack) \in Nat /\ DOMAIN stack = 1 .. Len(stack)
        /\ DOMAIN t = 1 .. Len(stack) + 1 /\ t[1] = e
        /\ \A i \in 1 .. Len(stack) : t[i + 1] = stack[i]
    <2>1. Len(stack) \in Nat /\ DOMAIN stack = 1 .. Len(stack)
      OBVIOUS
    <2>2. /\ DOMAIN Push(e, stack) = 1 .. Len(stack) + 1 /\ Push(e, stack)[1] = e
          /\ \A i \in 1 .. Len(stack) : Push(e, stack)[i + 1] = stack[i]
      BY PushIs
    <2> QED
      BY <2>1, <2>2
  <1> HIDE DEF t
  <1>2. G \subseteq 1 .. Len(stack) + 1
    BY <1>1 DEF t
  <1>3. \A i \in G : i # 1 => i - 1 \in H
    BY <1>1, <1>2
  <1>4. \A i \in H : i + 1 \in G
    BY <1>1
  <1>6. CASE 1 \notin G
    <2>1. G = {} <=> H = {}
      BY <1>3, <1>4, <1>6
    <2>2. CASE H # {}
      <3>1. /\ Min(H) \in H /\ \A k \in H : Min(H) <= k
            /\ Min(G) \in G /\ \A k \in G : Min(G) <= k
        <4>1. H \in SUBSET Nat /\ G \in SUBSET Nat /\ G # {}
          BY <1>1, <1>2, <2>1, <2>2
        <4> QED
          BY <2>2, <4>1, LeastMember
      <3>2. Min(G) = Min(H) + 1
        <4>1. Min(G) - 1 \in H /\ Min(H) + 1 \in G
          BY <1>3, <1>4, <1>6, <3>1
        <4>2. Min(G) \in Nat /\ Min(H) \in Nat
          BY <1>1, <1>2, <3>1
        <4>3. Min(H) <= Min(G) - 1 /\ Min(G) <= Min(H) + 1
          BY <3>1, <4>1
        <4> QED
          BY <4>2, <4>3
      <3>3. t[Min(H) + 1] = stack[Min(H)]
        BY <1>1, <3>1
      <3> QED
        BY <1>6, <2>1, <2>2, <3>2, <3>3 DEF Topmost, t
    <2> QED
      BY <1>6, <2>1, <2>2 DEF Topmost, t
  <1> QED
    BY <1>6

(* ... and an entry pushed at one of these places is found. *)
LEMMA TopmostPushed ==
  ASSUME NEW S, NEW stack \in Seq(S), NEW e \in S,
         NEW G \in SUBSET DOMAIN Push(e, stack), 1 \in G
  PROVE  Topmost(Push(e, stack), G) = e
  <1> DEFINE t == Push(e, stack)
  <1>1. /\ DOMAIN t = 1 .. Len(stack) + 1 /\ t[1] = e /\ Len(stack) \in Nat
    BY PushIs
  <1> HIDE DEF t
  <1>2. G \in SUBSET Nat /\ \A k \in G : 1 <= k
    BY <1>1 DEF t
  <1>3. Min(G) \in G /\ \A k \in G : Min(G) <= k
    BY <1>2, LeastMember
  <1>4. Min(G) \in Nat /\ Min(G) <= 1 /\ 1 <= Min(G)
    BY <1>2, <1>3
  <1>5. Min(G) = 1
    BY <1>4
  <1> QED
    BY <1>1, <1>5 DEF Topmost, t

(* The loops among the constructs being parsed. *)
Loops(a) == {k \in DOMAIN a : a[k].kind = "loop"}

(* A construct that is entered adds a loop if it is one. *)
LEMMA LoopsPush ==
  ASSUME NEW S, NEW a \in Seq(S), NEW o \in S
  PROVE  /\ Cardinality(Loops(a)) \in Nat
         /\ Cardinality(Loops(<<o>> \o a)) =
              Cardinality(Loops(a)) + (IF o.kind = "loop" THEN 1 ELSE 0)
  <1> DEFINE n == Len(a)
             up == {k + 1 : k \in Loops(a)}
             f == [k \in Loops(a) |-> k + 1]
  <1>1. n \in Nat /\ DOMAIN a = 1 .. n /\ Loops(a) \subseteq 1 .. n
    BY DEF Loops
  <1>2. IsFiniteSet(Loops(a))
    <2>1. IsFiniteSet(1 .. n)
      BY <1>1, FS_Interval
    <2> HIDE DEF n
    <2> QED
      BY <1>1, <2>1, FS_Subset
  <1>3. IsFiniteSet(up) /\ Cardinality(up) = Cardinality(Loops(a))
    <2>1. f \in Bijection(Loops(a), up)
      BY <1>1 DEF Bijection, Injection, Surjection, IsInjective
    <2> HIDE DEF f, up
    <2>2. ExistsBijection(Loops(a), up)
      BY <2>1 DEF ExistsBijection
    <2> QED
      BY <1>2, <2>2, FS_Bijection
  <1>4. /\ DOMAIN (<<o>> \o a) = 1 .. n + 1 /\ (<<o>> \o a)[1] = o
        /\ \A k \in 1 .. n : (<<o>> \o a)[k + 1] = a[k]
        /\ \A k \in 2 .. n + 1 : (<<o>> \o a)[k] = a[k - 1]
    BY PushIs DEF Push
  <1>5. 1 \notin up
    BY <1>1
  <1>6. Loops(<<o>> \o a) = up \union (IF o.kind = "loop" THEN {1} ELSE {})
    <2> DEFINE b == <<o>> \o a
    <2>1. Loops(b) = {k \in 1 .. n + 1 : b[k].kind = "loop"}
      BY <1>4 DEF Loops
    <2> HIDE DEF b
    <2>2. \A k \in 2 .. n + 1 : k \in Loops(b) <=> k - 1 \in Loops(a)
      BY <1>1, <1>4, <2>1 DEF Loops, b
    <2>3. \A k \in 2 .. n + 1 : k \in up <=> k - 1 \in Loops(a)
      BY <1>1
    <2>4. 1 \in Loops(b) <=> o.kind = "loop"
      BY <1>1, <1>4, <2>1 DEF b
    <2>5. up \subseteq 2 .. n + 1 /\ Loops(b) \subseteq 1 .. n + 1
      BY <1>1, <2>1
    <2>6. 1 .. n + 1 = {1} \union 2 .. n + 1
      BY <1>1
    <2> HIDE DEF up
    <2> QED
      BY <1>1, <2>2, <2>3, <2>4, <2>5, <2>6 DEF b
  <1> HIDE DEF up
  <1>7. /\ Cardinality(up \union {1}) = Cardinality(up) + 1
        /\ Cardinality(Loops(a)) \in Nat
    BY <1>2, <1>3, <1>5, FS_AddElement, FS_CardinalityType
  <1> QED
    BY <1>3, <1>6, <1>7

(* The members of a set of numbers in ascending order. *)
Rank(S, p) == Cardinality({q \in S : q <= p})
Ascending(S) == [d \in 1 .. Cardinality(S) |-> CHOOSE p \in S : Rank(S, p) = d]

(* The rank numbers a set of numbers from 1 in ascending order. *)
LEMMA RankIs ==
  ASSUME NEW S \in SUBSET Nat, IsFiniteSet(S)
  PROVE  /\ Cardinality(S) \in Nat
         /\ \A p \in S : Rank(S, p) \in 1 .. Cardinality(S)
         /\ \A p, q \in S : p < q => Rank(S, p) < Rank(S, q)
         /\ \A d \in 1 .. Cardinality(S) : \E p \in S : Rank(S, p) = d
  <1> DEFINE Below(p) == {q \in S : q <= p}
             c == Cardinality(S)
             r == [p \in S |-> Rank(S, p)]
  <1>1. c \in Nat
    BY FS_CardinalityType
  <1>2. ASSUME NEW p \in S
        PROVE  /\ IsFiniteSet(Below(p)) /\ Rank(S, p) = Cardinality(Below(p))
               /\ Cardinality(Below(p)) \in 1 .. c
    <2>1. Below(p) \in SUBSET S /\ p \in Below(p)
      OBVIOUS
    <2>2. IsFiniteSet(Below(p)) /\ Cardinality(Below(p)) <= c
      BY <2>1, FS_Subset
    <2>3. Cardinality(Below(p)) \in Nat /\ Cardinality(Below(p)) # 0
      BY <2>1, <2>2, FS_CardinalityType, FS_EmptySet
    <2> QED
      BY <1>1, <2>2, <2>3 DEF Rank
  <1>3. ASSUME NEW p \in S, NEW q \in S, p < q PROVE Rank(S, p) < Rank(S, q)
    <2>0. \A k \in S : k \in Nat
      OBVIOUS
    <2>1. Below(p) \in SUBSET Below(q) /\ q \in Below(q) /\ q \notin Below(p)
      <3>1. p \in Nat /\ q \in Nat /\ q <= q /\ ~(q <= p)
        BY <1>3, <2>0
      <3>2. \A k \in S : k <= p => k <= q
        BY <1>3, <2>0, <3>1
      <3> QED
        BY <3>1, <3>2
    <2>2. Cardinality(Below(p)) <= Cardinality(Below(q)) /\ Cardinality(Below(p)) # Cardinality(Below(q))
      BY <1>2, <2>1, FS_Subset
    <2> QED
      BY <1>1, <1>2, <2>2
  <1>4. r \in Injection(S, 1 .. c)
    <2>1. r \in [S -> 1 .. c]
      BY <1>2
    <2>2. ASSUME NEW p \in S, NEW q \in S, p # q PROVE r[p] # r[q]
      <3>0. p \in Nat /\ q \in Nat
        OBVIOUS
      <3>1. p < q \/ q < p
        BY <2>2, <3>0
      <3>4. Rank(S, p) \in 1 .. c /\ Rank(S, q) \in 1 .. c
        BY <1>2
      <3>2. Rank(S, p) < Rank(S, q) \/ Rank(S, q) < Rank(S, p)
        BY <1>3, <3>1
      <3>3. Rank(S, p) # Rank(S, q)
        BY <1>1, <3>4, <3>2
      <3> QED
        BY <3>3
    <2> QED
      BY <2>1, <2>2 DEF Injection, IsInjective
  <1>5. IsFiniteSet(1 .. c) /\ Cardinality(1 .. c) = c
    <2>1. Cardinality(1 .. c) = IF 1 > c THEN 0 ELSE c - 1 + 1
      BY <1>1, FS_Interval
    <2> QED
      BY <1>1, <2>1, FS_Interval
  <1>6. r \in Surjection(S, 1 .. c)
    <2> HIDE DEF r, c
    <2> QED
      BY <1>4, <1>5, FS_Injection DEF c
  <1>7. \A d \in 1 .. c : \E p \in S : Rank(S, p) = d
    BY <1>6 DEF Surjection
  <1> QED
    BY <1>1, <1>2, <1>3, <1>7

(* The list has each member once, at its rank. *)
LEMMA AscendingIs ==
  ASSUME NEW S \in SUBSET Nat, IsFiniteSet(S)
  PROVE  /\ Cardinality(S) \in Nat /\ DOMAIN Ascending(S) = 1 .. Cardinality(S)
         /\ \A d \in 1 .. Cardinality(S) :
              Ascending(S)[d] \in S /\ Rank(S, Ascending(S)[d]) = d
         /\ \A p \in S : /\ Rank(S, p) \in 1 .. Cardinality(S)
                         /\ Ascending(S)[Rank(S, p)] = p
         /\ \A p, q \in S : p < q => Rank(S, p) < Rank(S, q)
  <1>1. ASSUME NEW d \in 1 .. Cardinality(S)
        PROVE  Ascending(S)[d] \in S /\ Rank(S, Ascending(S)[d]) = d
    <2>1. \E p \in S : Rank(S, p) = d
      BY RankIs
    <2> QED
      BY <2>1 DEF Ascending
  <1>2. ASSUME NEW p \in S
        PROVE  Rank(S, p) \in 1 .. Cardinality(S) /\ Ascending(S)[Rank(S, p)] = p
    <2> DEFINE q == Ascending(S)[Rank(S, p)]
    <2>1. Rank(S, p) \in 1 .. Cardinality(S)
      BY RankIs
    <2>2. q \in S /\ Rank(S, q) = Rank(S, p)
      BY <1>1, <2>1
    <2> HIDE DEF q
    <2>3. q \in S /\ ~(Rank(S, p) < Rank(S, q)) => ~(p < q)
      BY RankIs
    <2>4. q \in S /\ ~(Rank(S, q) < Rank(S, p)) => ~(q < p)
      BY RankIs
    <2>5. Rank(S, p) \in Nat /\ p \in Nat /\ q \in Nat
      <3>1. Cardinality(S) \in Nat /\ \A k \in S : k \in Nat
        BY RankIs
      <3> QED
        BY <2>1, <2>2, <3>1
    <2>6. q = p
      BY <2>2, <2>3, <2>4, <2>5
    <2> QED
      BY <2>1, <2>6 DEF q
  <1> QED
    BY <1>1, <1>2, RankIs DEF Ascending

(* A member above all others is appended. *)
LEMMA AscendingAdd ==
  ASSUME NEW S \in SUBSET Nat, IsFiniteSet(S), NEW m \in Nat, \A p \in S : p < m,
         NEW T, T = S \union {m}
  PROVE  /\ Cardinality(T) = Cardinality(S) + 1
         /\ Ascending(T)[Cardinality(T)] = m
         /\ \A d \in 1 .. Cardinality(S) : Ascending(T)[d] = Ascending(S)[d]
  <1>1. m \notin S /\ T \in SUBSET Nat
    OBVIOUS
  <1>2. IsFiniteSet(T) /\ Cardinality(T) = Cardinality(S) + 1 /\ Cardinality(S) \in Nat
    BY <1>1, FS_AddElement, FS_CardinalityType
  <1>3. {q \in T : q <= m} = T
    <2>1. \A q \in T : q \in Nat /\ (q < m \/ q = m)
      OBVIOUS
    <2>2. \A q \in T : q <= m
      BY <2>1
    <2> QED
      BY <2>2
  <1>4. Rank(T, m) = Cardinality(T)
    BY <1>3 DEF Rank
  <1>5. Ascending(T)[Cardinality(T)] = m
    BY <1>1, <1>2, <1>4, AscendingIs
  <1>6. ASSUME NEW d \in 1 .. Cardinality(S) PROVE Ascending(T)[d] = Ascending(S)[d]
    <2> DEFINE p == Ascending(S)[d]
    <2>1. p \in S /\ Rank(S, p) = d
      BY AscendingIs
    <2> HIDE DEF p
    <2>2. {q \in T : q <= p} = {q \in S : q <= p}
      BY <2>1
    <2>3. Rank(T, p) = d /\ p \in T
      BY <2>1, <2>2 DEF Rank
    <2>4. Ascending(T)[d] = p
      BY <1>1, <1>2, <2>3, AscendingIs
    <2> QED
      BY <2>4 DEF p
  <1> QED
    BY <1>2, <1>5, <1>6

(* The scopes of the refinement are the open nodes in this order. *)
LEMMA ScopesAscend == ScopeNodes = Ascending(OpenNodes)
  BY DEF ScopeNodes, Ascending, Rank

-----------------------------------------------------------------------------
(* Types, and how the open constructs nest.                                *)

SemNode == [parent : NodeIndex \union {None}, active : BOOLEAN,
            insideStruct : BOOLEAN, forward : BOOLEAN,
            decl : [Names -> Objects \union {None}]]

Tree(ns) == /\ ns \in Seq(SemNode) /\ Len(ns) \in NodeIndex
            /\ \A n \in DOMAIN ns : n # Root => ns[n].parent \in 1 .. n - 1

Declaration(N) == [pos : N, decl : Objects]
Tagged(N)      == [node : N, forward : BOOLEAN]
Known          == [decl : Objects, forward : BOOLEAN]
Construct(N)   == [kind : {"function", "block", "struct", "loop"}, node : N]

(* The number of nodes, of declarations and of open constructs only matter *)
(* as natural numbers.                                                     *)
LEMMA Bounds ==
  /\ MaxNodes \in Nat /\ NodeIndex = 1 .. MaxNodes /\ 1 \in NodeIndex
  /\ MaxDeclarations \in Nat /\ None \notin NodeIndex /\ None \notin Objects
  BY SemanticTreeAssumption, NullAssumption DEF NodeIndex

(* Entries that refer to nodes still do when there are more nodes. *)
LEMMA Widen ==
  ASSUME NEW M, NEW N \in SUBSET M
  PROVE  /\ \A s : s \in Seq(Declaration(N)) => s \in Seq(Declaration(M))
         /\ \A s : s \in Seq(Tagged(N)) => s \in Seq(Tagged(M))
         /\ \A s : s \in Seq(Construct(N)) => s \in Seq(Construct(M))
  <1>1. ASSUME NEW S, NEW T, S \subseteq T PROVE \A s : s \in Seq(S) => s \in Seq(T)
    BY <1>1
  <1>2. Declaration(N) \subseteq Declaration(M)
    BY DEF Declaration
  <1>3. Tagged(N) \subseteq Tagged(M)
    BY DEF Tagged
  <1>4. Construct(N) \subseteq Construct(M)
    BY DEF Construct
  <1> QED
    BY <1>1, <1>2, <1>3, <1>4

(* The scope around the k-th construct that is open is that of the next. *)
Around(k) == IF k <= Len(open) THEN open[k].node ELSE Root

Nested ==
  /\ currentPos = Around(1)
  /\ \A k \in DOMAIN open :
       IF open[k].kind = "loop" THEN open[k].node = Around(k + 1)
       ELSE nodes[open[k].node].parent = Around(k + 1)

TypeInv == TypeOK /\ Nested

(* The parts of TypeOK ... *)
LEMMA TypeParts ==
  ASSUME TypeOK
  PROVE  /\ Tree(nodes) /\ DOMAIN nodes = 1 .. Len(nodes)
         /\ currentPos \in DOMAIN nodes
         /\ declarationMap \in [Names -> Seq(Declaration(DOMAIN nodes))]
         /\ structMap \in [Tags -> Seq(Tagged(DOMAIN nodes))]
         /\ functionMap \in [Names -> Known \union {None}]
         /\ currentFunction \in Objects \union {None}
         /\ declarations \in 0 .. MaxDeclarations
         /\ loopDepth = Cardinality(Loops(open))
         /\ open \in Seq(Construct(DOMAIN nodes))
  <1>1. Tree(nodes) /\ DOMAIN nodes = 1 .. Len(nodes)
    BY DEF TypeOK, Tree, SemNode
  <1>2. loopDepth = Cardinality(Loops(open))
    BY DEF TypeOK, Loops
  <1> QED
    BY <1>1, <1>2 DEF TypeOK, Declaration, Tagged, Known, Construct

Typed == /\ Tree(nodes) /\ currentPos \in DOMAIN nodes
         /\ declarationMap \in [Names -> Seq(Declaration(DOMAIN nodes))]
         /\ structMap \in [Tags -> Seq(Tagged(DOMAIN nodes))]
         /\ functionMap \in [Names -> Known \union {None}]
         /\ currentFunction \in Objects \union {None}
         /\ labelMap \subseteq Labels /\ gotoLabels \subseteq Labels
         /\ declarations \in 0 .. MaxDeclarations
         /\ loopDepth = Cardinality(Loops(open))
         /\ open \in Seq(Construct(DOMAIN nodes)) /\ refused \in BOOLEAN

(* ... and back. *)
LEMMA PartsType == Typed => TypeOK
  <1> SUFFICES ASSUME Typed PROVE TypeOK
    OBVIOUS
  <1>1. /\ nodes \in Seq(SemNode) /\ Len(nodes) \in NodeIndex
        /\ \A n \in DOMAIN nodes : n # Root => nodes[n].parent \in 1 .. n - 1
    BY DEF Tree, Typed
  <1>2. loopDepth = Cardinality({k \in DOMAIN open : open[k].kind = "loop"})
    BY DEF Loops, Typed
  <1> QED
    BY <1>1, <1>2 DEF TypeOK, Typed, Declaration, Tagged, Known, Construct, SemNode

(* What happens to the nodes: one gets a declaration, or is left, or a new *)
(* one is added.                                                           *)
Named(ns, p, name, object) == [ns EXCEPT ![p].decl[name] = object]

SameNodes(ns, ms)   == \A n \in DOMAIN ns : ms[n] = ns[n]
SameParents(ns, ms) == \A n \in DOMAIN ns : ms[n].parent = ns[n].parent
SameMarks(ns, ms)   == \A n \in DOMAIN ns : /\ ms[n].active = ns[n].active
                                           /\ ms[n].forward = ns[n].forward
                                           /\ ms[n].insideStruct = ns[n].insideStruct

(* A declaration changes neither the shape of the tree nor its marks. *)
LEMMA TreeNames ==
  ASSUME NEW ns, Tree(ns), NEW p \in DOMAIN ns, NEW name \in Names, NEW object \in Objects,
         NEW ms, ms = Named(ns, p, name, object)
  PROVE  /\ Tree(ms) /\ Len(ms) = Len(ns) /\ DOMAIN ms = DOMAIN ns
         /\ SameParents(ns, ms) /\ SameMarks(ns, ms)
  <1>1. ns \in Seq(SemNode) /\ Len(ns) \in NodeIndex
    BY DEF Tree
  <1>2. ns[p] \in SemNode
    BY <1>1
  <1> DEFINE x == [ns[p] EXCEPT !.decl[name] = object]
  <1>3. /\ x \in SemNode /\ x.parent = ns[p].parent /\ x.active = ns[p].active
        /\ x.forward = ns[p].forward /\ x.insideStruct = ns[p].insideStruct
        /\ x.decl = [ns[p].decl EXCEPT ![name] = object]
    BY <1>2 DEF SemNode
  <1>4. ms = [ns EXCEPT ![p] = x]
    BY DEF Named
  <1> HIDE DEF x
  <1>5. /\ ms \in Seq(SemNode) /\ Len(ms) = Len(ns) /\ DOMAIN ms = DOMAIN ns
        /\ \A n \in DOMAIN ns : ms[n] = IF n = p THEN x ELSE ns[n]
    BY <1>1, <1>3, <1>4, ExceptSeq
  <1>6. Tree(ms)
    BY <1>1, <1>3, <1>5 DEF Tree
  <1>7. SameParents(ns, ms) /\ SameMarks(ns, ms)
    BY <1>3, <1>5 DEF SameParents, SameMarks
  <1> QED
    BY <1>3, <1>5, <1>6, <1>7

(* Nor does leaving a scope, other than the mark. *)
LEMMA TreeLeaves ==
  ASSUME NEW ns, Tree(ns), NEW p \in DOMAIN ns, NEW ms,
         \/ ms = [ns EXCEPT ![p].active = FALSE]
         \/ ms = [ns EXCEPT ![p].forward = FALSE]
  PROVE  /\ Tree(ms) /\ Len(ms) = Len(ns) /\ DOMAIN ms = DOMAIN ns
         /\ SameParents(ns, ms)
         /\ \A n \in DOMAIN ns : /\ ms[n].decl = ns[n].decl
                                 /\ ms[n].insideStruct = ns[n].insideStruct
  <1>1. ns \in Seq(SemNode) /\ Len(ns) \in NodeIndex
    BY DEF Tree
  <1>2. ns[p] \in SemNode
    BY <1>1
  <1>3. PICK x \in SemNode : /\ ms = [ns EXCEPT ![p] = x] /\ x.parent = ns[p].parent
                             /\ x.decl = ns[p].decl /\ x.insideStruct = ns[p].insideStruct
    <2>1. CASE ms = [ns EXCEPT ![p].active = FALSE]
      <3> DEFINE x == [ns[p] EXCEPT !.active = FALSE]
      <3>1. /\ x \in SemNode /\ x.parent = ns[p].parent
            /\ x.decl = ns[p].decl /\ x.insideStruct = ns[p].insideStruct
        BY <1>2 DEF SemNode
      <3> QED
        BY <2>1, <3>1
    <2>2. CASE ms = [ns EXCEPT ![p].forward = FALSE]
      <3> DEFINE x == [ns[p] EXCEPT !.forward = FALSE]
      <3>1. /\ x \in SemNode /\ x.parent = ns[p].parent
            /\ x.decl = ns[p].decl /\ x.insideStruct = ns[p].insideStruct
        BY <1>2 DEF SemNode
      <3> QED
        BY <2>2, <3>1
    <2> QED
      BY <2>1, <2>2
  <1>4. /\ ms \in Seq(SemNode) /\ Len(ms) = Len(ns) /\ DOMAIN ms = DOMAIN ns
        /\ \A n \in DOMAIN ns : ms[n] = IF n = p THEN x ELSE ns[n]
    BY <1>1, <1>3
  <1>5. Tree(ms)
    BY <1>1, <1>3, <1>4 DEF Tree
  <1> QED
    BY <1>3, <1>4, <1>5 DEF SameParents

(* A new node leaves the others alone. *)
LEMMA TreeGrows ==
  ASSUME NEW ns, Tree(ns), Len(ns) < MaxNodes, NEW x \in SemNode,
         x.parent \in DOMAIN ns, NEW ms, ms = Append(ns, x)
  PROVE  /\ Tree(ms) /\ Len(ms) = Len(ns) + 1
         /\ DOMAIN ns = 1 .. Len(ns) /\ DOMAIN ms = 1 .. Len(ns) + 1
         /\ DOMAIN ns \subseteq DOMAIN ms
         /\ SameNodes(ns, ms) /\ SameParents(ns, ms) /\ ms[Len(ns) + 1] = x
  <1>1. /\ ns \in Seq(SemNode) /\ Len(ns) \in Nat /\ Len(ns) + 1 \in NodeIndex
    BY Bounds DEF Tree
  <1>2. /\ ms \in Seq(SemNode) /\ Len(ms) = Len(ns) + 1
        /\ DOMAIN ns = 1 .. Len(ns) /\ DOMAIN ms = 1 .. Len(ns) + 1
        /\ \A n \in DOMAIN ns : ms[n] = ns[n]
        /\ ms[Len(ns) + 1] = x
    BY <1>1
  <1>3. \A n \in DOMAIN ms : n # Root => ms[n].parent \in 1 .. n - 1
    <2>1. CASE \E n \in DOMAIN ms : n \notin DOMAIN ns
      BY <1>1, <1>2 DEF Tree
    <2> QED
      BY <1>1, <1>2, <2>1 DEF Tree
  <1> QED
    BY <1>1, <1>2, <1>3 DEF Tree, SameParents, SameNodes

(* The node that a scope starts with. *)
LEMMA NewNodeTyped ==
  ASSUME NEW p \in NodeIndex, NEW inside \in BOOLEAN, NEW forward \in BOOLEAN
  PROVE  /\ NewNode(p, inside, forward) \in SemNode
         /\ [NewNode(p, inside, forward) EXCEPT !.active = FALSE] \in SemNode
  BY DEF NewNode, SemNode

(* How a step moves the parser's position: not at all, into a construct or *)
(* out of one.                                                             *)
Stays == open' = open /\ currentPos' = currentPos
Enters(kind, node) ==
  /\ open' = <<[kind |-> kind, node |-> node]>> \o open /\ currentPos' = node
  /\ kind \in {"function", "block", "struct", "loop"} /\ node \in DOMAIN nodes'
  /\ IF kind = "loop" THEN node = currentPos ELSE nodes'[node].parent = currentPos
Leaves == /\ open # <<>> /\ open' = Tail(open) /\ currentPos' = Around(2)

(* No node loses its place. *)
Rooted == /\ Tree(nodes') /\ DOMAIN nodes \subseteq DOMAIN nodes'
          /\ SameParents(nodes, nodes')

(* The parser's position is in the node of the innermost construct. *)
LEMMA OpenFacts ==
  ASSUME TypeInv
  PROVE  /\ Len(open) \in Nat /\ DOMAIN open = 1 .. Len(open)
         /\ open \in Seq(Construct(DOMAIN nodes))
         /\ \A k \in Nat \ {0} : Around(k) \in DOMAIN nodes
         /\ open # <<>> =>
              /\ 1 \in DOMAIN open /\ open[1] = Head(open) /\ Head(open).node = currentPos
              /\ open = <<Head(open)>> \o Tail(open)
              /\ IF Head(open).kind = "loop" THEN currentPos = Around(2)
                 ELSE nodes[currentPos].parent = Around(2)
  <1>1. /\ open \in Seq(Construct(DOMAIN nodes)) /\ Len(nodes) \in NodeIndex
        /\ DOMAIN nodes = 1 .. Len(nodes)
    BY TypeParts DEF TypeInv, Tree
  <1>2. Len(open) \in Nat /\ DOMAIN open = 1 .. Len(open) /\ Root \in DOMAIN nodes
    BY <1>1, Bounds DEF Root
  <1>3. \A k \in DOMAIN open : open[k] \in Construct(DOMAIN nodes)
    BY <1>1
  <1>4. \A k \in Nat \ {0} : Around(k) \in DOMAIN nodes
    BY <1>2, <1>3 DEF Around, Construct
  <1>5. open # <<>> => /\ 1 \in DOMAIN open /\ open[1] = Head(open)
                       /\ open = <<Head(open)>> \o Tail(open)
    BY <1>1
  <1>6. open # <<>> => Head(open).node = currentPos
    BY <1>2, <1>5 DEF Around, TypeInv, Nested
  <1>7. open # <<>> => IF Head(open).kind = "loop" THEN currentPos = Around(2)
                       ELSE nodes[currentPos].parent = Around(2)
    <2>1. 1 + 1 = 2
      OBVIOUS
    <2> QED
      BY <1>5, <1>6, <2>1 DEF TypeInv, Nested
  <1> QED
    BY <1>1, <1>2, <1>4, <1>5, <1>6, <1>7

(* Entering and leaving keep the nesting of constructs and nodes the same. *)
LEMMA NestedStep ==
  ASSUME TypeInv, Rooted,
         \/ Stays
         \/ \E kind, node : Enters(kind, node)
         \/ Leaves
  PROVE  /\ Nested' /\ currentPos' \in DOMAIN nodes'
         /\ open' \in Seq(Construct(DOMAIN nodes'))
  <1>1. /\ Len(open) \in Nat /\ DOMAIN open = 1 .. Len(open)
        /\ open \in Seq(Construct(DOMAIN nodes))
        /\ \A k \in Nat \ {0} : Around(k) \in DOMAIN nodes
        /\ currentPos \in DOMAIN nodes
    BY OpenFacts, TypeParts DEF TypeInv
  <1>2. open \in Seq(Construct(DOMAIN nodes'))
    BY <1>1, Widen DEF Rooted
  <1>3. \A k \in DOMAIN open : open[k].node \in DOMAIN nodes
    <2>1. \A k \in DOMAIN open : open[k] \in Construct(DOMAIN nodes)
      BY <1>1
    <2> QED
      BY <2>1 DEF Construct
  <1>4. Nested
    BY DEF TypeInv
  <1>5. CASE Stays
    <2>1. \A k : Around(k)' = Around(k)
      BY <1>5 DEF Stays, Around
    <2> QED
      BY <1>1, <1>2, <1>3, <1>4, <1>5, <2>1 DEF Stays, Nested, Rooted, SameParents
  <1>6. ASSUME NEW kind, NEW node, Enters(kind, node)
        PROVE  /\ Nested' /\ currentPos' \in DOMAIN nodes'
               /\ open' \in Seq(Construct(DOMAIN nodes'))
    <2> DEFINE o == [kind |-> kind, node |-> node]
    <2>1. o \in Construct(DOMAIN nodes') /\ o.kind = kind /\ o.node = node
      BY <1>6 DEF Enters, Construct
    <2>2. open' = <<o>> \o open
      BY <1>6 DEF Enters
    <2> HIDE DEF o
    <2>3. /\ open' \in Seq(Construct(DOMAIN nodes')) /\ Len(open') = Len(open) + 1
          /\ DOMAIN open' = 1 .. Len(open) + 1 /\ open'[1] = o
          /\ \A k \in 2 .. Len(open) + 1 : open'[k] = open[k - 1]
      BY <1>2, <2>1, <2>2, PushIs DEF Push
    <2>4. Around(1)' = node /\ \A k \in 1 .. Len(open) + 1 : Around(k + 1)' = Around(k)
      <3>1. 1 <= Len(open) + 1
        BY <1>1
      <3>2. Around(1)' = node
        BY <2>1, <2>3, <3>1 DEF Around
      <3>3. ASSUME NEW k \in 1 .. Len(open) + 1 PROVE Around(k + 1)' = Around(k)
        <4>1. Around(k + 1)' = IF k + 1 <= Len(open) + 1 THEN open'[k + 1].node ELSE Root
          BY <2>3 DEF Around
        <4>2. (k + 1 <= Len(open) + 1 <=> k <= Len(open)) /\ (k + 1) - 1 = k
          BY <1>1
        <4>3. k <= Len(open) => open'[k + 1] = open[k]
          BY <1>1, <2>3, <4>2
        <4> QED
          BY <4>1, <4>2, <4>3 DEF Around
      <3> QED
        BY <3>2, <3>3
    <2>5. currentPos' = Around(1)' /\ currentPos' \in DOMAIN nodes'
      BY <1>6, <2>4 DEF Enters
    <2>6. ASSUME NEW k \in DOMAIN open'
          PROVE  IF open'[k].kind = "loop" THEN open'[k].node = Around(k + 1)'
                 ELSE nodes'[open'[k].node].parent = Around(k + 1)'
      <3>1. CASE k = 1
        <4>1. Around(1 + 1)' = currentPos
          BY <1>1, <1>4, <2>4 DEF Nested
        <4> QED
          BY <1>6, <2>1, <2>3, <3>1, <4>1 DEF Enters
      <3>2. CASE k # 1
        <4>1. /\ k - 1 \in DOMAIN open /\ open'[k] = open[k - 1]
              /\ k \in 1 .. Len(open) + 1 /\ (k - 1) + 1 = k
          BY <1>1, <2>3, <3>2
        <4>2. Around(k + 1)' = Around((k - 1) + 1)
          BY <2>4, <4>1
        <4> QED
          BY <1>3, <1>4, <4>1, <4>2 DEF Nested, Rooted, SameParents
      <3> QED
        BY <3>1, <3>2
    <2> QED
      BY <2>3, <2>5, <2>6 DEF Nested
  <1>7. CASE Leaves
    <2>1. /\ open # <<>> /\ open' = Tail(open) /\ currentPos' = Around(2)
          /\ open' \in Seq(Construct(DOMAIN nodes'))
          /\ Len(open') = Len(open) - 1 /\ DOMAIN open' = 1 .. Len(open) - 1
          /\ \A k \in 1 .. Len(open) - 1 : open'[k] = open[k + 1]
      BY <1>2, <1>7 DEF Leaves
    <2>2. Len(open) >= 1
      BY <1>1, <2>1
    <2>3. \A k \in 1 .. Len(open) : Around(k)' = Around(k + 1)
      <3>1. ASSUME NEW k \in 1 .. Len(open) PROVE Around(k)' = Around(k + 1)
        <4>1. Around(k)' = IF k <= Len(open) - 1 THEN open'[k].node ELSE Root
          BY <2>1 DEF Around
        <4>2. (k <= Len(open) - 1 <=> k + 1 <= Len(open))
          BY <1>1
        <4>3. k <= Len(open) - 1 => open'[k] = open[k + 1]
          BY <1>1, <2>1
        <4> QED
          BY <4>1, <4>2, <4>3 DEF Around
      <3> QED
        BY <3>1
    <2>4. currentPos' = Around(1)' /\ currentPos' \in DOMAIN nodes'
      <3>1. 1 \in 1 .. Len(open) /\ 1 + 1 = 2 /\ 2 \in Nat \ {0}
        BY <1>1, <2>2
      <3>2. Around(1)' = Around(2)
        BY <2>3, <3>1
      <3> QED
        BY <1>1, <2>1, <3>1, <3>2 DEF Rooted
    <2>5. ASSUME NEW k \in DOMAIN open'
          PROVE  IF open'[k].kind = "loop" THEN open'[k].node = Around(k + 1)'
                 ELSE nodes'[open'[k].node].parent = Around(k + 1)'
      <3>1. /\ k + 1 \in DOMAIN open /\ open'[k] = open[k + 1]
            /\ k + 1 \in 1 .. Len(open)
        BY <1>1, <2>1
      <3>2. Around(k + 1)' = Around((k + 1) + 1)
        BY <2>3, <3>1
      <3> QED
        BY <1>3, <1>4, <3>1, <3>2 DEF Nested, Rooted, SameParents
    <2> QED
      BY <2>1, <2>4, <2>5 DEF Nested
  <1> QED
    BY <1>5, <1>6, <1>7

MapsTyped == /\ declarationMap \in [Names -> Seq(Declaration(DOMAIN nodes))]
             /\ structMap \in [Tags -> Seq(Tagged(DOMAIN nodes))]
             /\ functionMap \in [Names -> Known \union {None}]

(* The maps keep their types when nodes are added ... *)
LEMMA MapsWiden ==
  ASSUME TypeInv, DOMAIN nodes \subseteq DOMAIN nodes'
  PROVE  /\ declarationMap \in [Names -> Seq(Declaration(DOMAIN nodes'))]
         /\ structMap \in [Tags -> Seq(Tagged(DOMAIN nodes'))]
  <1>1. /\ declarationMap \in [Names -> Seq(Declaration(DOMAIN nodes))]
        /\ structMap \in [Tags -> Seq(Tagged(DOMAIN nodes))]
    BY TypeParts DEF TypeInv
  <1>2. /\ \A s : s \in Seq(Declaration(DOMAIN nodes)) => s \in Seq(Declaration(DOMAIN nodes'))
        /\ \A s : s \in Seq(Tagged(DOMAIN nodes)) => s \in Seq(Tagged(DOMAIN nodes'))
    BY Widen
  <1> QED
    BY <1>1, <1>2

(* ... and of course when they stay. *)
LEMMA MapsStay ==
  ASSUME TypeInv, Rooted, UNCHANGED maps
  PROVE  MapsTyped'
  BY MapsWiden, TypeParts DEF Rooted, MapsTyped, maps, TypeInv

(* What is left of a stack when the entries of closed scopes above are     *)
(* dropped.                                                                *)
LEMMA DeclaredIs ==
  ASSUME TypeInv, NEW name \in Names
  PROVE  /\ declarationMap[name] \in Seq(Declaration(DOMAIN nodes))
         /\ Declared(name) \in Seq(Declaration(DOMAIN nodes))
         /\ \E m : /\ Without(declarationMap[name], m, Declared(name))
                   /\ \A i \in 1 .. m : ~Active(declarationMap[name][i].pos)
                   /\ Declared(name) # <<>> => Active(Declared(name)[1].pos)
  <1> DEFINE s == declarationMap[name]
             live == {e \in {s[k] : k \in DOMAIN s} : Active(e.pos)}
  <1>1. s \in Seq(Declaration(DOMAIN nodes)) /\ DOMAIN s = 1 .. Len(s) /\ Len(s) \in Nat
    BY TypeParts DEF TypeInv
  <1>2. Declared(name) = Remaining(s, live)
    BY DEF Declared
  <1>3. \A i \in DOMAIN s : s[i] \in live <=> Active(s[i].pos)
    OBVIOUS
  <1> DEFINE t == Remaining(s, live)
  <1> HIDE DEF s, live, t
  <1>4. t \in Seq(Declaration(DOMAIN nodes))
    BY <1>1, RemainingIs DEF t
  <1>5. PICK m : /\ Without(s, m, t) /\ \A i \in 1 .. m : s[i] \notin live
                 /\ t # <<>> => s[m + 1] \in live
    BY <1>1, RemainingIs DEF t
  <1>6. m \in 0 .. Len(s) /\ Len(t) = Len(s) - m /\ \A i \in 1 .. Len(t) : t[i] = s[i + m]
    BY <1>5 DEF Without
  <1>7. \A i \in 1 .. m : ~Active(s[i].pos)
    BY <1>1, <1>3, <1>5, <1>6
  <1>8. t # <<>> => Active(t[1].pos)
    <2>1. ASSUME t # <<>> PROVE m + 1 \in DOMAIN s /\ t[1] = s[m + 1]
      <3>1. 1 \in 1 .. Len(t) /\ Len(t) \in Nat
        BY <1>4, <2>1
      <3>2. t[1] = s[1 + m] /\ m \in Nat
        BY <1>1, <1>6, <3>1
      <3> QED
        BY <1>1, <1>6, <3>1, <3>2
    <2> QED
      BY <1>3, <1>5, <2>1
  <1> QED
    BY <1>1, <1>2, <1>4, <1>5, <1>7, <1>8 DEF s, t

(* What is left of the stack of a tag. *)
LEMMA StructsIs ==
  ASSUME TypeInv, NEW tag \in Tags
  PROVE  /\ structMap[tag] \in Seq(Tagged(DOMAIN nodes))
         /\ Structs(tag) \in Seq(Tagged(DOMAIN nodes))
         /\ \E m : /\ Without(structMap[tag], m, Structs(tag))
                   /\ \A i \in 1 .. m : ~Active(nodes[structMap[tag][i].node].parent)
                   /\ Structs(tag) # <<>> => Active(nodes[Structs(tag)[1].node].parent)
  <1> DEFINE s == structMap[tag]
             live == {e \in {s[k] : k \in DOMAIN s} : Active(nodes[e.node].parent)}
  <1>1. s \in Seq(Tagged(DOMAIN nodes)) /\ DOMAIN s = 1 .. Len(s) /\ Len(s) \in Nat
    BY TypeParts DEF TypeInv
  <1>2. Structs(tag) = Remaining(s, live)
    BY DEF Structs
  <1>3. \A i \in DOMAIN s : s[i] \in live <=> Active(nodes[s[i].node].parent)
    OBVIOUS
  <1> DEFINE t == Remaining(s, live)
  <1> HIDE DEF s, live, t
  <1>4. t \in Seq(Tagged(DOMAIN nodes))
    BY <1>1, RemainingIs DEF t
  <1>5. PICK m : /\ Without(s, m, t) /\ \A i \in 1 .. m : s[i] \notin live
                 /\ t # <<>> => s[m + 1] \in live
    BY <1>1, RemainingIs DEF t
  <1>6. m \in 0 .. Len(s) /\ Len(t) = Len(s) - m /\ \A i \in 1 .. Len(t) : t[i] = s[i + m]
    BY <1>5 DEF Without
  <1>7. \A i \in 1 .. m : ~Active(nodes[s[i].node].parent)
    BY <1>1, <1>3, <1>5, <1>6
  <1>8. t # <<>> => Active(nodes[t[1].node].parent)
    <2>1. ASSUME t # <<>> PROVE m + 1 \in DOMAIN s /\ t[1] = s[m + 1]
      <3>1. 1 \in 1 .. Len(t) /\ Len(t) \in Nat
        BY <1>4, <2>1
      <3>2. t[1] = s[1 + m] /\ m \in Nat
        BY <1>1, <1>6, <3>1
      <3> QED
        BY <1>1, <1>6, <3>1, <3>2
    <2> QED
      BY <1>3, <1>5, <2>1
  <1> QED
    BY <1>1, <1>2, <1>4, <1>5, <1>7, <1>8 DEF s, t

(* The declaration that is found is one of the stack, of an open scope. *)
LEMMA DeclaredTop ==
  ASSUME TypeInv, NEW name \in Names, Declared(name) # <<>>
  PROVE  /\ Top(Declared(name)) \in Declaration(DOMAIN nodes)
         /\ Top(Declared(name)).pos \in DOMAIN nodes /\ Top(Declared(name)).decl \in Objects
         /\ Active(Top(Declared(name)).pos)
         /\ \E k \in DOMAIN declarationMap[name] : declarationMap[name][k] = Top(Declared(name))
  <1> DEFINE s == declarationMap[name]
             t == Declared(name)
  <1>1. s \in Seq(Declaration(DOMAIN nodes)) /\ t \in Seq(Declaration(DOMAIN nodes))
    BY DeclaredIs
  <1>2. PICK m : Without(s, m, t) /\ (t # <<>> => Active(t[1].pos))
    BY DeclaredIs
  <1> HIDE DEF s, t
  <1>3. t # <<>>
    BY DEF t
  <1>4. 1 \in 1 .. Len(t) /\ t[1] \in Declaration(DOMAIN nodes)
    BY <1>1, <1>3
  <1>5. t[1] = s[1 + m] /\ 1 + m \in DOMAIN s
    BY <1>1, <1>2, <1>4 DEF Without
  <1> QED
    BY <1>2, <1>3, <1>4, <1>5 DEF Top, Declaration, s, t

(* So is the struct that is found. *)
LEMMA StructsTop ==
  ASSUME TypeInv, NEW tag \in Tags, Structs(tag) # <<>>
  PROVE  /\ Top(Structs(tag)) \in Tagged(DOMAIN nodes)
         /\ Top(Structs(tag)).node \in DOMAIN nodes
         /\ Active(nodes[Top(Structs(tag)).node].parent)
  <1> DEFINE t == Structs(tag)
  <1>1. t \in Seq(Tagged(DOMAIN nodes)) /\ (t # <<>> => Active(nodes[t[1].node].parent))
    BY StructsIs
  <1> HIDE DEF t
  <1>2. t # <<>>
    BY DEF t
  <1>3. t[1] \in Tagged(DOMAIN nodes)
    BY <1>1, <1>2
  <1> QED
    BY <1>1, <1>2, <1>3 DEF Top, Tagged, t

(* A new object has the number of the next declaration. *)
LEMMA ObjectTyped ==
  ASSUME TypeInv, declarations < MaxDeclarations, NEW type \in Types
  PROVE  Object(type) \in Objects /\ Object(type).type = type
  <1>1. declarations + 1 \in 1 .. MaxDeclarations
    BY TypeParts, Bounds DEF TypeInv
  <1> QED
    BY <1>1 DEF Object, Objects

(* An object is bound again only to a name that has it in this scope.      *)
LEMMA ScopeObjectIs ==
  ASSUME TypeInv, NEW name \in Names, NEW object \in Objects,
         ScopeObject(name, object) # None
  PROVE  /\ ScopeObject(name, object) \in Objects
         /\ ScopeObject(name, object).type = object.type
         /\ IF Declared(name) # <<>> /\ Top(Declared(name)).pos = currentPos
              THEN ScopeObject(name, object) = Top(Declared(name)).decl
              ELSE ScopeObject(name, object) = object
  <1>1. CASE Declared(name) = <<>>
    BY <1>1 DEF ScopeObject
  <1>2. CASE Declared(name) # <<>> /\ Top(Declared(name)).pos # currentPos
    BY <1>2 DEF ScopeObject
  <1>3. CASE Declared(name) # <<>> /\ Top(Declared(name)).pos = currentPos
    BY <1>3, DeclaredTop DEF ScopeObject
  <1> QED
    BY <1>1, <1>2, <1>3

(* addDeclaration finds the object of a function that is known. *)
LEMMA FunctionObjectIs ==
  ASSUME TypeInv, NEW name \in Names, NEW type \in Types, NEW isForward \in BOOLEAN,
         declarations < MaxDeclarations, FunctionObject(name, type, isForward) # None
  PROVE  /\ FunctionObject(name, type, isForward) \in Objects
         /\ FunctionObject(name, type, isForward).type = type
         /\ functionMap[name] # None =>
              FunctionObject(name, type, isForward) = functionMap[name].decl
  <1>1. functionMap[name] \in Known \union {None}
    BY TypeParts DEF TypeInv
  <1>2. CASE functionMap[name] = None
    BY <1>2, ObjectTyped DEF FunctionObject
  <1>3. CASE functionMap[name] # None
    BY <1>1, <1>3 DEF FunctionObject, Known
  <1> QED
    BY <1>2, <1>3

Moves ==
  \/ Stays /\ loopDepth' = loopDepth
  \/ \E kind, node : /\ Enters(kind, node)
                     /\ loopDepth' = loopDepth + (IF kind = "loop" THEN 1 ELSE 0)
  \/ Leaves /\ loopDepth' = loopDepth - (IF Head(open).kind = "loop" THEN 1 ELSE 0)

(* A step that moves the position in one of the three ways keeps the types *)
(* if the maps do.                                                         *)
LEMMA StepTyped ==
  ASSUME TypeInv, Rooted, Moves, MapsTyped', currentFunction' \in Objects \union {None},
         labelMap' \subseteq Labels, gotoLabels' \subseteq Labels,
         declarations' \in 0 .. MaxDeclarations, refused' \in BOOLEAN
  PROVE  TypeInv'
  <1>1. /\ Nested' /\ currentPos' \in DOMAIN nodes'
        /\ open' \in Seq(Construct(DOMAIN nodes'))
    BY NestedStep DEF Moves
  <1>2. /\ open \in Seq(Construct(DOMAIN nodes')) /\ loopDepth = Cardinality(Loops(open))
    BY TypeParts, Widen DEF TypeInv, Rooted
  <1>3. loopDepth' = Cardinality(Loops(open'))
    <2>1. CASE Stays /\ loopDepth' = loopDepth
      BY <1>2, <2>1 DEF Stays
    <2>2. ASSUME NEW kind, NEW node, Enters(kind, node),
                 loopDepth' = loopDepth + (IF kind = "loop" THEN 1 ELSE 0)
          PROVE  loopDepth' = Cardinality(Loops(open'))
      <3> DEFINE o == [kind |-> kind, node |-> node]
      <3>1. o \in Construct(DOMAIN nodes') /\ o.kind = kind /\ open' = <<o>> \o open
        BY <2>2 DEF Enters, Construct
      <3> HIDE DEF o
      <3>2. Cardinality(Loops(<<o>> \o open)) =
              Cardinality(Loops(open)) + (IF o.kind = "loop" THEN 1 ELSE 0)
        BY <1>2, <3>1, LoopsPush
      <3> QED
        BY <1>2, <2>2, <3>1, <3>2
    <2>3. CASE Leaves /\ loopDepth' = loopDepth - (IF Head(open).kind = "loop" THEN 1 ELSE 0)
      <3> DEFINE o == Head(open)
                 rest == Tail(open)
      <3>1. /\ o \in Construct(DOMAIN nodes') /\ rest \in Seq(Construct(DOMAIN nodes'))
            /\ open = <<o>> \o rest /\ open' = rest
        BY <1>2, <2>3 DEF Leaves
      <3>2. loopDepth' = loopDepth - (IF o.kind = "loop" THEN 1 ELSE 0)
        BY <2>3
      <3> HIDE DEF o, rest
      <3>3. /\ Cardinality(Loops(<<o>> \o rest)) =
                 Cardinality(Loops(rest)) + (IF o.kind = "loop" THEN 1 ELSE 0)
            /\ Cardinality(Loops(rest)) \in Nat
        BY <3>1, LoopsPush
      <3>4. loopDepth = Cardinality(Loops(rest)) + (IF o.kind = "loop" THEN 1 ELSE 0)
        BY <1>2, <3>1, <3>3
      <3>5. loopDepth' = Cardinality(Loops(rest))
        BY <3>2, <3>3, <3>4
      <3> QED
        BY <3>1, <3>5
    <2> QED
      BY <2>1, <2>2, <2>3 DEF Moves
  <1>4. Tree(nodes')
    BY DEF Rooted
  <1>5. Typed'
    BY <1>1, <1>3, <1>4 DEF MapsTyped, Typed
  <1>6. TypeOK'
    BY <1>5, PartsType, PTL
  <1> QED
    BY <1>1, <1>6 DEF TypeInv

(* No change of the nodes keeps their places. *)
LEMMA NodesStay == ASSUME TypeInv, UNCHANGED nodes PROVE Rooted
  BY TypeParts DEF TypeInv, Rooted, SameParents

(* The variables about which there is little to say. *)
LEMMA OthersTyped ==
  ASSUME TypeInv
  PROVE  /\ currentFunction \in Objects \union {None} /\ labelMap \subseteq Labels
         /\ gotoLabels \subseteq Labels /\ declarations \in 0 .. MaxDeclarations
         /\ refused \in BOOLEAN
  BY DEF TypeInv, TypeOK

(* An exception changes nothing else. *)
LEMMA RefuseTyped == ASSUME TypeInv, Refuse PROVE TypeInv'
  <1>1. Rooted /\ Moves
    BY NodesStay DEF Refuse, tree, Moves, Stays
  <1>2. MapsTyped'
    BY <1>1, MapsStay DEF Refuse
  <1> QED
    BY <1>1, <1>2, StepTyped, OthersTyped DEF Refuse, labels

(* A name gets an object in the current scope. *)
LEMMA BindTyped ==
  ASSUME TypeInv, NEW name \in Names, NEW object \in Objects, NEW all,
         Tree(all), DOMAIN nodes \subseteq DOMAIN all,
         SameParents(nodes, all),
         BindName(name, object, all)
  PROVE  /\ Rooted
         /\ declarationMap' \in [Names -> Seq(Declaration(DOMAIN nodes'))]
  <1>1. currentPos \in DOMAIN nodes
    BY TypeParts DEF TypeInv
  <1>2. nodes' = [all EXCEPT ![currentPos].decl[name] = object]
    BY DEF BindName
  <1>3. /\ Tree(nodes') /\ DOMAIN nodes' = DOMAIN all
        /\ SameParents(all, nodes')
    <2> DEFINE ms == nodes'
    <2>1. ms = Named(all, currentPos, name, object) /\ currentPos \in DOMAIN all
      BY <1>1, <1>2 DEF Named
    <2> HIDE DEF ms
    <2>2. /\ Tree(ms) /\ DOMAIN ms = DOMAIN all
          /\ SameParents(all, ms)
      BY <2>1, TreeNames
    <2> QED
      BY <2>2 DEF ms
  <1>4. Rooted
    BY <1>3 DEF Rooted, SameParents
  <1> DEFINE e == [pos |-> currentPos, decl |-> object]
             D == Declaration(DOMAIN nodes')
  <1>5. e \in D /\ Declared(name) \in Seq(D) /\ declarationMap \in [Names -> Seq(D)]
    BY <1>1, <1>4, DeclaredIs, Widen, MapsWiden DEF Declaration, Rooted
  <1>6. declarationMap' = [declarationMap EXCEPT ![name] = Push(e, Declared(name))]
    BY DEF BindName
  <1> HIDE DEF e, D
  <1>7. Push(e, Declared(name)) \in Seq(D)
    BY <1>5, PushIs
  <1>8. declarationMap' \in [Names -> Seq(D)]
    BY <1>5, <1>6, <1>7
  <1> QED
    BY <1>4, <1>8 DEF D

(* functionMap gets an object of the name. *)
LEMMA EnterTyped ==
  ASSUME TypeInv, NEW name \in Names, NEW object \in Objects, NEW isForward \in BOOLEAN,
         EnterFunction(name, object, isForward)
  PROVE  functionMap' \in [Names -> Known \union {None}]
  <1>1. functionMap \in [Names -> Known \union {None}]
    BY TypeParts DEF TypeInv
  <1>2. [decl |-> object, forward |-> isForward] \in Known
    BY DEF Known
  <1> QED
    BY <1>1, <1>2 DEF EnterFunction

(* Declarations stay within the bound. *)
LEMMA Declares_Typed == ASSUME TypeInv, Declares PROVE declarations' \in 0 .. MaxDeclarations
  BY TypeParts, Bounds DEF TypeInv, Declares

-----------------------------------------------------------------------------
(* Every action keeps the types.                                           *)

(* A variable of type int. *)
LEMMA DeclareIntTyped ==
  ASSUME TypeInv, NEW name \in Names, DeclareInt(name)
  PROVE  TypeInv'
  <1> DEFINE object == ScopeObject(name, Object(IntType))
  <1>1. CASE Refuse
    BY <1>1, RefuseTyped
  <1>2. CASE ~Refuse
    <2>1. /\ object # None /\ BindName(name, object, nodes) /\ Declares
          /\ declarations < MaxDeclarations
          /\ UNCHANGED <<currentPos, structMap, functionMap, currentFunction,
                         labels, loopDepth, open, refused>>
      BY <1>2 DEF DeclareInt
    <2>2. Object(IntType) \in Objects
      BY <2>1, ObjectTyped DEF Types
    <2>3. object \in Objects
      BY <2>1, <2>2, ScopeObjectIs
    <2> HIDE DEF object
    <2>4. Tree(nodes) /\ SameParents(nodes, nodes)
      BY TypeParts DEF TypeInv, SameParents
    <2>5. /\ Rooted
          /\ declarationMap' \in [Names -> Seq(Declaration(DOMAIN nodes'))]
      BY <2>1, <2>3, <2>4, BindTyped
    <2>6. MapsTyped'
      BY <2>1, <2>5, MapsWiden, TypeParts DEF MapsTyped, TypeInv, Rooted
    <2>7. Moves /\ declarations' \in 0 .. MaxDeclarations
      BY <2>1, Declares_Typed DEF Moves, Stays
    <2> QED
      BY <2>1, <2>5, <2>6, <2>7, StepTyped, OthersTyped DEF labels
  <1> QED
    BY <1>1, <1>2

(* The node that a struct's tag stands for, and the nodes with it. *)
ForwardNode == [NewNode(currentPos, TRUE, TRUE) EXCEPT !.active = FALSE]
StackFor(tag) == IF Structs(tag) = <<>> THEN <<[node |-> Len(nodes) + 1, forward |-> TRUE]>>
                 ELSE Structs(tag)
NodesFor(tag) == IF Structs(tag) = <<>> THEN Append(nodes, ForwardNode) ELSE nodes
NodeFor(tag)  == Top(StackFor(tag)).node

(* A tag that is not found gets a new node, that is not entered. *)
LEMMA NodesForTyped ==
  ASSUME TypeInv, NEW tag \in Tags, Len(NodesFor(tag)) <= MaxNodes
  PROVE  /\ Tree(NodesFor(tag)) /\ DOMAIN nodes \subseteq DOMAIN NodesFor(tag)
         /\ SameParents(nodes, NodesFor(tag))
         /\ NodeFor(tag) \in DOMAIN NodesFor(tag)
         /\ StackFor(tag) \in Seq(Tagged(DOMAIN NodesFor(tag)))
         /\ SameNodes(nodes, NodesFor(tag))
         /\ Structs(tag) = <<>> => /\ NodeFor(tag) = Len(nodes) + 1
                                   /\ DOMAIN NodesFor(tag) = 1 .. Len(nodes) + 1
                                   /\ NodesFor(tag)[Len(nodes) + 1] = ForwardNode
         /\ Structs(tag) # <<>> => NodesFor(tag) = nodes
  <1>1. /\ Tree(nodes) /\ DOMAIN nodes = 1 .. Len(nodes) /\ Len(nodes) \in Nat
        /\ currentPos \in DOMAIN nodes /\ currentPos \in NodeIndex
    BY TypeParts, Bounds DEF TypeInv, Tree
  <1>2. CASE Structs(tag) # <<>>
    <2>1. NodesFor(tag) = nodes /\ StackFor(tag) = Structs(tag)
      BY <1>2 DEF NodesFor, StackFor
    <2>2. NodeFor(tag) \in DOMAIN nodes
      BY <1>2, <2>1, StructsTop DEF NodeFor
    <2> QED
      BY <1>1, <1>2, <2>1, <2>2, StructsIs DEF SameParents, SameNodes
  <1>3. CASE Structs(tag) = <<>>
    <2> DEFINE ms == NodesFor(tag)
               e == [node |-> Len(nodes) + 1, forward |-> TRUE]
    <2>1. ms = Append(nodes, ForwardNode) /\ StackFor(tag) = <<e>>
      BY <1>3 DEF NodesFor, StackFor
    <2>2. ForwardNode \in SemNode /\ ForwardNode.parent = currentPos
      BY <1>1, NewNodeTyped DEF ForwardNode, NewNode
    <2>3. Len(nodes) < MaxNodes
      <3>1. nodes \in Seq(SemNode)
        BY <1>1 DEF Tree
      <3>2. Len(ms) = Len(nodes) + 1
        BY <2>1, <2>2, <3>1
      <3> QED
        BY <1>1, <3>2, Bounds
    <2> HIDE DEF ms
    <2>4. /\ Tree(ms) /\ DOMAIN ms = 1 .. Len(nodes) + 1 /\ DOMAIN nodes \subseteq DOMAIN ms
          /\ SameNodes(nodes, ms) /\ SameParents(nodes, ms) /\ ms[Len(nodes) + 1] = ForwardNode
      BY <1>1, <2>1, <2>2, <2>3, TreeGrows
    <2>5. /\ NodeFor(tag) = Len(nodes) + 1 /\ Len(nodes) + 1 \in DOMAIN ms
          /\ e \in Tagged(DOMAIN ms)
      BY <1>1, <2>1, <2>4 DEF NodeFor, Top, Tagged
    <2>6. <<e>> \in Seq(Tagged(DOMAIN ms))
      BY <2>5
    <2> QED
      BY <1>3, <2>1, <2>4, <2>5, <2>6 DEF ms
  <1> QED
    BY <1>2, <1>3

(* The action DeclareStruct in these terms. *)
LEMMA DeclareStructIs ==
  ASSUME NEW kind, NEW name, NEW tag, DeclareStruct(kind, name, tag), ~Refuse,
         NEW object, object = ScopeObject(name, Object(StructType(kind, NodeFor(tag))))
  PROVE  /\ declarations < MaxDeclarations /\ Len(NodesFor(tag)) <= MaxNodes
         /\ Active(NodesFor(tag)[NodeFor(tag)].parent) /\ object # None
         /\ kind = "struct" => ~Incomplete(NodesFor(tag)[NodeFor(tag)])
         /\ structMap' = [structMap EXCEPT ![tag] = StackFor(tag)]
         /\ BindName(name, object, NodesFor(tag)) /\ Declares
         /\ UNCHANGED <<currentPos, functionMap, currentFunction, labels,
                        loopDepth, open, refused>>
  BY DEF DeclareStruct, NodeFor, NodesFor, StackFor, ForwardNode

(* A variable of struct type, or a pointer to one. *)
LEMMA DeclareStructTyped ==
  ASSUME TypeInv, NEW kind \in {"struct", "pointer"}, NEW name \in Names, NEW tag \in Tags,
         DeclareStruct(kind, name, tag)
  PROVE  TypeInv'
  <1> DEFINE type == StructType(kind, NodeFor(tag))
             object == ScopeObject(name, Object(type))
  <1>1. CASE Refuse
    BY <1>1, RefuseTyped
  <1>2. CASE ~Refuse
    <2>1. /\ declarations < MaxDeclarations /\ Len(NodesFor(tag)) <= MaxNodes
          /\ object # None
          /\ structMap' = [structMap EXCEPT ![tag] = StackFor(tag)]
          /\ BindName(name, object, NodesFor(tag)) /\ Declares
          /\ UNCHANGED <<currentPos, functionMap, currentFunction, labels,
                         loopDepth, open, refused>>
      BY <1>2, DeclareStructIs
    <2>2. /\ Tree(NodesFor(tag)) /\ DOMAIN nodes \subseteq DOMAIN NodesFor(tag)
          /\ SameParents(nodes, NodesFor(tag))
          /\ NodeFor(tag) \in DOMAIN NodesFor(tag)
          /\ StackFor(tag) \in Seq(Tagged(DOMAIN NodesFor(tag)))
      BY <2>1, NodesForTyped
    <2>3. type \in Types
      <3>1. NodeFor(tag) \in NodeIndex
        <4>1. Len(NodesFor(tag)) \in Nat /\ DOMAIN NodesFor(tag) = 1 .. Len(NodesFor(tag))
          BY <2>2 DEF Tree, SemNode
        <4> QED
          BY <2>1, <2>2, <4>1, Bounds
      <3> QED
        BY <3>1 DEF Types
    <2>4. Object(type) \in Objects
      BY <2>1, <2>3, ObjectTyped
    <2>5. object \in Objects
      BY <2>1, <2>4, ScopeObjectIs
    <2> HIDE DEF object
    <2>6. /\ Rooted
          /\ declarationMap' \in [Names -> Seq(Declaration(DOMAIN nodes'))]
      BY <2>1, <2>2, <2>5, BindTyped
    <2>7. MapsTyped'
      <3>1. DOMAIN nodes' = DOMAIN NodesFor(tag)
        BY <2>1 DEF BindName
      <3>2. StackFor(tag) \in Seq(Tagged(DOMAIN nodes'))
        BY <2>2, <3>1
      <3>3. structMap \in [Tags -> Seq(Tagged(DOMAIN nodes'))]
        BY <2>6, MapsWiden DEF Rooted
      <3>4. structMap' \in [Tags -> Seq(Tagged(DOMAIN nodes'))]
        BY <2>1, <3>2, <3>3
      <3> QED
        BY <2>1, <2>6, <3>4, TypeParts DEF MapsTyped, TypeInv
    <2>8. Moves /\ declarations' \in 0 .. MaxDeclarations
      BY <2>1, Declares_Typed DEF Moves, Stays
    <2> QED
      BY <2>1, <2>6, <2>7, <2>8, StepTyped, OthersTyped DEF labels
  <1> QED
    BY <1>1, <1>2

(* What a prototype does, unless it is refused. *)
LEMMA DeclareFunctionIs ==
  ASSUME NEW name, NEW signature, DeclareFunction(name, signature), ~Refuse,
         NEW first, first = FunctionObject(name, FunctionType(signature), TRUE),
         NEW object, object = ScopeObject(name, first), TypeInv, name \in Names,
         signature \in Signatures
  PROVE  /\ declarations < MaxDeclarations /\ first # None /\ object # None
         /\ first \in Objects /\ object \in Objects
         /\ EnterFunction(name, first, TRUE) /\ BindName(name, object, nodes) /\ Declares
         /\ UNCHANGED <<currentPos, structMap, currentFunction, labels,
                        loopDepth, open, refused>>
  <1>1. /\ declarations < MaxDeclarations
        /\ (IF first = None THEN None ELSE object) # None
        /\ EnterFunction(name, first, TRUE) /\ Declares
        /\ BindName(name, IF first = None THEN None ELSE object, nodes)
        /\ UNCHANGED <<currentPos, structMap, currentFunction, labels,
                       loopDepth, open, refused>>
    BY DEF DeclareFunction
  <1>2. first # None /\ object # None
    BY <1>1
  <1>3. first \in Objects
    <2> DEFINE isForward == TRUE
               type == FunctionType(signature)
    <2>1. type \in Types /\ isForward \in BOOLEAN
      BY DEF Types
    <2>2. first = FunctionObject(name, type, isForward)
      OBVIOUS
    <2> HIDE DEF isForward, type
    <2> QED
      BY <1>1, <1>2, <2>1, <2>2, FunctionObjectIs
  <1>4. object \in Objects
    BY <1>2, <1>3, ScopeObjectIs
  <1> QED
    BY <1>1, <1>2, <1>3, <1>4

(* A prototype. *)
LEMMA DeclareFunctionTyped ==
  ASSUME TypeInv, NEW name \in Names, NEW signature \in Signatures,
         DeclareFunction(name, signature)
  PROVE  TypeInv'
  <1> DEFINE first == FunctionObject(name, FunctionType(signature), TRUE)
             object == ScopeObject(name, first)
  <1>1. CASE Refuse
    BY <1>1, RefuseTyped
  <1>2. CASE ~Refuse
    <2>1. /\ first \in Objects /\ object \in Objects
          /\ EnterFunction(name, first, TRUE) /\ BindName(name, object, nodes) /\ Declares
          /\ UNCHANGED <<currentPos, structMap, currentFunction, labels,
                         loopDepth, open, refused>>
      BY <1>2, DeclareFunctionIs
    <2> HIDE DEF first, object
    <2>2. Tree(nodes) /\ SameParents(nodes, nodes)
      BY TypeParts DEF TypeInv, SameParents
    <2>3. /\ Rooted
          /\ declarationMap' \in [Names -> Seq(Declaration(DOMAIN nodes'))]
      BY <2>1, <2>2, BindTyped
    <2>4. MapsTyped'
      BY <2>1, <2>3, MapsWiden, EnterTyped DEF MapsTyped, Rooted
    <2>5. Moves /\ declarations' \in 0 .. MaxDeclarations
      BY <2>1, Declares_Typed DEF Moves, Stays
    <2> QED
      BY <2>1, <2>3, <2>4, <2>5, StepTyped, OthersTyped DEF labels
  <1> QED
    BY <1>1, <1>2

(* addChild appends a node below the current one. *)
LEMMA ChildIs ==
  ASSUME NEW ns, Tree(ns), Len(ns) < MaxNodes, currentPos \in DOMAIN ns,
         NEW ms, ms = Child(ns)
  PROVE  /\ Tree(ms) /\ Len(ms) = Len(ns) + 1 /\ DOMAIN ms = 1 .. Len(ns) + 1
         /\ DOMAIN ns \subseteq DOMAIN ms /\ DOMAIN ns = 1 .. Len(ns)
         /\ SameNodes(ns, ms) /\ SameParents(ns, ms)
         /\ ms[Len(ns) + 1].parent = currentPos /\ ms[Len(ns) + 1].active
         /\ ms[Len(ns) + 1].insideStruct = ns[currentPos].insideStruct
         /\ ~ms[Len(ns) + 1].forward
         /\ ms[Len(ns) + 1].decl = [n \in Names |-> None]
  <1> DEFINE x == NewNode(currentPos, ns[currentPos].insideStruct, FALSE)
  <1>1. ms = Append(ns, x)
    BY DEF Child
  <1>2. x \in SemNode
    <2>1. /\ ns \in Seq(SemNode) /\ DOMAIN ns \subseteq NodeIndex
      BY Bounds DEF Tree
    <2>2. ns[currentPos] \in SemNode /\ currentPos \in NodeIndex
      BY <2>1
    <2>3. ns[currentPos].insideStruct \in BOOLEAN
      BY <2>2 DEF SemNode
    <2> DEFINE forward == FALSE
               inside == ns[currentPos].insideStruct
    <2>4. forward \in BOOLEAN /\ inside \in BOOLEAN /\ x = NewNode(currentPos, inside, forward)
      BY <2>3
    <2> HIDE DEF forward, inside, x
    <2> QED
      BY <2>2, <2>4, NewNodeTyped
  <1>3. /\ x.parent = currentPos /\ x.active /\ ~x.forward
        /\ x.insideStruct = ns[currentPos].insideStruct
        /\ x.decl = [n \in Names |-> None]
    BY DEF NewNode
  <1> HIDE DEF x
  <1>4. x.parent \in DOMAIN ns
    BY <1>3
  <1>5. /\ Tree(ms) /\ Len(ms) = Len(ns) + 1 /\ DOMAIN ns = 1 .. Len(ns)
        /\ DOMAIN ms = 1 .. Len(ns) + 1 /\ DOMAIN ns \subseteq DOMAIN ms
        /\ SameNodes(ns, ms) /\ SameParents(ns, ms) /\ ms[Len(ns) + 1] = x
    BY <1>1, <1>2, <1>4, TreeGrows
  <1> QED
    BY <1>3, <1>5

(* The parts of BeginFunction. *)
FunctionNamed(name, object) ==
  [declarationMap EXCEPT ![name] =
     Push([pos |-> currentPos, decl |-> object], Declared(name))]
FunctionNodes(name, object) == Child(Named(nodes, currentPos, name, object))
ParameterBelow(name, parameter, object) ==
  IF parameter = name THEN FunctionNamed(name, object)[name] ELSE Declared(parameter)

(* What the start of a function does, unless it is refused. *)
LEMMA BeginFunctionIs ==
  ASSUME TypeInv, NEW name \in Names, NEW signature \in Signatures, NEW parameter \in Names,
         BeginFunction(name, signature, parameter), ~Refuse,
         NEW first, first = FunctionObject(name, FunctionType(signature), FALSE),
         NEW object, object = ScopeObject(name, first)
  PROVE  /\ Innermost = "file" /\ Len(nodes) < MaxNodes
         /\ declarations + 2 <= MaxDeclarations
         /\ first # None /\ object # None /\ first \in Objects /\ object \in Objects
         /\ EnterFunction(name, first, FALSE)
         /\ currentFunction' = object /\ labelMap' = {} /\ gotoLabels' = {}
         /\ currentPos' = Len(nodes) + 1
         /\ Opens("function", Len(nodes) + 1)
         /\ UNCHANGED <<structMap, loopDepth, refused>>
         /\ \/ /\ nodes' = Named(FunctionNodes(name, object), Len(nodes) + 1, parameter,
                                 [id |-> declarations + 2, type |-> IntType])
               /\ declarationMap' = [FunctionNamed(name, object) EXCEPT ![parameter] =
                    Push([pos |-> Len(nodes) + 1,
                          decl |-> [id |-> declarations + 2, type |-> IntType]],
                         ParameterBelow(name, parameter, object))]
               /\ declarations' = declarations + 2
            \/ /\ nodes' = FunctionNodes(name, object)
               /\ declarationMap' = FunctionNamed(name, object)
               /\ declarations' = declarations + 1
  <1>1. /\ Innermost = "file" /\ Len(nodes) < MaxNodes
        /\ declarations + 2 <= MaxDeclarations
        /\ (IF first = None THEN None ELSE object) # None
        /\ EnterFunction(name, first, FALSE)
        /\ labelMap' = {} /\ gotoLabels' = {}
        /\ currentPos' = Len(nodes) + 1
        /\ Opens("function", Len(nodes) + 1)
        /\ UNCHANGED <<structMap, loopDepth, refused>>
    BY DEF BeginFunction, Parsing
  <1>2. first # None /\ object # None
    BY <1>1
  <1>3. first \in Objects
    <2> DEFINE isForward == FALSE
               type == FunctionType(signature)
    <2>1. type \in Types /\ isForward \in BOOLEAN
      BY DEF Types
    <2>2. first = FunctionObject(name, type, isForward)
      OBVIOUS
    <2>3. declarations < MaxDeclarations
      BY <1>1, TypeParts, Bounds DEF TypeInv
    <2> HIDE DEF isForward, type
    <2>4. FunctionObject(name, type, isForward) # None
      BY <1>2, <2>2
    <2> QED
      BY <2>1, <2>2, <2>3, <2>4, FunctionObjectIs, ZenonT(60)
  <1>4. object \in Objects
    BY <1>2, <1>3, ScopeObjectIs
  <1>5. /\ currentFunction' = object
        /\ \/ /\ nodes' = Named(FunctionNodes(name, object), Len(nodes) + 1, parameter,
                                [id |-> declarations + 2, type |-> IntType])
              /\ declarationMap' = [FunctionNamed(name, object) EXCEPT ![parameter] =
                   Push([pos |-> Len(nodes) + 1,
                         decl |-> [id |-> declarations + 2, type |-> IntType]],
                        ParameterBelow(name, parameter, object))]
              /\ declarations' = declarations + 2
           \/ /\ nodes' = FunctionNodes(name, object)
              /\ declarationMap' = FunctionNamed(name, object)
              /\ declarations' = declarations + 1
    BY <1>2 DEF BeginFunction, Named, FunctionNodes, FunctionNamed, ParameterBelow
  <1> QED
    BY <1>1, <1>2, <1>3, <1>4, <1>5

(* The function's name is declared around the new node. *)
LEMMA FunctionNodesIs ==
  ASSUME TypeInv, NEW name \in Names, NEW object \in Objects, Len(nodes) < MaxNodes,
         NEW ms, ms = FunctionNodes(name, object)
  PROVE  /\ Tree(ms) /\ Len(ms) = Len(nodes) + 1 /\ DOMAIN ms = 1 .. Len(nodes) + 1
         /\ DOMAIN nodes \subseteq DOMAIN ms /\ Len(nodes) + 1 \in DOMAIN ms
         /\ SameParents(nodes, ms) /\ SameMarks(nodes, ms)
         /\ ms[Len(nodes) + 1].parent = currentPos /\ ms[Len(nodes) + 1].active
         /\ ms[Len(nodes) + 1].insideStruct = nodes[currentPos].insideStruct
         /\ ~ms[Len(nodes) + 1].forward
         /\ ms[Len(nodes) + 1].decl = [n \in Names |-> None]
  <1> DEFINE ns == Named(nodes, currentPos, name, object)
  <1>1. Tree(nodes) /\ currentPos \in DOMAIN nodes /\ Len(nodes) \in Nat
    BY TypeParts, Bounds DEF TypeInv, Tree
  <1>2. /\ Tree(ns) /\ Len(ns) = Len(nodes) /\ DOMAIN ns = DOMAIN nodes
        /\ SameParents(nodes, ns) /\ SameMarks(nodes, ns)
    BY <1>1, TreeNames
  <1>3. ms = Child(ns)
    BY DEF FunctionNodes
  <1> HIDE DEF ns
  <1>4. /\ Tree(ms) /\ Len(ms) = Len(ns) + 1 /\ DOMAIN ms = 1 .. Len(ns) + 1
        /\ DOMAIN ns \subseteq DOMAIN ms
        /\ SameNodes(ns, ms) /\ SameParents(ns, ms)
        /\ ms[Len(ns) + 1].parent = currentPos /\ ms[Len(ns) + 1].active
        /\ ms[Len(ns) + 1].insideStruct = ns[currentPos].insideStruct
        /\ ~ms[Len(ns) + 1].forward
        /\ ms[Len(ns) + 1].decl = [n \in Names |-> None]
    BY <1>1, <1>2, <1>3, ChildIs
  <1>5. SameParents(nodes, ms) /\ SameMarks(nodes, ms)
    BY <1>2, <1>4 DEF SameParents, SameMarks, SameNodes
  <1>6. ns[currentPos].insideStruct = nodes[currentPos].insideStruct
    BY <1>1, <1>2 DEF SameMarks
  <1>7. Len(nodes) + 1 \in 1 .. Len(nodes) + 1
    BY <1>1
  <1> QED
    BY <1>2, <1>4, <1>5, <1>6, <1>7

(* Its stacks are of the right type. *)
LEMMA FunctionNamedIs ==
  ASSUME TypeInv, NEW name \in Names, NEW object \in Objects, NEW parameter \in Names,
         NEW N, DOMAIN nodes \subseteq N
  PROVE  /\ FunctionNamed(name, object) \in [Names -> Seq(Declaration(N))]
         /\ ParameterBelow(name, parameter, object) \in Seq(Declaration(N))
  <1> DEFINE e == [pos |-> currentPos, decl |-> object]
             D == Declaration(N)
  <1>1. e \in D
    BY TypeParts DEF Declaration, TypeInv
  <1>2. \A n \in Names : Declared(n) \in Seq(D) /\ declarationMap[n] \in Seq(D)
    BY DeclaredIs, Widen
  <1>3. /\ FunctionNamed(name, object) =
             [declarationMap EXCEPT ![name] = Push(e, Declared(name))]
        /\ declarationMap \in [Names -> Seq(Declaration(DOMAIN nodes))]
    BY TypeParts DEF FunctionNamed, TypeInv
  <1> HIDE DEF e, D
  <1>4. Push(e, Declared(name)) \in Seq(D)
    BY <1>1, <1>2, PushIs
  <1>5. FunctionNamed(name, object) \in [Names -> Seq(D)]
    BY <1>2, <1>3, <1>4
  <1>6. ParameterBelow(name, parameter, object) \in Seq(D)
    BY <1>2, <1>5 DEF ParameterBelow
  <1> QED
    BY <1>5, <1>6 DEF D

(* The start of a function. *)
LEMMA BeginFunctionTyped ==
  ASSUME TypeInv, NEW name \in Names, NEW signature \in Signatures, NEW parameter \in Names,
         BeginFunction(name, signature, parameter)
  PROVE  TypeInv'
  <1> DEFINE first == FunctionObject(name, FunctionType(signature), FALSE)
             object == ScopeObject(name, first)
             body == Len(nodes) + 1
             value == [id |-> declarations + 2, type |-> IntType]
             ms == FunctionNodes(name, object)
             named == FunctionNamed(name, object)
  <1>1. CASE Refuse
    BY <1>1, RefuseTyped
  <1>2. CASE ~Refuse
    <2>1. /\ Len(nodes) < MaxNodes /\ declarations + 2 <= MaxDeclarations
          /\ first \in Objects /\ object \in Objects
          /\ EnterFunction(name, first, FALSE)
          /\ currentFunction' = object /\ labelMap' = {} /\ gotoLabels' = {}
          /\ currentPos' = body
          /\ Opens("function", body)
          /\ UNCHANGED <<structMap, loopDepth, refused>>
      BY <1>2, BeginFunctionIs
    <2>2. \/ /\ nodes' = Named(ms, body, parameter, value)
             /\ declarationMap' = [named EXCEPT ![parameter] =
                  Push([pos |-> body, decl |-> value], ParameterBelow(name, parameter, object))]
             /\ declarations' = declarations + 2
          \/ /\ nodes' = ms /\ declarationMap' = named
             /\ declarations' = declarations + 1
      BY <1>2, BeginFunctionIs
    <2> HIDE DEF first, object
    <2>3. /\ Tree(ms) /\ DOMAIN ms = 1 .. Len(nodes) + 1
          /\ DOMAIN nodes \subseteq DOMAIN ms /\ body \in DOMAIN ms
          /\ SameParents(nodes, ms) /\ ms[body].parent = currentPos
      BY <2>1, FunctionNodesIs
    <2>4. declarations \in Nat /\ value \in Objects
      <3>1. declarations \in Nat /\ declarations + 2 \in 1 .. MaxDeclarations
        BY <2>1, TypeParts, Bounds DEF TypeInv
      <3> QED
        BY <3>1 DEF Objects, Types
    <2> HIDE DEF ms, value, named
    <2>5. /\ Tree(nodes') /\ DOMAIN nodes' = DOMAIN ms /\ SameParents(ms, nodes')
      <3>1. CASE nodes' = ms
        BY <2>3, <3>1 DEF SameParents
      <3>2. CASE nodes' = Named(ms, body, parameter, value)
        <4> DEFINE qs == nodes'
        <4> HIDE DEF body
        <4>1. qs = Named(ms, body, parameter, value)
          BY <3>2
        <4> HIDE DEF qs
        <4>0. Tree(ms) /\ body \in DOMAIN ms /\ value \in Objects
          BY <2>3, <2>4
        <4>2. Tree(qs) /\ DOMAIN qs = DOMAIN ms /\ SameParents(ms, qs)
          BY <4>0, <4>1, TreeNames
        <4> QED
          BY <4>2 DEF qs
      <3> QED
        BY <2>2, <3>1, <3>2
    <2>6. Rooted /\ body \in DOMAIN nodes' /\ nodes'[body].parent = currentPos
      BY <2>3, <2>5 DEF Rooted, SameParents
    <2>7. declarationMap' \in [Names -> Seq(Declaration(DOMAIN nodes'))]
      <3> DEFINE D == Declaration(DOMAIN nodes')
                 e == [pos |-> body, decl |-> value]
                 below == ParameterBelow(name, parameter, object)
      <3>1. named \in [Names -> Seq(D)] /\ below \in Seq(D)
        <4> DEFINE N == DOMAIN nodes'
        <4>1. DOMAIN nodes \subseteq N /\ D = Declaration(N)
          BY <2>6 DEF Rooted
        <4> HIDE DEF N, D
        <4>2. /\ FunctionNamed(name, object) \in [Names -> Seq(Declaration(N))]
              /\ ParameterBelow(name, parameter, object) \in Seq(Declaration(N))
          BY <2>1, <4>1, FunctionNamedIs
        <4> QED
          BY <4>1, <4>2 DEF named
      <3>2. e \in D
        BY <2>4, <2>6 DEF Declaration
      <3>3. declarationMap' = named \/ declarationMap' = [named EXCEPT ![parameter] = Push(e, below)]
        BY <2>2
      <3> HIDE DEF D, e, below
      <3>4. Push(e, below) \in Seq(D)
        BY <3>1, <3>2, PushIs
      <3>5. declarationMap' \in [Names -> Seq(D)]
        BY <3>1, <3>3, <3>4
      <3> QED
        BY <3>5 DEF D
    <2>8. functionMap' \in [Names -> Known \union {None}]
      <3> DEFINE isForward == FALSE
      <3>1. EnterFunction(name, first, isForward) /\ isForward \in BOOLEAN
        BY <2>1
      <3> HIDE DEF isForward
      <3> QED
        BY <2>1, <3>1, EnterTyped
    <2>9. MapsTyped'
      BY <2>1, <2>6, <2>7, <2>8, MapsWiden DEF MapsTyped, Rooted
    <2>10. Enters("function", body)
      BY <2>1, <2>6 DEF Enters, Opens
    <2>11. Moves
      <3>1. loopDepth' = loopDepth + (IF "function" = "loop" THEN 1 ELSE 0)
        <4>1. Cardinality(Loops(open)) \in Nat /\ loopDepth = Cardinality(Loops(open))
          <5>1. open \in Seq(Construct(DOMAIN nodes)) /\ loopDepth = Cardinality(Loops(open))
            BY TypeParts DEF TypeInv
          <5>2. [kind |-> "loop", node |-> currentPos] \in Construct(DOMAIN nodes)
            BY TypeParts DEF TypeInv, Construct
          <5> QED
            BY <5>1, <5>2, LoopsPush
        <4> QED
          BY <2>1, <4>1
      <3> QED
        BY <2>10, <3>1 DEF Moves
    <2>12. declarations' \in 0 .. MaxDeclarations
      BY <2>1, <2>2, <2>4, Bounds
    <2> QED
      BY <2>1, <2>6, <2>9, <2>11, <2>12, StepTyped, OthersTyped
  <1> QED
    BY <1>1, <1>2

(* The loop depth is a number. *)
LEMMA LoopDepthTyped == ASSUME TypeInv PROVE loopDepth \in Nat
  <1>1. open \in Seq(Construct(DOMAIN nodes)) /\ loopDepth = Cardinality(Loops(open))
    BY TypeParts DEF TypeInv
  <1>2. [kind |-> "loop", node |-> currentPos] \in Construct(DOMAIN nodes)
    BY TypeParts DEF TypeInv, Construct
  <1> QED
    BY <1>1, <1>2, LoopsPush

(* Entering a scope is no matter of loops. *)
LEMMA EntersMoves ==
  ASSUME TypeInv, NEW kind \in {"function", "block", "struct"}, NEW node,
         Enters(kind, node), UNCHANGED loopDepth
  PROVE  Moves
  <1>1. loopDepth' = loopDepth + (IF kind = "loop" THEN 1 ELSE 0)
    BY LoopDepthTyped
  <1> QED
    BY <1>1 DEF Moves

(* The start of a block. *)
LEMMA BeginBlockTyped == ASSUME TypeInv, BeginBlock PROVE TypeInv'
  <1> DEFINE ms == nodes'
             node == Len(nodes) + 1
  <1>1. /\ Len(nodes) < MaxNodes /\ ms = Child(nodes) /\ currentPos' = Len(ms)
        /\ open' = <<[kind |-> "block", node |-> Len(ms)]>> \o open
        /\ UNCHANGED <<maps, currentFunction, labels, loopDepth, declarations, refused>>
    BY DEF BeginBlock, Opens
  <1>2. Tree(nodes) /\ currentPos \in DOMAIN nodes /\ Len(nodes) \in Nat
    BY TypeParts, Bounds DEF TypeInv, Tree
  <1> HIDE DEF ms
  <1>3. /\ Tree(ms) /\ Len(ms) = node /\ DOMAIN ms = 1 .. node
        /\ DOMAIN nodes \subseteq DOMAIN ms
        /\ SameParents(nodes, ms) /\ ms[node].parent = currentPos
    BY <1>1, <1>2, ChildIs
  <1>4. node \in DOMAIN ms
    BY <1>2, <1>3
  <1>5. Rooted /\ Enters("block", node)
    BY <1>1, <1>3, <1>4 DEF Rooted, Enters, ms
  <1>6. Moves
    BY <1>1, <1>5, EntersMoves
  <1>7. MapsTyped'
    BY <1>1, <1>5, MapsStay
  <1> QED
    BY <1>1, <1>5, <1>6, <1>7, StepTyped, OthersTyped DEF labels

(* The struct that is opened has a tag: a new node, or that of a forward   *)
(* declaration.                                                            *)
LEMMA BeginStructIs ==
  ASSUME NEW tag, BeginStruct(tag), ~Refuse
  PROVE  /\ Innermost \in Declarable
         /\ open' = <<[kind |-> "struct", node |-> currentPos']>> \o open
         /\ UNCHANGED <<declarationMap, functionMap, currentFunction, labels,
                        loopDepth, declarations, refused>>
         /\ \/ /\ Structs(tag) # <<>> /\ nodes[Top(Structs(tag)).node].parent = currentPos
               /\ Top(Structs(tag)).forward /\ DefineForward
               /\ structMap' = [structMap EXCEPT ![tag] = Structs(tag)]
               /\ nodes' = [nodes EXCEPT ![Top(Structs(tag)).node].forward = FALSE]
               /\ currentPos' = Top(Structs(tag)).node
            \/ /\ Structs(tag) # <<>> => nodes[Top(Structs(tag)).node].parent # currentPos
               /\ Len(nodes) < MaxNodes
               /\ structMap' = [structMap EXCEPT ![tag] =
                    Push([node |-> Len(nodes) + 1, forward |-> FALSE], Structs(tag))]
               /\ nodes' = Append(nodes, NewNode(currentPos, TRUE, FALSE))
               /\ currentPos' = Len(nodes')
  BY DEF BeginStruct, Opens, Parsing

(* A struct gets a node below the current one. *)
LEMMA StructNodes ==
  ASSUME TypeInv, Len(nodes) < MaxNodes,
         NEW ms, ms = Append(nodes, NewNode(currentPos, TRUE, FALSE))
  PROVE  /\ Tree(ms) /\ Len(ms) = Len(nodes) + 1 /\ DOMAIN ms = 1 .. Len(nodes) + 1
         /\ DOMAIN nodes \subseteq DOMAIN ms /\ DOMAIN nodes = 1 .. Len(nodes)
         /\ Len(nodes) \in Nat /\ Len(nodes) + 1 \in DOMAIN ms
         /\ SameNodes(nodes, ms) /\ SameParents(nodes, ms)
         /\ ms[Len(nodes) + 1] = NewNode(currentPos, TRUE, FALSE)
         /\ ms[Len(nodes) + 1].parent = currentPos /\ ms[Len(nodes) + 1].active
  <1> DEFINE x == NewNode(currentPos, TRUE, FALSE)
             yes == TRUE
             no == FALSE
  <1>1. Tree(nodes) /\ currentPos \in DOMAIN nodes /\ Len(nodes) \in Nat
        /\ DOMAIN nodes = 1 .. Len(nodes)
    BY TypeParts, Bounds DEF TypeInv, Tree
  <1>2. currentPos \in NodeIndex /\ yes \in BOOLEAN /\ no \in BOOLEAN /\ x = NewNode(currentPos, yes, no)
    BY <1>1, Bounds DEF Tree
  <1>3. x.parent = currentPos /\ x.active /\ ms = Append(nodes, x)
    BY DEF NewNode
  <1> HIDE DEF x, yes, no
  <1>4. x \in SemNode /\ x.parent \in DOMAIN nodes
    BY <1>1, <1>2, <1>3, NewNodeTyped
  <1>5. /\ Tree(ms) /\ Len(ms) = Len(nodes) + 1 /\ DOMAIN ms = 1 .. Len(nodes) + 1
        /\ DOMAIN nodes \subseteq DOMAIN ms
        /\ SameNodes(nodes, ms) /\ SameParents(nodes, ms) /\ ms[Len(nodes) + 1] = x
    BY <1>1, <1>3, <1>4, TreeGrows
  <1>6. Len(nodes) + 1 \in 1 .. Len(nodes) + 1
    BY <1>1
  <1> QED
    BY <1>1, <1>3, <1>5, <1>6 DEF x

(* The start of a struct. *)
LEMMA BeginStructTyped ==
  ASSUME TypeInv, NEW tag \in Tags, BeginStruct(tag)
  PROVE  TypeInv'
  <1>1. CASE Refuse
    BY <1>1, RefuseTyped
  <1>2. CASE ~Refuse
    <2>1. /\ open' = <<[kind |-> "struct", node |-> currentPos']>> \o open
          /\ UNCHANGED <<declarationMap, functionMap, currentFunction, labels,
                         loopDepth, declarations, refused>>
      BY <1>2, BeginStructIs
    <2>2. Tree(nodes)
      BY TypeParts DEF TypeInv
    <2>3. /\ Rooted /\ currentPos' \in DOMAIN nodes' /\ nodes'[currentPos'].parent = currentPos
          /\ structMap' \in [Tags -> Seq(Tagged(DOMAIN nodes'))]
      <3> DEFINE ms == nodes'
      <3>1. CASE /\ Structs(tag) # <<>> /\ nodes[Top(Structs(tag)).node].parent = currentPos
                 /\ structMap' = [structMap EXCEPT ![tag] = Structs(tag)]
                 /\ nodes' = [nodes EXCEPT ![Top(Structs(tag)).node].forward = FALSE]
                 /\ currentPos' = Top(Structs(tag)).node
        <4> DEFINE p == Top(Structs(tag)).node
        <4>1. /\ p \in DOMAIN nodes /\ nodes[p].parent = currentPos /\ currentPos' = p
              /\ ms = [nodes EXCEPT ![p].forward = FALSE]
          BY <3>1, StructsTop
        <4> HIDE DEF p, ms
        <4>2. Tree(ms) /\ DOMAIN ms = DOMAIN nodes /\ SameParents(nodes, ms)
          BY <2>2, <4>1, TreeLeaves
        <4>3. structMap' \in [Tags -> Seq(Tagged(DOMAIN ms))]
          <5>1. structMap \in [Tags -> Seq(Tagged(DOMAIN nodes))]
            BY TypeParts DEF TypeInv
          <5>2. Structs(tag) \in Seq(Tagged(DOMAIN nodes))
            BY StructsIs
          <5> QED
            BY <3>1, <4>2, <5>1, <5>2
        <4> QED
          BY <4>1, <4>2, <4>3 DEF Rooted, SameParents, ms
      <3>2. CASE /\ Len(nodes) < MaxNodes
                 /\ structMap' = [structMap EXCEPT ![tag] =
                      Push([node |-> Len(nodes) + 1, forward |-> FALSE], Structs(tag))]
                 /\ nodes' = Append(nodes, NewNode(currentPos, TRUE, FALSE))
                 /\ currentPos' = Len(nodes')
        <4> DEFINE e == [node |-> Len(nodes) + 1, forward |-> FALSE]
        <4>1. ms = Append(nodes, NewNode(currentPos, TRUE, FALSE))
          BY <3>2
        <4> HIDE DEF ms
        <4>2. /\ Tree(ms) /\ Len(ms) = Len(nodes) + 1
              /\ DOMAIN nodes \subseteq DOMAIN ms /\ Len(nodes) + 1 \in DOMAIN ms
              /\ SameParents(nodes, ms) /\ ms[Len(nodes) + 1].parent = currentPos
          BY <3>2, <4>1, StructNodes
        <4>3. structMap' \in [Tags -> Seq(Tagged(DOMAIN ms))]
          <5> DEFINE D == Tagged(DOMAIN ms)
          <5>1. structMap \in [Tags -> Seq(D)]
            BY <4>2, MapsWiden DEF ms
          <5>2. Structs(tag) \in Seq(D)
            BY <4>2, StructsIs, Widen
          <5>3. e \in D
            BY <4>2 DEF Tagged
          <5>4. structMap' = [structMap EXCEPT ![tag] = Push(e, Structs(tag))]
            BY <3>2
          <5> HIDE DEF D, e
          <5>5. Push(e, Structs(tag)) \in Seq(D)
            BY <5>2, <5>3, PushIs
          <5>6. structMap' \in [Tags -> Seq(D)]
            BY <5>1, <5>4, <5>5
          <5> QED
            BY <5>6 DEF D
        <4>4. currentPos' = Len(nodes) + 1
          BY <3>2, <4>2 DEF ms
        <4> QED
          BY <4>2, <4>3, <4>4 DEF Rooted, ms
      <3> QED
        BY <1>2, <3>1, <3>2, BeginStructIs
    <2>4. Enters("struct", currentPos')
      BY <2>1, <2>3 DEF Enters
    <2>5. Moves
      BY <2>1, <2>4, EntersMoves
    <2>6. MapsTyped'
      BY <2>1, <2>3, MapsWiden, TypeParts DEF MapsTyped, Rooted, TypeInv
    <2> QED
      BY <2>1, <2>3, <2>5, <2>6, StepTyped, OthersTyped DEF labels
  <1> QED
    BY <1>1, <1>2

(* goUp goes back to the node around, which is no longer the parser's. *)
LEMMA GoUpIs ==
  ASSUME TypeInv, GoUp, Innermost \in {"function", "block", "struct"}, UNCHANGED loopDepth
  PROVE  /\ Rooted /\ Leaves /\ Moves /\ DOMAIN nodes' = DOMAIN nodes
         /\ open # <<>> /\ Head(open).kind = Innermost
  <1>1. open # <<>> /\ Head(open).kind = Innermost /\ Head(open).kind # "loop"
    BY DEF Innermost
  <1>2. currentPos' = Around(2) /\ open' = Tail(open)
    BY <1>1, OpenFacts DEF GoUp
  <1> DEFINE ms == nodes'
  <1>3. Tree(nodes) /\ currentPos \in DOMAIN nodes /\ ms = [nodes EXCEPT ![currentPos].active = FALSE]
    BY TypeParts DEF TypeInv, GoUp
  <1> HIDE DEF ms
  <1>4. Tree(ms) /\ DOMAIN ms = DOMAIN nodes /\ SameParents(nodes, ms)
    BY <1>3, TreeLeaves
  <1>5. Leaves
    BY <1>1, <1>2 DEF Leaves
  <1>6. loopDepth' = loopDepth - (IF Head(open).kind = "loop" THEN 1 ELSE 0)
    BY <1>1, LoopDepthTyped
  <1> QED
    BY <1>1, <1>4, <1>5, <1>6 DEF Rooted, Moves, ms

(* The end of a block or a struct. *)
LEMMA EndScopeTyped == ASSUME TypeInv, EndScope PROVE TypeInv'
  <1>1. /\ GoUp /\ Innermost \in {"function", "block", "struct"}
        /\ UNCHANGED <<maps, currentFunction, labels, loopDepth, declarations, refused>>
    BY DEF EndScope, Parsing
  <1>2. Rooted /\ Moves
    BY <1>1, GoUpIs
  <1> QED
    BY <1>1, <1>2, MapsStay, StepTyped, OthersTyped DEF labels

(* What is left of one stack at the end of a function. *)
EndFunctionName == CHOOSE n \in Names : /\ functionMap[n] # None
                                        /\ functionMap[n].decl = currentFunction
LiveAfter(s) == {e \in {s[k] : k \in DOMAIN s} : e.pos # currentPos /\ Active(e.pos)}

(* What the end of a function does, unless it is refused. *)
LEMMA EndFunctionIs ==
  ASSUME EndFunction, ~Refuse, NEW s, s = declarationMap[EndFunctionName]
  PROVE  /\ GoUp /\ Innermost = "function"
         /\ currentFunction' = None
         /\ declarationMap' = [declarationMap EXCEPT ![EndFunctionName] =
                                 Remaining(s, LiveAfter(s))]
         /\ UNCHANGED <<structMap, functionMap, labels, loopDepth, declarations, refused>>
  BY DEF EndFunction, Parsing, EndFunctionName, LiveAfter

(* The end of a function. *)
LEMMA EndFunctionTyped == ASSUME TypeInv, EndFunction PROVE TypeInv'
  <1> DEFINE name == EndFunctionName
             s == declarationMap[name]
  <1>1. CASE Refuse
    BY <1>1, RefuseTyped
  <1>2. CASE ~Refuse
    <2>1. /\ GoUp /\ Innermost \in {"function", "block", "struct"}
          /\ currentFunction' = None
          /\ declarationMap' = [declarationMap EXCEPT ![name] = Remaining(s, LiveAfter(s))]
          /\ UNCHANGED <<structMap, functionMap, labels, loopDepth, declarations, refused>>
      BY <1>2, EndFunctionIs
    <2>2. Rooted /\ Moves /\ DOMAIN nodes' = DOMAIN nodes
      BY <2>1, GoUpIs
    <2>3. declarationMap' \in [Names -> Seq(Declaration(DOMAIN nodes'))]
      <3> DEFINE D == Declaration(DOMAIN nodes)
      <3>1. declarationMap \in [Names -> Seq(D)]
        BY TypeParts DEF TypeInv
      <3> HIDE DEF D
      <3>2. name \in Names => Remaining(s, LiveAfter(s)) \in Seq(D)
        BY <3>1, RemainingIs
      <3>3. declarationMap' \in [Names -> Seq(D)]
        BY <2>1, <3>1, <3>2
      <3> QED
        BY <2>2, <3>3 DEF D
    <2>4. MapsTyped'
      BY <2>1, <2>2, <2>3, TypeParts, MapsWiden DEF MapsTyped, TypeInv, Rooted
    <2> QED
      BY <2>1, <2>2, <2>4, StepTyped, OthersTyped DEF labels
  <1> QED
    BY <1>1, <1>2

(* The use of a name. *)
LEMMA LookUpTyped == ASSUME TypeInv, NEW name \in Names, LookUpType(name) PROVE TypeInv'
  <1>1. CASE Refuse
    BY <1>1, RefuseTyped
  <1>2. CASE ~Refuse
    <2>1. /\ declarationMap' = [declarationMap EXCEPT ![name] = Declared(name)]
          /\ UNCHANGED <<tree, structMap, functionMap, currentFunction, labels,
                         loopDepth, declarations, open, refused>>
      BY <1>2 DEF LookUpType
    <2>2. Rooted /\ Moves
      BY <2>1, NodesStay DEF tree, Moves, Stays
    <2>3. declarationMap' \in [Names -> Seq(Declaration(DOMAIN nodes))]
      BY <2>1, DeclaredIs, TypeParts DEF TypeInv
    <2>4. MapsTyped'
      BY <2>1, <2>3, TypeParts DEF MapsTyped, TypeInv, tree
    <2> QED
      BY <2>1, <2>2, <2>4, StepTyped, OthersTyped DEF labels
  <1> QED
    BY <1>1, <1>2

(* A label, or the goto to one. *)
LEMMA LabelTyped ==
  ASSUME TypeInv, NEW l \in Labels, AddLabel(l) \/ AddGotoLabel(l)
  PROVE  TypeInv'
  <1>1. CASE Refuse
    BY <1>1, RefuseTyped
  <1>2. CASE ~Refuse
    <2>1. /\ UNCHANGED <<tree, maps, currentFunction, loopDepth, declarations, open, refused>>
          /\ labelMap' \in {labelMap, labelMap \union {l}}
          /\ gotoLabels' \in {gotoLabels, gotoLabels \union {l}}
      BY <1>2 DEF AddLabel, AddGotoLabel
    <2>2. Rooted /\ Moves
      BY <2>1, NodesStay DEF tree, Moves, Stays
    <2>3. labelMap' \subseteq Labels /\ gotoLabels' \subseteq Labels
      BY <2>1, OthersTyped
    <2> QED
      BY <2>1, <2>2, <2>3, MapsStay, StepTyped, OthersTyped
  <1> QED
    BY <1>1, <1>2

(* The start and the end of a loop. *)
LEMMA LoopTyped ==
  ASSUME TypeInv, IncreaseLoopDepth \/ DecreaseLoopDepth
  PROVE  TypeInv'
  <1>1. UNCHANGED <<tree, maps, currentFunction, labels, declarations, refused>>
    BY DEF IncreaseLoopDepth, DecreaseLoopDepth
  <1>2. Rooted /\ currentPos' = currentPos
    BY <1>1, NodesStay DEF tree
  <1>3. CASE IncreaseLoopDepth
    <2>1. open' = <<[kind |-> "loop", node |-> currentPos]>> \o open /\ loopDepth' = loopDepth + 1
      BY <1>3 DEF IncreaseLoopDepth, Opens
    <2>2. currentPos \in DOMAIN nodes'
      BY <1>1, TypeParts DEF TypeInv, tree
    <2>3. Enters("loop", currentPos)
      BY <1>2, <2>1, <2>2 DEF Enters
    <2>4. loopDepth' = loopDepth + (IF "loop" = "loop" THEN 1 ELSE 0)
      BY <2>1
    <2>5. Moves
      BY <2>3, <2>4 DEF Moves
    <2> QED
      BY <1>1, <1>2, <2>5, MapsStay, StepTyped, OthersTyped DEF labels
  <1>4. CASE DecreaseLoopDepth
    <2>1. /\ open # <<>> /\ Head(open).kind = "loop" /\ open' = Tail(open)
          /\ loopDepth' = loopDepth - 1
      BY <1>4 DEF DecreaseLoopDepth, Parsing, Innermost
    <2>2. Leaves
      BY <1>2, <2>1, OpenFacts DEF Leaves
    <2>3. Moves
      BY <2>1, <2>2 DEF Moves
    <2> QED
      BY <1>1, <1>2, <2>3, MapsStay, StepTyped, OthersTyped DEF labels
  <1> QED
    BY <1>3, <1>4

(* The invariant holds for the empty tree ... *)
LEMMA TypeInit == Init => TypeInv
  <1> SUFFICES ASSUME Init PROVE TypeInv
    OBVIOUS
  <1> DEFINE no == FALSE
             x == NewNode(None, no, no)
  <1>1. /\ nodes = <<x>> /\ currentPos = Root /\ open = <<>>
        /\ declarationMap = [n \in Names |-> <<>>] /\ structMap = [t \in Tags |-> <<>>]
        /\ functionMap = [n \in Names |-> None] /\ currentFunction = None
        /\ labelMap = {} /\ gotoLabels = {} /\ loopDepth = 0
        /\ declarations = 0 /\ refused = no
    BY DEF Init
  <1>2. x \in SemNode /\ no \in BOOLEAN
    BY DEF NewNode, SemNode
  <1> HIDE DEF x, no
  <1>3. /\ nodes \in Seq(SemNode) /\ Len(nodes) = 1 /\ DOMAIN nodes = {1}
    BY <1>1, <1>2
  <1>4. Tree(nodes) /\ currentPos \in DOMAIN nodes
    BY <1>1, <1>3, Bounds DEF Tree, Root
  <1>5. MapsTyped
    <2>1. \A S : <<>> \in Seq(S)
      OBVIOUS
    <2> QED
      BY <1>1, <2>1 DEF MapsTyped
  <1>6. loopDepth = Cardinality(Loops(open)) /\ open \in Seq(Construct(DOMAIN nodes))
    <2>1. Loops(open) = {}
      BY <1>1 DEF Loops
    <2> QED
      BY <1>1, <2>1, FS_EmptySet
  <1>7. declarations \in 0 .. MaxDeclarations
    BY <1>1, Bounds
  <1>8. TypeOK
    BY <1>1, <1>2, <1>4, <1>5, <1>6, <1>7, PartsType DEF Typed, MapsTyped
  <1>9. Nested
    BY <1>1 DEF Nested, Around
  <1> QED
    BY <1>8, <1>9 DEF TypeInv

(* ... every call of the parser keeps it ... *)
LEMMA TypeStep == TypeInv /\ [Next]_vars => TypeInv'
  <1> SUFFICES ASSUME TypeInv, [Next]_vars PROVE TypeInv'
    OBVIOUS
  <1>1. CASE UNCHANGED vars
    <2>1. UNCHANGED <<nodes, currentPos, maps, currentFunction, labels, loopDepth,
                      declarations, open, refused>>
      BY <1>1 DEF vars, tree
    <2>2. Rooted /\ Moves
      BY <2>1, NodesStay DEF Moves, Stays
    <2> QED
      BY <2>1, <2>2, MapsStay, StepTyped, OthersTyped DEF labels
  <1>2. ASSUME NEW name \in Names, DeclareInt(name) PROVE TypeInv'
    BY <1>2, DeclareIntTyped
  <1>3. ASSUME NEW name \in Names, NEW tag \in Tags, NEW kind \in {"struct", "pointer"},
               DeclareStruct(kind, name, tag)
        PROVE  TypeInv'
    BY <1>3, DeclareStructTyped
  <1>4. ASSUME NEW name \in Names, NEW s \in Signatures, DeclareFunction(name, s)
        PROVE  TypeInv'
    BY <1>4, DeclareFunctionTyped
  <1>5. ASSUME NEW name \in Names, NEW s \in Signatures, NEW parameter \in Names,
               BeginFunction(name, s, parameter)
        PROVE  TypeInv'
    BY <1>5, BeginFunctionTyped
  <1>6. ASSUME NEW name \in Names, LookUpType(name) PROVE TypeInv'
    BY <1>6, LookUpTyped
  <1>7. ASSUME NEW tag \in Tags, BeginStruct(tag) PROVE TypeInv'
    BY <1>7, BeginStructTyped
  <1>8. ASSUME NEW l \in Labels, AddLabel(l) \/ AddGotoLabel(l) PROVE TypeInv'
    BY <1>8, LabelTyped
  <1>9. CASE JumpOutsideLoop
    BY <1>9, RefuseTyped DEF JumpOutsideLoop
  <1> QED
    BY <1>1, <1>2, <1>3, <1>4, <1>5, <1>6, <1>7, <1>8, <1>9, BeginBlockTyped,
       EndScopeTyped, EndFunctionTyped, LoopTyped DEF Next

(* ... so it always holds. *)
LEMMA TypeAlways == Spec => []TypeInv
  BY TypeInit, TypeStep, PTL DEF Spec

(***************************************************************************)
(* Every node but the root hangs under an older one, every declaration and *)
(* every tag refers to a node that exists, and the loop depth counts the   *)
(* loops around the parser (SemanticTree in semantic.h).                   *)
(***************************************************************************)
THEOREM TreeTypes == Spec => []TypeOK
  <1>1. TypeInv => TypeOK
    BY DEF TypeInv
  <1> QED
    BY <1>1, TypeAlways, PTL

-----------------------------------------------------------------------------
(* What a step does to the maps.                                           *)

(* The object o may become that of name n in the current scope. *)
NewObject(n, o) ==
  /\ o \in Objects
  /\ IF Declared(n) # <<>> /\ Top(Declared(n)).pos = currentPos
       THEN o = Top(Declared(n)).decl
       ELSE o.type.kind = "function" => functionMap'[n] # None /\ functionMap'[n].decl = o
  /\ o.type.kind = "struct" =>
       o.type.node \in DOMAIN nodes /\ ~nodes[o.type.node].active

Binding(p, o) == [pos |-> p, decl |-> o]
BoundStack(n, o) == Push(Binding(currentPos, o), Declared(n))

(* Entries of scopes that are closed may go, the name may be bound in the  *)
(* current scope, and a parameter in a new one.                            *)
Trims(s, t) == \E m : Without(s, m, t) /\ \A i \in 1 .. m : ~nodes'[s[i].pos].active
Binds(n, t) == \E o : NewObject(n, o) /\ t = BoundStack(n, o)
BindsInside(n, t) ==
  \E v, u : /\ v \in Objects /\ v.type.kind = "int" /\ currentPos' \notin DOMAIN nodes
            /\ t = Push(Binding(currentPos', v), u)
            /\ u = Declared(n) \/ Binds(n, u)

StackStep(n) == LET t == declarationMap'[n] IN
  t = declarationMap[n] \/ Trims(declarationMap[n], t) \/ Binds(n, t) \/ BindsInside(n, t)

KnownStay == \A n \in Names : functionMap[n] # None =>
               functionMap'[n] # None /\ functionMap'[n].decl = functionMap[n].decl

MapsStep == KnownStay /\ \A n \in Names : StackStep(n)

(* Maps that stay are the simplest case. *)
LEMMA MapsIdle == UNCHANGED <<declarationMap, functionMap>> => MapsStep
  BY DEF MapsStep, StackStep, KnownStay

(* A name is bound in the current scope, the others stay. *)
LEMMA MapsBind ==
  ASSUME TypeInv, KnownStay, NEW name \in Names, NEW object, NewObject(name, object),
         declarationMap' = [declarationMap EXCEPT ![name] = BoundStack(name, object)]
  PROVE  MapsStep
  <1>1. declarationMap \in [Names -> Seq(Declaration(DOMAIN nodes))]
    BY TypeParts DEF TypeInv
  <1>2. Binds(name, declarationMap'[name])
    BY <1>1 DEF Binds
  <1>3. \A n \in Names : n # name => declarationMap'[n] = declarationMap[n]
    BY <1>1
  <1> QED
    BY <1>2, <1>3 DEF MapsStep, StackStep

(* An object for a variable is new, or that of the name in this scope. *)
LEMMA NewVariable ==
  ASSUME TypeInv, NEW name \in Names, NEW object \in Objects,
         object.type.kind # "function",
         object.type.kind = "struct" =>
           object.type.node \in DOMAIN nodes /\ ~nodes[object.type.node].active,
         ScopeObject(name, object) # None
  PROVE  NewObject(name, ScopeObject(name, object))
  <1>1. /\ ScopeObject(name, object) \in Objects
        /\ ScopeObject(name, object).type = object.type
        /\ IF Declared(name) # <<>> /\ Top(Declared(name)).pos = currentPos
             THEN ScopeObject(name, object) = Top(Declared(name)).decl
             ELSE ScopeObject(name, object) = object
    BY ScopeObjectIs
  <1> QED
    BY <1>1 DEF NewObject

(* The object that functionMap has is the one to bind. *)
LEMMA NewFunction ==
  ASSUME TypeInv, NEW name \in Names, NEW object \in Objects,
         object.type.kind = "function",
         functionMap'[name] # None, functionMap'[name].decl = object,
         ScopeObject(name, object) # None
  PROVE  NewObject(name, ScopeObject(name, object))
  <1>1. /\ ScopeObject(name, object) \in Objects
        /\ ScopeObject(name, object).type = object.type
        /\ IF Declared(name) # <<>> /\ Top(Declared(name)).pos = currentPos
             THEN ScopeObject(name, object) = Top(Declared(name)).decl
             ELSE ScopeObject(name, object) = object
    BY ScopeObjectIs
  <1> QED
    BY <1>1 DEF NewObject

(* functionMap keeps the object of a function that it knows. *)
LEMMA EntersKnown ==
  ASSUME TypeInv, NEW name \in Names, NEW object \in Objects, NEW isForward \in BOOLEAN,
         EnterFunction(name, object, isForward),
         functionMap[name] # None => object = functionMap[name].decl
  PROVE  KnownStay /\ functionMap'[name] # None /\ functionMap'[name].decl = object
  <1> DEFINE e == [decl |-> object, forward |-> isForward]
  <1>1. e \in Known /\ e.decl = object /\ e # None
    BY NullAssumption DEF Known
  <1>2. functionMap \in [Names -> Known \union {None}]
    BY TypeParts DEF TypeInv
  <1>3. functionMap' = IF functionMap[name] = None \/ functionMap[name].forward
                         THEN [functionMap EXCEPT ![name] = e] ELSE functionMap
    BY DEF EnterFunction
  <1> HIDE DEF e
  <1> QED
    BY <1>1, <1>2, <1>3 DEF KnownStay

(* Each action is such a step: a variable of type int ... *)
LEMMA DeclareIntMaps ==
  ASSUME TypeInv, NEW name \in Names, DeclareInt(name)
  PROVE  MapsStep
  <1> DEFINE new == Object(IntType)
             object == ScopeObject(name, new)
  <1>1. CASE Refuse
    BY <1>1, MapsIdle DEF Refuse, maps
  <1>2. CASE ~Refuse
    <2>1. /\ object # None /\ BindName(name, object, nodes) /\ functionMap' = functionMap
          /\ declarations < MaxDeclarations
      BY <1>2 DEF DeclareInt
    <2>2. new \in Objects /\ new.type = IntType
      BY <2>1, ObjectTyped DEF Types
    <2>3. new.type.kind = "int"
      BY <2>2 DEF IntType
    <2> HIDE DEF new
    <2>4. NewObject(name, object)
      BY <2>1, <2>2, <2>3, NewVariable
    <2>5. declarationMap' = [declarationMap EXCEPT ![name] = BoundStack(name, object)]
      BY <2>1 DEF BindName, BoundStack, Binding
    <2>6. KnownStay
      BY <2>1 DEF KnownStay
    <2> HIDE DEF object
    <2> QED
      BY <2>4, <2>5, <2>6, MapsBind
  <1> QED
    BY <1>1, <1>2

(* (its object, for a struct, has a node that is not open) ... *)
LEMMA DeclareStructNew ==
  ASSUME TypeInv, NEW kind \in {"struct", "pointer"}, NEW name \in Names, NEW tag \in Tags,
         declarations < MaxDeclarations, Len(NodesFor(tag)) <= MaxNodes,
         kind = "struct" => ~Incomplete(NodesFor(tag)[NodeFor(tag)]),
         NEW new, new = Object(StructType(kind, NodeFor(tag)))
  PROVE  /\ new \in Objects /\ new.type.kind = kind /\ new.type.node = NodeFor(tag)
         /\ kind = "struct" => NodeFor(tag) \in DOMAIN nodes /\ ~nodes[NodeFor(tag)].active
  <1> DEFINE type == StructType(kind, NodeFor(tag))
  <1>1. /\ Tree(NodesFor(tag)) /\ NodeFor(tag) \in DOMAIN NodesFor(tag)
        /\ Structs(tag) = <<>> => /\ NodeFor(tag) = Len(nodes) + 1
                                  /\ NodesFor(tag)[Len(nodes) + 1] = ForwardNode
        /\ Structs(tag) # <<>> => NodesFor(tag) = nodes
    BY NodesForTyped
  <1>2. type \in Types
    <2>1. NodeFor(tag) \in NodeIndex
      <3>1. Len(NodesFor(tag)) \in Nat /\ DOMAIN NodesFor(tag) = 1 .. Len(NodesFor(tag))
        BY <1>1 DEF Tree, SemNode
      <3> QED
        BY <1>1, <3>1, Bounds
    <2> QED
      BY <2>1 DEF Types
  <1>3. new \in Objects /\ new.type = type
    BY <1>2, ObjectTyped
  <1>4. ForwardNode.forward
    BY DEF ForwardNode, NewNode
  <1> QED
    BY <1>1, <1>3, <1>4 DEF StructType, Incomplete

(* ... of struct type ... *)
LEMMA DeclareStructMaps ==
  ASSUME TypeInv, NEW kind \in {"struct", "pointer"}, NEW name \in Names, NEW tag \in Tags,
         DeclareStruct(kind, name, tag)
  PROVE  MapsStep
  <1> DEFINE new == Object(StructType(kind, NodeFor(tag)))
             object == ScopeObject(name, new)
  <1>1. CASE Refuse
    BY <1>1, MapsIdle DEF Refuse, maps
  <1>2. CASE ~Refuse
    <2>1. /\ declarations < MaxDeclarations /\ Len(NodesFor(tag)) <= MaxNodes
          /\ object # None
          /\ kind = "struct" => ~Incomplete(NodesFor(tag)[NodeFor(tag)])
          /\ BindName(name, object, NodesFor(tag)) /\ functionMap' = functionMap
      BY <1>2, DeclareStructIs
    <2>2. /\ new \in Objects /\ new.type.kind = kind /\ new.type.node = NodeFor(tag)
          /\ kind = "struct" => NodeFor(tag) \in DOMAIN nodes /\ ~nodes[NodeFor(tag)].active
      BY <2>1, DeclareStructNew
    <2> HIDE DEF new
    <2>3. /\ new.type.kind # "function"
          /\ new.type.kind = "struct" =>
               new.type.node \in DOMAIN nodes /\ ~nodes[new.type.node].active
      BY <2>2
    <2>4. NewObject(name, object)
      BY <2>1, <2>2, <2>3, NewVariable
    <2>5. declarationMap' = [declarationMap EXCEPT ![name] = BoundStack(name, object)]
      BY <2>1 DEF BindName, BoundStack, Binding
    <2>6. KnownStay
      BY <2>1 DEF KnownStay
    <2> HIDE DEF object
    <2> QED
      BY <2>4, <2>5, <2>6, MapsBind
  <1> QED
    BY <1>1, <1>2

(* The first object of a function's name, from FunctionObject. *)
LEMMA FirstIs ==
  ASSUME TypeInv, NEW name \in Names, NEW signature \in Signatures, NEW isForward \in BOOLEAN,
         declarations < MaxDeclarations,
         NEW first, first = FunctionObject(name, FunctionType(signature), isForward),
         first # None, EnterFunction(name, first, isForward),
         ScopeObject(name, first) # None
  PROVE  KnownStay /\ NewObject(name, ScopeObject(name, first))
  <1> DEFINE type == FunctionType(signature)
  <1>1. type \in Types /\ type.kind = "function"
    BY DEF Types, FunctionType
  <1>2. first = FunctionObject(name, type, isForward)
    OBVIOUS
  <1> HIDE DEF type
  <1>3. /\ first \in Objects /\ first.type = type
        /\ functionMap[name] # None => first = functionMap[name].decl
    BY <1>1, <1>2, FunctionObjectIs
  <1>4. KnownStay /\ functionMap'[name] # None /\ functionMap'[name].decl = first
    BY <1>3, EntersKnown
  <1> QED
    BY <1>1, <1>3, <1>4, NewFunction

(* ... a prototype ... *)
LEMMA DeclareFunctionMaps ==
  ASSUME TypeInv, NEW name \in Names, NEW signature \in Signatures,
         DeclareFunction(name, signature)
  PROVE  MapsStep
  <1> DEFINE first == FunctionObject(name, FunctionType(signature), TRUE)
             object == ScopeObject(name, first)
             yes == TRUE
  <1>1. CASE Refuse
    BY <1>1, MapsIdle DEF Refuse, maps
  <1>2. CASE ~Refuse
    <2>1. /\ declarations < MaxDeclarations /\ first # None /\ object # None
          /\ EnterFunction(name, first, TRUE) /\ BindName(name, object, nodes)
      BY <1>2, DeclareFunctionIs
    <2>2. /\ first = FunctionObject(name, FunctionType(signature), yes)
          /\ EnterFunction(name, first, yes) /\ yes \in BOOLEAN
      BY <2>1
    <2> HIDE DEF first, yes
    <2>3. KnownStay /\ NewObject(name, object)
      BY <2>1, <2>2, FirstIs
    <2>4. declarationMap' = [declarationMap EXCEPT ![name] = BoundStack(name, object)]
      BY <2>1 DEF BindName, BoundStack, Binding
    <2> HIDE DEF object
    <2> QED
      BY <2>3, <2>4, MapsBind
  <1> QED
    BY <1>1, <1>2

(* ... the start of a function ... *)
LEMMA BeginFunctionMaps ==
  ASSUME TypeInv, NEW name \in Names, NEW signature \in Signatures, NEW parameter \in Names,
         BeginFunction(name, signature, parameter)
  PROVE  MapsStep
  <1> DEFINE first == FunctionObject(name, FunctionType(signature), FALSE)
             object == ScopeObject(name, first)
             no == FALSE
             body == Len(nodes) + 1
             value == [id |-> declarations + 2, type |-> IntType]
             named == FunctionNamed(name, object)
             below == ParameterBelow(name, parameter, object)
  <1>1. CASE Refuse
    BY <1>1, MapsIdle DEF Refuse, maps
  <1>2. CASE ~Refuse
    <2>1. /\ Len(nodes) < MaxNodes /\ declarations + 2 <= MaxDeclarations
          /\ first # None /\ object # None
          /\ EnterFunction(name, first, FALSE) /\ currentPos' = body
      BY <1>2, BeginFunctionIs
    <2>2. \/ declarationMap' = [named EXCEPT ![parameter] = Push(Binding(body, value), below)]
          \/ declarationMap' = named
      BY <1>2, BeginFunctionIs DEF Binding
    <2>3. /\ first = FunctionObject(name, FunctionType(signature), no)
          /\ EnterFunction(name, first, no) /\ no \in BOOLEAN
      BY <2>1
    <2>4. /\ declarations < MaxDeclarations /\ value \in Objects /\ value.type.kind = "int"
      <3>1. declarations \in Nat /\ declarations + 2 \in 1 .. MaxDeclarations
        BY <2>1, TypeParts, Bounds DEF TypeInv
      <3> QED
        BY <2>1, <3>1, Bounds DEF Objects, Types, IntType
    <2>5. body \notin DOMAIN nodes
      BY TypeParts, Bounds DEF TypeInv, Tree
    <2> HIDE DEF first, no, value
    <2>6. KnownStay /\ NewObject(name, object)
      BY <2>1, <2>3, <2>4, FirstIs
    <2>7. named = [declarationMap EXCEPT ![name] = BoundStack(name, object)]
      BY DEF FunctionNamed, BoundStack, Binding
    <2>8. below = IF parameter = name THEN named[name] ELSE Declared(parameter)
      BY DEF ParameterBelow
    <2> HIDE DEF object, named, body, below
    <2>9. declarationMap \in [Names -> Seq(Declaration(DOMAIN nodes))]
      BY TypeParts DEF TypeInv
    <2>10. Binds(name, named[name])
      BY <2>6, <2>7, <2>9 DEF Binds
    <2>11. below = Declared(parameter) \/ Binds(parameter, below)
      BY <2>8, <2>10
    <2>12. BindsInside(parameter, Push(Binding(body, value), below))
      BY <2>1, <2>4, <2>5, <2>11 DEF BindsInside
    <2>13. /\ DOMAIN named = Names
           /\ \A n \in Names : n # name => named[n] = declarationMap[n]
      BY <2>7, <2>9
    <2>14. ASSUME NEW n \in Names PROVE StackStep(n)
      <3>1. CASE declarationMap' = named
        BY <2>10, <2>13, <3>1 DEF StackStep
      <3>2. CASE declarationMap' = [named EXCEPT ![parameter] = Push(Binding(body, value), below)]
        <4>1. CASE n = parameter
          <5>1. declarationMap'[n] = Push(Binding(body, value), below)
            BY <2>13, <3>2, <4>1
          <5> QED
            BY <2>12, <4>1, <5>1 DEF StackStep
        <4>2. CASE n # parameter
          <5>1. declarationMap'[n] = named[n]
            BY <2>13, <3>2, <4>2
          <5> QED
            BY <2>10, <2>13, <5>1 DEF StackStep
        <4> QED
          BY <4>1, <4>2
      <3> QED
        BY <2>2, <3>1, <3>2
    <2> QED
      BY <2>6, <2>14 DEF MapsStep
  <1> QED
    BY <1>1, <1>2

(* What is left of a scope: its node, no longer active. *)
LEMMA ClosedIs ==
  ASSUME TypeInv, GoUp
  PROVE  /\ DOMAIN nodes' = DOMAIN nodes
         /\ ~nodes'[currentPos].active
         /\ \A k \in DOMAIN nodes : k # currentPos => nodes'[k] = nodes[k]
         /\ \A k \in DOMAIN nodes : /\ nodes'[k].parent = nodes[k].parent
                                    /\ nodes'[k].decl = nodes[k].decl
                                    /\ nodes'[k].insideStruct = nodes[k].insideStruct
  <1>1. nodes \in Seq(SemNode) /\ currentPos \in DOMAIN nodes
    BY TypeParts DEF TypeInv, Tree
  <1>2. nodes[currentPos] \in SemNode
    BY <1>1
  <1> DEFINE x == [nodes[currentPos] EXCEPT !.active = FALSE]
  <1>3. /\ ~x.active /\ x.parent = nodes[currentPos].parent
        /\ x.decl = nodes[currentPos].decl /\ x.insideStruct = nodes[currentPos].insideStruct
    BY <1>2 DEF SemNode
  <1>4. nodes' = [nodes EXCEPT ![currentPos] = x]
    BY DEF GoUp
  <1> HIDE DEF x
  <1> QED
    BY <1>1, <1>3, <1>4

(* ... its end, which looks up its name ... *)
LEMMA EndFunctionMaps == ASSUME TypeInv, EndFunction PROVE MapsStep
  <1> DEFINE name == EndFunctionName
             s == declarationMap[name]
             t == Remaining(s, LiveAfter(s))
  <1>1. CASE Refuse
    BY <1>1, MapsIdle DEF Refuse, maps
  <1>2. CASE ~Refuse
    <2>1. /\ GoUp /\ declarationMap' = [declarationMap EXCEPT ![name] = t]
          /\ functionMap' = functionMap
      BY <1>2, EndFunctionIs
    <2>2. declarationMap \in [Names -> Seq(Declaration(DOMAIN nodes))]
      BY TypeParts DEF TypeInv
    <2>3. ASSUME name \in Names PROVE Trims(s, t)
      <3>1. s \in Seq(Declaration(DOMAIN nodes))
        BY <2>2, <2>3
      <3>2. PICK m : Without(s, m, t) /\ \A i \in 1 .. m : s[i] \notin LiveAfter(s)
        BY <3>1, RemainingIs
      <3>3. ASSUME NEW i \in 1 .. m PROVE ~nodes'[s[i].pos].active
        <4>1. i \in DOMAIN s /\ s[i] \in Declaration(DOMAIN nodes)
          BY <3>1, <3>2 DEF Without
        <4>2. s[i].pos \in DOMAIN nodes /\ (s[i].pos = currentPos \/ ~Active(s[i].pos))
          BY <3>2, <4>1 DEF LiveAfter, Declaration
        <4>3. s[i].pos # None
          BY <4>2, TypeParts, Bounds DEF TypeInv, Tree
        <4> QED
          BY <2>1, <4>2, <4>3, ClosedIs DEF Active
      <3> QED
        BY <3>2, <3>3 DEF Trims
    <2> HIDE DEF t
    <2>4. \A n \in Names : declarationMap'[n] = IF n = name THEN t ELSE declarationMap[n]
      BY <2>1, <2>2
    <2> QED
      BY <2>1, <2>3, <2>4 DEF MapsStep, KnownStay, StackStep
  <1> QED
    BY <1>1, <1>2

(* ... the use of a name ... *)
LEMMA LookUpMaps == ASSUME TypeInv, NEW name \in Names, LookUpType(name) PROVE MapsStep
  <1> DEFINE s == declarationMap[name]
             t == Declared(name)
  <1>1. CASE Refuse
    BY <1>1, MapsIdle DEF Refuse, maps
  <1>2. CASE ~Refuse
    <2>1. /\ nodes' = nodes /\ declarationMap' = [declarationMap EXCEPT ![name] = t]
          /\ functionMap' = functionMap
      BY <1>2 DEF LookUpType, tree
    <2>2. declarationMap \in [Names -> Seq(Declaration(DOMAIN nodes))]
      BY TypeParts DEF TypeInv
    <2>3. PICK m : Without(s, m, t) /\ \A i \in 1 .. m : ~Active(s[i].pos)
      BY DeclaredIs
    <2>4. ASSUME NEW i \in 1 .. m PROVE ~nodes'[s[i].pos].active
      <3>1. s \in Seq(Declaration(DOMAIN nodes)) /\ i \in DOMAIN s
        BY <2>2, <2>3 DEF Without
      <3>2. s[i] \in Declaration(DOMAIN nodes)
        BY <3>1
      <3>3. s[i].pos # None
        BY <3>2, TypeParts, Bounds DEF TypeInv, Tree, Declaration
      <3> QED
        BY <2>1, <2>3, <3>3 DEF Active
    <2> HIDE DEF t
    <2>5. Trims(s, t)
      BY <2>3, <2>4 DEF Trims
    <2>6. \A n \in Names : declarationMap'[n] = IF n = name THEN t ELSE declarationMap[n]
      BY <2>1, <2>2
    <2> QED
      BY <2>1, <2>5, <2>6 DEF MapsStep, KnownStay, StackStep
  <1> QED
    BY <1>1, <1>2

(* ... and whatever else happens. *)
LEMMA MapsSteps == TypeInv /\ [Next]_vars => MapsStep
  <1> SUFFICES ASSUME TypeInv, [Next]_vars PROVE MapsStep
    OBVIOUS
  <1>1. CASE UNCHANGED vars
    BY <1>1, MapsIdle DEF vars, maps
  <1>2. ASSUME NEW name \in Names, DeclareInt(name) PROVE MapsStep
    BY <1>2, DeclareIntMaps
  <1>3. ASSUME NEW name \in Names, NEW tag \in Tags, NEW kind \in {"struct", "pointer"},
               DeclareStruct(kind, name, tag)
        PROVE  MapsStep
    BY <1>3, DeclareStructMaps
  <1>4. ASSUME NEW name \in Names, NEW s \in Signatures, DeclareFunction(name, s)
        PROVE  MapsStep
    BY <1>4, DeclareFunctionMaps
  <1>5. ASSUME NEW name \in Names, NEW s \in Signatures, NEW parameter \in Names,
               BeginFunction(name, s, parameter)
        PROVE  MapsStep
    BY <1>5, BeginFunctionMaps
  <1>6. ASSUME NEW name \in Names, LookUpType(name) PROVE MapsStep
    BY <1>6, LookUpMaps
  <1>7. ASSUME NEW tag \in Tags, BeginStruct(tag) PROVE MapsStep
    BY <1>7, MapsIdle DEF BeginStruct, Refuse, maps
  <1>8. ASSUME NEW l \in Labels, AddLabel(l) \/ AddGotoLabel(l) PROVE MapsStep
    BY <1>8, MapsIdle DEF AddLabel, AddGotoLabel, Refuse, maps
  <1>9. CASE BeginBlock \/ EndScope \/ IncreaseLoopDepth \/ DecreaseLoopDepth \/ JumpOutsideLoop
    BY <1>9, MapsIdle DEF BeginBlock, EndScope, IncreaseLoopDepth, DecreaseLoopDepth,
       JumpOutsideLoop, Refuse, maps
  <1> QED
    BY <1>1, <1>2, <1>3, <1>4, <1>5, <1>6, <1>7, <1>8, <1>9, EndFunctionMaps DEF Next

-----------------------------------------------------------------------------
(* One object per function.                                                *)

Single(n, o) == o.type.kind = "function" => functionMap[n] # None /\ functionMap[n].decl = o

NameSingle(n) == \A k \in DOMAIN declarationMap[n] : Single(n, declarationMap[n][k].decl)
AllSingle == \A n \in Names : NameSingle(n)

(* The invariant is the property, entry by entry. *)
LEMMA SingleIs == AllSingle <=> OneObjectPerFunction
  BY DEF AllSingle, NameSingle, Single, OneObjectPerFunction

(* The maps have their types. *)
LEMMA TypedMaps == TypeInv => MapsTyped
  BY TypeParts DEF TypeInv, MapsTyped

(* Whatever happens to the stack of a name, its entries keep their object  *)
(* and a new entry has that of the function map.                           *)
LEMMA SingleStack ==
  ASSUME TypeInv, TypeInv', MapsStep, AllSingle, NEW n \in Names
  PROVE  NameSingle(n)'
  <1> DEFINE s == declarationMap[n]
             d == Declared(n)
             Good(o) == o.type.kind = "function" => functionMap'[n] # None /\ functionMap'[n].decl = o
             AllGood(t) == \A k \in DOMAIN t : Good(t[k].decl)
             S == Declaration(DOMAIN nodes)
  <1>1. KnownStay /\ StackStep(n)
    BY DEF MapsStep
  <1>2. s \in Seq(S) /\ d \in Seq(S)
    BY DeclaredIs
  <1>3. AllGood(s)
    <2>1. ASSUME NEW k \in DOMAIN s, s[k].decl.type.kind = "function"
          PROVE  functionMap'[n] # None /\ functionMap'[n].decl = s[k].decl
      <3>1. functionMap[n] # None /\ functionMap[n].decl = s[k].decl
        BY <2>1 DEF AllSingle, NameSingle, Single
      <3> QED
        BY <1>1, <3>1 DEF KnownStay
    <2> QED
      BY <2>1
  <1>4. ASSUME NEW m, NEW T, NEW t \in Seq(T), Without(s, m, t) PROVE AllGood(t)
    <2> HIDE DEF Good, s, d, S
    <2>2. /\ DOMAIN t = 1 .. Len(t) /\ Len(t) \in Nat /\ m \in 0 .. Len(s)
          /\ DOMAIN s = 1 .. Len(s) /\ Len(s) \in Nat /\ Len(t) = Len(s) - m
      BY <1>2, <1>4 DEF Without
    <2>1. ASSUME NEW k \in DOMAIN t PROVE t[k] = s[k + m] /\ k + m \in DOMAIN s
      <3>1. t[k] = s[k + m]
        BY <1>4, <2>2 DEF Without
      <3>2. k + m \in 1 .. Len(s)
        BY <2>2
      <3> QED
        BY <2>2, <3>1, <3>2
    <2> QED
      BY <1>3, <2>1
  <1>5. AllGood(d)
    <2>1. PICK m : Without(s, m, d)
      BY DeclaredIs
    <2> HIDE DEF AllGood, s, d
    <2> QED
      BY <1>2, <1>4, <2>1
  <1>6. ASSUME NEW p, NEW o, Good(o), NEW u \in Seq([pos : DOMAIN nodes \union {p}, decl : Objects]),
               o \in Objects, AllGood(u)
        PROVE  AllGood(Push(Binding(p, o), u))
    <2> DEFINE e == Binding(p, o)
               D == [pos : DOMAIN nodes \union {p}, decl : Objects]
    <2>1. e \in D /\ e.decl = o
      BY <1>6 DEF Binding
    <2> HIDE DEF e, D
    <2>2. u \in Seq(D) /\ Len(u) \in Nat /\ DOMAIN u = 1 .. Len(u)
      BY <1>6 DEF D
    <2>3. /\ DOMAIN Push(e, u) = 1 .. Len(u) + 1
          /\ Push(e, u)[1] = e
          /\ \A k \in 2 .. Len(u) + 1 : Push(e, u)[k] = u[k - 1]
      BY <2>1, <2>2, PushIs
    <2>4. ASSUME NEW k \in DOMAIN Push(e, u) PROVE Good(Push(e, u)[k].decl)
      <3>1. CASE k = 1
        BY <1>6, <2>1, <2>3, <3>1
      <3>2. CASE k # 1
        <4>1. k \in 2 .. Len(u) + 1 /\ k - 1 \in DOMAIN u
          BY <2>2, <2>3, <3>2
        <4> HIDE DEF Good
        <4> QED
          BY <1>6, <2>3, <4>1
      <3> QED
        BY <3>1, <3>2
    <2> QED
      BY <2>4 DEF e
  <1>7. ASSUME NEW t, Binds(n, t) PROVE AllGood(t) /\ t \in Seq(S)
    <2>1. PICK o : NewObject(n, o) /\ t = BoundStack(n, o)
      BY <1>7 DEF Binds
    <2>2. o \in Objects
      BY <2>1 DEF NewObject
    <2>3. Good(o)
      <3>1. CASE d # <<>> /\ Top(d).pos = currentPos
        <4>1. PICK k \in DOMAIN s : s[k] = Top(d)
          BY <3>1, DeclaredTop
        <4>2. o = s[k].decl
          BY <2>1, <3>1, <4>1 DEF NewObject
        <4> HIDE DEF Good
        <4> QED
          BY <1>3, <4>2
      <3>2. CASE ~(d # <<>> /\ Top(d).pos = currentPos)
        BY <2>1, <3>2 DEF NewObject
      <3> QED
        BY <3>1, <3>2
    <2>4. currentPos \in DOMAIN nodes /\ DOMAIN nodes \union {currentPos} = DOMAIN nodes
      BY TypeParts DEF TypeInv
    <2>5. d \in Seq([pos : DOMAIN nodes \union {currentPos}, decl : Objects])
      BY <1>2, <2>4 DEF Declaration
    <2>6. t = Push(Binding(currentPos, o), d)
      BY <2>1 DEF BoundStack
    <2>7. Binding(currentPos, o) \in S
      BY <2>2, <2>4 DEF Binding, Declaration
    <2> HIDE DEF Good, d, AllGood, S
    <2>8. t \in Seq(S)
      BY <1>2, <2>6, <2>7, PushIs
    <2> QED
      BY <1>5, <1>6, <2>2, <2>3, <2>5, <2>6, <2>8
  <1>8. ASSUME NEW t, BindsInside(n, t) PROVE AllGood(t)
    <2>1. PICK v, u : /\ v \in Objects /\ v.type.kind = "int"
                      /\ t = Push(Binding(currentPos', v), u)
                      /\ u = d \/ Binds(n, u)
      BY <1>8 DEF BindsInside
    <2>2. Good(v)
      BY <2>1
    <2> HIDE DEF d, Good, AllGood
    <2>3. AllGood(u) /\ u \in Seq(S)
      BY <1>2, <1>5, <1>7, <2>1
    <2>4. u \in Seq([pos : DOMAIN nodes \union {currentPos'}, decl : Objects])
      <3> DEFINE N == DOMAIN nodes
                 M == DOMAIN nodes \union {currentPos'}
      <3>1. u \in Seq(Declaration(N)) /\ N \in SUBSET M
        BY <2>3
      <3> HIDE DEF N, M
      <3>2. u \in Seq(Declaration(M))
        BY <3>1, Widen
      <3> QED
        BY <3>2 DEF M, Declaration
    <2> QED
      BY <1>6, <2>1, <2>2, <2>3, <2>4
  <1> DEFINE t == declarationMap'[n]
  <1>9. ASSUME Trims(s, t) PROVE AllGood(t)
    <2>1. declarationMap' \in [Names -> Seq(Declaration(DOMAIN nodes'))]
      <3>1. MapsTyped'
        BY TypedMaps, PTL
      <3> QED
        BY <3>1 DEF MapsTyped
    <2>2. t \in Seq(Declaration(DOMAIN nodes'))
      BY <2>1
    <2> HIDE DEF AllGood, t, s
    <2> QED
      BY <1>4, <1>9, <2>2 DEF Trims
  <1>10. AllGood(t)
    <2>1. t = s \/ Trims(s, t) \/ Binds(n, t) \/ BindsInside(n, t)
      BY <1>1 DEF StackStep
    <2> HIDE DEF AllGood, s, t
    <2> QED
      BY <1>3, <1>7, <1>8, <1>9, <2>1
  <1> QED
    BY <1>10 DEF Single, NameSingle

(* No entries, nothing to compare ... *)
LEMMA SingleInit == Init => AllSingle
  BY DEF Init, AllSingle, NameSingle

(* ... and every step keeps it. *)
LEMMA SingleStep == TypeInv /\ AllSingle /\ [Next]_vars => AllSingle'
  <1> SUFFICES ASSUME TypeInv, AllSingle, [Next]_vars PROVE AllSingle'
    OBVIOUS
  <1>1. TypeInv' /\ MapsStep
    BY TypeStep, MapsSteps
  <1> QED
    BY <1>1, SingleStack DEF AllSingle

(***************************************************************************)
(* Every declaration of a function, at file scope or in a block, a         *)
(* prototype or the definition, is bound to the object that functionMap    *)
(* has under its name (addDeclaration, semantic.cc:151).                   *)
(***************************************************************************)
THEOREM FunctionsAreOneObject == Spec => []OneObjectPerFunction
  <1>1. AllSingle => OneObjectPerFunction
    BY SingleIs
  <1> QED
    BY <1>1, TypeAlways, SingleInit, SingleStep, PTL DEF Spec

-----------------------------------------------------------------------------
(* The nodes of the open scopes.  From here on no struct is defined in the *)
(* scope of its forward declaration.                                       *)

(* An inner construct has a younger node than those around it. *)
Falling ==
  /\ \A k \in DOMAIN open : open[k].kind # "loop" => open[k].node # Root
  /\ \A i, j \in DOMAIN open : i < j =>
       /\ open[j].node <= open[i].node
       /\ open[i].kind # "loop" => open[j].node # open[i].node

(* Active nodes are those of the open scopes. *)
ActiveIsOpen == \A k \in DOMAIN nodes : nodes[k].active <=> k \in OpenNodes

ScopeInv == TypeInv /\ Falling /\ ActiveIsOpen

(* What a step does to the nodes and the open constructs. *)
Keeps == /\ open' = open /\ currentPos' = currentPos
         /\ DOMAIN nodes \subseteq DOMAIN nodes' /\ SameMarks(nodes, nodes')
         /\ \A k \in DOMAIN nodes' : k \notin DOMAIN nodes => ~nodes'[k].active
Loops_ == /\ nodes' = nodes /\ currentPos' = currentPos
          /\ \/ open' = <<[kind |-> "loop", node |-> currentPos]>> \o open
             \/ open # <<>> /\ Head(open).kind = "loop" /\ open' = Tail(open)
OpensScope(kind) == /\ open' = <<[kind |-> kind, node |-> Len(nodes) + 1]>> \o open
                    /\ currentPos' = Len(nodes) + 1
                    /\ DOMAIN nodes' = 1 .. Len(nodes) + 1 /\ SameMarks(nodes, nodes')
                    /\ nodes'[Len(nodes) + 1].active
ClosesScope == open # <<>> /\ Head(open).kind # "loop" /\ GoUp

ShapeStep == \/ Keeps \/ Loops_
             \/ \E kind \in {"function", "block", "struct"} : OpensScope(kind)
             \/ ClosesScope

(* The open nodes: the root, the current one and those between. *)
LEMMA OpenNodesTyped ==
  ASSUME TypeInv
  PROVE  /\ OpenNodes \subseteq DOMAIN nodes /\ Root \in OpenNodes
         /\ currentPos \in OpenNodes /\ IsFiniteSet(OpenNodes)
         /\ DOMAIN nodes = 1 .. Len(nodes) /\ Len(nodes) \in Nat
         /\ OpenNodes \in SUBSET Nat
         /\ \A k \in DOMAIN open : open[k] \in Construct(DOMAIN nodes) /\ open[k].node \in OpenNodes
         /\ Root = 1
  <1>1. /\ Len(open) \in Nat /\ DOMAIN open = 1 .. Len(open)
        /\ \A k \in DOMAIN open : open[k] \in Construct(DOMAIN nodes)
    BY OpenFacts
  <1>2. DOMAIN nodes = 1 .. Len(nodes) /\ Len(nodes) \in NodeIndex /\ Len(nodes) \in Nat
    BY TypeParts, Bounds DEF TypeInv, Tree
  <1>3. Root \in DOMAIN nodes
    BY <1>2, Bounds DEF Root
  <1>4. OpenNodes \subseteq DOMAIN nodes
    BY <1>1, <1>3 DEF OpenNodes, Construct
  <1>5. currentPos \in OpenNodes
    <2>1. currentPos = Around(1)
      BY DEF TypeInv, Nested
    <2> QED
      BY <1>1, <2>1 DEF Around, OpenNodes
  <1>6. IsFiniteSet(OpenNodes)
    <2>1. IsFiniteSet(1 .. Len(nodes))
      BY <1>2, FS_Interval
    <2> QED
      BY <1>2, <1>4, <2>1, FS_Subset
  <1> QED
    BY <1>1, <1>2, <1>4, <1>5, <1>6 DEF OpenNodes, Root

(* Declarations go to the innermost scope. *)
LEMMA CurrentIsLast ==
  ASSUME TypeInv, Falling
  PROVE  \A p \in OpenNodes : p <= currentPos
  <1>1. /\ currentPos = Around(1) /\ Len(open) \in Nat /\ DOMAIN open = 1 .. Len(open)
    BY OpenFacts DEF TypeInv, Nested
  <1>2. /\ OpenNodes \in SUBSET Nat /\ currentPos \in DOMAIN nodes /\ DOMAIN nodes = 1 .. Len(nodes)
        /\ currentPos \in OpenNodes
    BY OpenNodesTyped
  <1>3. ASSUME NEW k \in DOMAIN open PROVE open[k].node <= currentPos
    <2>1. currentPos = open[1].node /\ 1 \in DOMAIN open
      BY <1>1 DEF Around
    <2>2. currentPos <= currentPos
      BY <1>2
    <2> QED
      BY <1>1, <2>1, <2>2 DEF Falling
  <1>4. Root <= currentPos
    BY <1>2 DEF Root
  <1> QED
    BY <1>3, <1>4 DEF OpenNodes

(* Entering a scope adds the youngest node to them ... *)
LEMMA OpenPush ==
  ASSUME TypeInv, Falling, NEW kind \in {"function", "block", "struct", "loop"},
         NEW node \in Nat, open' = <<[kind |-> kind, node |-> node]>> \o open,
         IF kind = "loop" THEN node = currentPos ELSE \A p \in OpenNodes : p < node
  PROVE  Falling' /\ OpenNodes' = OpenNodes \union {node}
  <1> DEFINE o == [kind |-> kind, node |-> node]
             D == Construct(Nat)
  <1>1. open \in Seq(D) /\ Len(open) \in Nat /\ DOMAIN open = 1 .. Len(open)
    <2> DEFINE N == DOMAIN nodes
    <2>1. open \in Seq(Construct(N)) /\ N \in SUBSET Nat
      BY OpenFacts, OpenNodesTyped
    <2> HIDE DEF N
    <2>2. open \in Seq(D)
      BY <2>1, Widen
    <2> QED
      BY <2>2, OpenFacts
  <1>2. /\ DOMAIN open' = 1 .. Len(open) + 1 /\ open'[1] = o
        /\ \A k \in 2 .. Len(open) + 1 : open'[k] = open[k - 1]
        /\ \A k \in 1 .. Len(open) : open'[k + 1] = open[k]
    <2>1. o \in D
      BY DEF Construct
    <2> HIDE DEF D, o
    <2> QED
      BY <1>1, <2>1, PushIs DEF Push, o
  <1>3. o.kind = kind /\ o.node = node
    OBVIOUS
  <1> HIDE DEF o
  <1>4. \A k \in DOMAIN open : open[k].node \in OpenNodes /\ open[k].node <= node
                               /\ (kind # "loop" => open[k].node # node)
    <2>1. \A k \in DOMAIN open : open[k].node \in OpenNodes
      BY OpenNodesTyped
    <2>2. \A p \in OpenNodes : p \in Nat /\ p <= currentPos
      BY OpenNodesTyped, CurrentIsLast
    <2> QED
      BY <2>1, <2>2
  <1>5. OpenNodes' = OpenNodes \union {node}
    <2>1. \A k \in 1 .. Len(open) + 1 : k = 1 \/ (k \in 2 .. Len(open) + 1 /\ k - 1 \in 1 .. Len(open))
      BY <1>1
    <2>2. \A k \in 1 .. Len(open) : k + 1 \in 1 .. Len(open) + 1
      BY <1>1
    <2>3. 1 \in 1 .. Len(open) + 1
      BY <1>1
    <2>4. {open'[k].node : k \in DOMAIN open'} = {open[k].node : k \in DOMAIN open} \union {node}
      <3>1. \A k \in DOMAIN open' : open'[k].node \in {open[i].node : i \in DOMAIN open} \union {node}
        BY <1>1, <1>2, <1>3, <2>1
      <3>2. \A i \in DOMAIN open : open[i].node \in {open'[k].node : k \in DOMAIN open'}
        BY <1>1, <1>2, <2>2
      <3>3. node \in {open'[k].node : k \in DOMAIN open'}
        BY <1>2, <1>3, <2>3
      <3> QED
        BY <3>1, <3>2, <3>3
    <2> QED
      BY <2>4 DEF OpenNodes
  <1>6. Falling'
    <2>1. ASSUME NEW k \in DOMAIN open', open'[k].kind # "loop" PROVE open'[k].node # Root
      <3>1. CASE k = 1
        BY <1>2, <1>3, <2>1, <3>1, OpenNodesTyped
      <3>2. CASE k # 1
        <4>1. k - 1 \in DOMAIN open /\ open'[k] = open[k - 1]
          BY <1>1, <1>2, <3>2
        <4> QED
          BY <2>1, <4>1 DEF Falling
      <3> QED
        BY <3>1, <3>2
    <2>2. ASSUME NEW i \in DOMAIN open', NEW j \in DOMAIN open', i < j
          PROVE  /\ open'[j].node <= open'[i].node
                 /\ open'[i].kind # "loop" => open'[j].node # open'[i].node
      <3>1. j - 1 \in DOMAIN open /\ open'[j] = open[j - 1] /\ j - 1 \in Nat
        BY <1>1, <1>2, <2>2
      <3>2. CASE i = 1
        BY <1>2, <1>3, <1>4, <3>1, <3>2
      <3>3. CASE i # 1
        <4>1. i - 1 \in DOMAIN open /\ open'[i] = open[i - 1] /\ i - 1 < j - 1
          BY <1>1, <1>2, <2>2, <3>3
        <4> QED
          BY <3>1, <4>1 DEF Falling
      <3> QED
        BY <3>2, <3>3
    <2> QED
      BY <2>1, <2>2 DEF Falling
  <1> QED
    BY <1>5, <1>6

(* ... and leaving it takes that node away. *)
LEMMA OpenPop ==
  ASSUME TypeInv, Falling, open # <<>>, open' = Tail(open)
  PROVE  /\ Falling'
         /\ OpenNodes' = IF Head(open).kind = "loop" THEN OpenNodes ELSE OpenNodes \ {currentPos}
  <1>1. /\ open \in Seq(Construct(DOMAIN nodes)) /\ Len(open) \in Nat
        /\ DOMAIN open = 1 .. Len(open) /\ open[1] = Head(open) /\ Head(open).node = currentPos
        /\ 1 \in DOMAIN open
    BY OpenFacts
  <1>2. /\ DOMAIN open' = 1 .. Len(open) - 1
        /\ \A k \in 1 .. Len(open) - 1 : open'[k] = open[k + 1]
    BY <1>1
  <1>3. \A k \in DOMAIN open' : k + 1 \in DOMAIN open /\ open'[k] = open[k + 1] /\ k + 1 > 1
    BY <1>1, <1>2
  <1>4. Falling'
    <2>1. \A i, j \in DOMAIN open' : i < j => i + 1 < j + 1
      BY <1>1, <1>2
    <2> QED
      BY <1>3, <2>1 DEF Falling
  <1>5. OpenNodes = OpenNodes' \union {currentPos}
    <2>1. \A k \in DOMAIN open : k = 1 \/ (k - 1 \in DOMAIN open' /\ open'[k - 1] = open[k])
      BY <1>1, <1>2
    <2>2. OpenNodes \subseteq OpenNodes' \union {currentPos}
      <3>1. \A k \in DOMAIN open : open[k].node \in OpenNodes' \union {currentPos}
        BY <1>1, <2>1 DEF OpenNodes
      <3> QED
        BY <3>1 DEF OpenNodes
    <2>3. OpenNodes' \union {currentPos} \subseteq OpenNodes
      BY <1>1, <1>3 DEF OpenNodes
    <2> QED
      BY <2>2, <2>3
  <1>6. CASE Head(open).kind = "loop"
    <2>1. currentPos = Around(2)
      BY <1>6, OpenFacts
    <2>2. currentPos \in OpenNodes'
      <3>1. CASE 2 <= Len(open)
        <4>1. 1 \in DOMAIN open' /\ open'[1] = open[2] /\ currentPos = open[2].node
          BY <1>1, <1>2, <2>1, <3>1 DEF Around
        <4> QED
          BY <4>1 DEF OpenNodes
      <3>2. CASE ~(2 <= Len(open))
        BY <2>1, <3>2 DEF Around, OpenNodes
      <3> QED
        BY <3>1, <3>2
    <2> QED
      BY <1>4, <1>5, <1>6, <2>2
  <1>7. CASE Head(open).kind # "loop"
    <2>1. currentPos # Root
      BY <1>1, <1>7 DEF Falling
    <2>2. \A k \in DOMAIN open' : open'[k].node # currentPos
      BY <1>1, <1>3, <1>7 DEF Falling
    <2>3. currentPos \notin OpenNodes'
      BY <2>1, <2>2 DEF OpenNodes
    <2> QED
      BY <1>4, <1>5, <1>7, <2>3
  <1> QED
    BY <1>6, <1>7

(* The open scopes stay, a new one is opened or the innermost one closed. *)
Grown   == /\ currentPos' = Len(nodes) + 1 /\ OpenNodes' = OpenNodes \union {Len(nodes) + 1}
           /\ DOMAIN nodes' = 1 .. Len(nodes) + 1
Shrunk  == /\ OpenNodes' = OpenNodes \ {currentPos} /\ currentPos # Root
           /\ DOMAIN nodes' = DOMAIN nodes
Settled == OpenNodes' = OpenNodes /\ currentPos' = currentPos

(* The nodes that are active are still the open ones. *)
LEMMA ScopeStep ==
  ASSUME ScopeInv, TypeInv', ShapeStep
  PROVE  ScopeInv' /\ (Grown \/ Shrunk \/ Settled)
  <1>1. TypeInv /\ Falling /\ ActiveIsOpen
    BY DEF ScopeInv
  <1>2. /\ OpenNodes \subseteq DOMAIN nodes /\ currentPos \in OpenNodes
        /\ DOMAIN nodes = 1 .. Len(nodes) /\ Len(nodes) \in Nat
    BY <1>1, OpenNodesTyped
  <1>3. CASE Keeps
    <2>1. Falling' /\ OpenNodes' = OpenNodes
      BY <1>1, <1>3 DEF Keeps, Falling, OpenNodes
    <2>2. ActiveIsOpen'
      BY <1>1, <1>2, <1>3, <2>1 DEF Keeps, ActiveIsOpen, SameMarks
    <2> QED
      BY <1>3, <2>1, <2>2 DEF ScopeInv, Settled, Keeps
  <1>4. CASE Loops_
    <2>1. Falling' /\ OpenNodes' = OpenNodes
      <3>1. CASE open' = <<[kind |-> "loop", node |-> currentPos]>> \o open
        <4>1. Falling' /\ OpenNodes' = OpenNodes \union {currentPos}
          <5> DEFINE kind == "loop"
          <5>1. /\ open' = <<[kind |-> kind, node |-> currentPos]>> \o open
                /\ currentPos \in Nat /\ kind \in {"function", "block", "struct", "loop"}
                /\ IF kind = "loop" THEN currentPos = currentPos ELSE \A p \in OpenNodes : p < currentPos
            BY <1>2, <3>1
          <5> HIDE DEF kind
          <5> QED
            BY <1>1, <5>1, OpenPush
        <4> QED
          BY <1>2, <4>1
      <3>2. CASE open # <<>> /\ Head(open).kind = "loop" /\ open' = Tail(open)
        BY <1>1, <3>2, OpenPop
      <3> QED
        BY <1>4, <3>1, <3>2 DEF Loops_
    <2>2. ActiveIsOpen'
      BY <1>1, <1>4, <2>1 DEF Loops_, ActiveIsOpen
    <2> QED
      BY <1>4, <2>1, <2>2 DEF ScopeInv, Settled, Loops_
  <1>5. ASSUME NEW kind \in {"function", "block", "struct"}, OpensScope(kind)
        PROVE  ScopeInv' /\ Grown
    <2> DEFINE node == Len(nodes) + 1
    <2>1. /\ open' = <<[kind |-> kind, node |-> node]>> \o open /\ node \in Nat
          /\ IF kind = "loop" THEN node = currentPos ELSE \A p \in OpenNodes : p < node
      BY <1>2, <1>5 DEF OpensScope
    <2>2. Falling' /\ OpenNodes' = OpenNodes \union {node}
      <3> HIDE DEF node
      <3> QED
        BY <1>1, <2>1, OpenPush
    <2>3. Grown
      BY <1>5, <2>2 DEF Grown, OpensScope
    <2>4. ActiveIsOpen'
      <3>1. \A k \in DOMAIN nodes' : k = node \/ k \in DOMAIN nodes
        BY <1>2, <1>5 DEF OpensScope
      <3>2. \A k \in DOMAIN nodes : nodes'[k].active = nodes[k].active /\ k # node
        BY <1>2, <1>5 DEF OpensScope, SameMarks
      <3>3. nodes'[node].active
        BY <1>5 DEF OpensScope
      <3> QED
        BY <1>1, <2>2, <3>1, <3>2, <3>3 DEF ActiveIsOpen
    <2> QED
      BY <2>2, <2>3, <2>4 DEF ScopeInv
  <1>6. CASE ClosesScope
    <2>1. open # <<>> /\ Head(open).kind # "loop" /\ GoUp /\ open' = Tail(open)
      BY <1>6 DEF ClosesScope, GoUp
    <2>2. Falling' /\ OpenNodes' = OpenNodes \ {currentPos}
      BY <1>1, <2>1, OpenPop
    <2>3. /\ DOMAIN nodes' = DOMAIN nodes /\ ~nodes'[currentPos].active
          /\ \A k \in DOMAIN nodes : k # currentPos => nodes'[k] = nodes[k]
      BY <1>1, <2>1, ClosedIs
    <2>4. ActiveIsOpen'
      BY <1>1, <2>2, <2>3 DEF ActiveIsOpen
    <2>5. currentPos # Root
      BY <1>1, <2>1, OpenFacts DEF Falling
    <2> QED
      BY <2>2, <2>3, <2>4, <2>5 DEF ScopeInv, Shrunk
  <1> QED
    BY <1>3, <1>4, <1>5, <1>6 DEF ShapeStep

-----------------------------------------------------------------------------
(* What a step does to the nodes.                                          *)

WithDecl(d, name, object) == [d EXCEPT ![name] = object]

(* A declaration changes one node, at one name. *)
LEMMA NamedDecl ==
  ASSUME NEW ns, Tree(ns), NEW p \in DOMAIN ns, NEW name \in Names, NEW object \in Objects,
         NEW ms, ms = Named(ns, p, name, object)
  PROVE  /\ DOMAIN ms = DOMAIN ns
         /\ \A n \in DOMAIN ns : n # p => ms[n] = ns[n]
         /\ ms[p].decl = WithDecl(ns[p].decl, name, object)
  <1>1. ns \in Seq(SemNode) /\ Len(ns) \in NodeIndex
    BY DEF Tree
  <1>2. ns[p] \in SemNode
    BY <1>1
  <1> DEFINE x == [ns[p] EXCEPT !.decl[name] = object]
  <1>3. x.decl = WithDecl(ns[p].decl, name, object)
    BY <1>2 DEF SemNode, WithDecl
  <1>4. ms = [ns EXCEPT ![p] = x]
    BY DEF Named
  <1> HIDE DEF x
  <1> QED
    BY <1>1, <1>3, <1>4

(* It binds that name and leaves the others. *)
LEMMA WithDeclIs ==
  ASSUME NEW d \in [Names -> Objects \union {None}], NEW name \in Names, NEW object
  PROVE  \A n \in Names : WithDecl(d, name, object)[n] = IF n = name THEN object ELSE d[n]
  BY DEF WithDecl

(* A member of a new node is the parameter of a function; an old node      *)
(* keeps its members, only the current one may gain one.                   *)
Gains == \E n \in Names : \E o :
           /\ NewObject(n, o)
           /\ nodes'[currentPos].decl = WithDecl(nodes[currentPos].decl, n, o)
NewMembers(k) == \A n \in Names : \/ nodes'[k].decl[n] = None
                                  \/ nodes'[k].decl[n].type.kind = "int"
NodesStep ==
  /\ DOMAIN nodes \subseteq DOMAIN nodes'
  /\ \A k \in DOMAIN nodes : /\ nodes'[k].parent = nodes[k].parent
                             /\ nodes'[k].insideStruct = nodes[k].insideStruct
                             /\ nodes'[k].decl = nodes[k].decl \/ (k = currentPos /\ Gains)
  /\ \A k \in DOMAIN nodes' : k \notin DOMAIN nodes => NewMembers(k)

(* Nodes that stay are the simplest case ... *)
LEMMA NodesIdle == nodes' = nodes => NodesStep
  BY DEF NodesStep

(* ... and so is a position that stays. *)
LEMMA ShapeIdle == UNCHANGED <<nodes, open, currentPos>> => ShapeStep
  <1> SUFFICES ASSUME UNCHANGED <<nodes, open, currentPos>> PROVE Keeps
    BY DEF ShapeStep
  <1> QED
    BY DEF Keeps, SameMarks

(* Binding a name in the current scope is such a step. *)
LEMMA BindNodes ==
  ASSUME TypeInv, NEW name \in Names, NEW object, NewObject(name, object), NEW all,
         Tree(all), DOMAIN nodes \subseteq DOMAIN all, SameNodes(nodes, all),
         \A k \in DOMAIN all : k \notin DOMAIN nodes =>
           ~all[k].active /\ all[k].decl = [n \in Names |-> None],
         BindName(name, object, all), UNCHANGED <<open, currentPos>>
  PROVE  NodesStep /\ ShapeStep
  <1> DEFINE ms == nodes'
  <1>1. currentPos \in DOMAIN nodes /\ currentPos \in DOMAIN all /\ object \in Objects
    BY TypeParts DEF TypeInv, NewObject
  <1>2. ms = Named(all, currentPos, name, object)
    BY DEF BindName, Named
  <1> HIDE DEF ms
  <1>3. /\ Tree(ms) /\ SameParents(all, ms) /\ SameMarks(all, ms)
    BY <1>1, <1>2, TreeNames
  <1>4. /\ DOMAIN ms = DOMAIN all
        /\ \A n \in DOMAIN all : n # currentPos => ms[n] = all[n]
        /\ ms[currentPos].decl = WithDecl(all[currentPos].decl, name, object)
    BY <1>1, <1>2, NamedDecl
  <1>5. Gains
    BY <1>1, <1>4 DEF Gains, ms, SameNodes
  <1>6. \A k \in DOMAIN nodes : /\ ms[k].parent = nodes[k].parent
                                /\ ms[k].insideStruct = nodes[k].insideStruct
                                /\ ms[k].decl = nodes[k].decl \/ (k = currentPos /\ Gains)
    BY <1>3, <1>4, <1>5 DEF SameNodes, SameParents, SameMarks
  <1>7. \A k \in DOMAIN ms : k \notin DOMAIN nodes => ms[k] = all[k]
    BY <1>1, <1>4
  <1>8. NodesStep
    BY <1>4, <1>6, <1>7 DEF NodesStep, NewMembers, ms
  <1>9. Keeps
    BY <1>3, <1>4, <1>7 DEF Keeps, ms, SameNodes, SameMarks
  <1> QED
    BY <1>8, <1>9 DEF ShapeStep

NodesToo == NodesStep /\ ShapeStep

(* So is an exception. *)
LEMMA RefuseNodes == Refuse => NodesToo
  BY NodesIdle, ShapeIdle DEF Refuse, tree, NodesToo

(* Each action is: a variable of type int ... *)
LEMMA DeclareIntNodes ==
  ASSUME TypeInv, NEW name \in Names, DeclareInt(name)
  PROVE  NodesToo
  <1> DEFINE new == Object(IntType)
             object == ScopeObject(name, new)
  <1>1. CASE Refuse
    BY <1>1, RefuseNodes
  <1>2. CASE ~Refuse
    <2>1. /\ object # None /\ BindName(name, object, nodes)
          /\ declarations < MaxDeclarations /\ UNCHANGED <<open, currentPos>>
      BY <1>2 DEF DeclareInt
    <2>2. new \in Objects /\ new.type = IntType
      BY <2>1, ObjectTyped DEF Types
    <2>3. new.type.kind = "int"
      BY <2>2 DEF IntType
    <2> HIDE DEF new
    <2>4. NewObject(name, object)
      BY <2>1, <2>2, <2>3, NewVariable
    <2>5. Tree(nodes) /\ SameNodes(nodes, nodes)
      BY TypeParts DEF TypeInv, SameNodes
    <2> HIDE DEF object
    <2> QED
      BY <2>1, <2>4, <2>5, BindNodes DEF NodesToo
  <1> QED
    BY <1>1, <1>2

(* ... of struct type ... *)
LEMMA DeclareStructNodes ==
  ASSUME TypeInv, NEW kind \in {"struct", "pointer"}, NEW name \in Names, NEW tag \in Tags,
         DeclareStruct(kind, name, tag)
  PROVE  NodesToo
  <1> DEFINE new == Object(StructType(kind, NodeFor(tag)))
             object == ScopeObject(name, new)
             all == NodesFor(tag)
  <1>1. CASE Refuse
    BY <1>1, RefuseNodes
  <1>2. CASE ~Refuse
    <2>1. /\ declarations < MaxDeclarations /\ Len(NodesFor(tag)) <= MaxNodes
          /\ object # None
          /\ kind = "struct" => ~Incomplete(NodesFor(tag)[NodeFor(tag)])
          /\ BindName(name, object, all) /\ UNCHANGED <<open, currentPos>>
      BY <1>2, DeclareStructIs
    <2>2. /\ new \in Objects /\ new.type.kind = kind /\ new.type.node = NodeFor(tag)
          /\ kind = "struct" => NodeFor(tag) \in DOMAIN nodes /\ ~nodes[NodeFor(tag)].active
      BY <2>1, DeclareStructNew
    <2> HIDE DEF new
    <2>3. /\ new.type.kind # "function"
          /\ new.type.kind = "struct" =>
               new.type.node \in DOMAIN nodes /\ ~nodes[new.type.node].active
      BY <2>2
    <2>4. NewObject(name, object)
      BY <2>1, <2>2, <2>3, NewVariable
    <2>5. /\ Tree(all) /\ DOMAIN nodes \subseteq DOMAIN all /\ SameNodes(nodes, all)
          /\ Structs(tag) = <<>> => /\ DOMAIN all = 1 .. Len(nodes) + 1
                                    /\ all[Len(nodes) + 1] = ForwardNode
          /\ Structs(tag) # <<>> => all = nodes
      BY <2>1, NodesForTyped
    <2>6. ~ForwardNode.active /\ ForwardNode.decl = [n \in Names |-> None]
      BY DEF ForwardNode, NewNode
    <2>7. ASSUME NEW k \in DOMAIN all, k \notin DOMAIN nodes
          PROVE  ~all[k].active /\ all[k].decl = [n \in Names |-> None]
      <3>1. DOMAIN nodes = 1 .. Len(nodes) /\ Len(nodes) \in Nat
        BY OpenNodesTyped
      <3>2. all[k] = ForwardNode
        <4> HIDE DEF all
        <4> QED
          BY <2>5, <2>7, <3>1
      <3> QED
        BY <2>6, <3>2
    <2> HIDE DEF object, all
    <2> QED
      BY <2>1, <2>4, <2>5, <2>7, BindNodes DEF NodesToo
  <1> QED
    BY <1>1, <1>2

(* ... a prototype ... *)
LEMMA DeclareFunctionNodes ==
  ASSUME TypeInv, NEW name \in Names, NEW signature \in Signatures,
         DeclareFunction(name, signature)
  PROVE  NodesToo
  <1> DEFINE first == FunctionObject(name, FunctionType(signature), TRUE)
             object == ScopeObject(name, first)
             yes == TRUE
  <1>1. CASE Refuse
    BY <1>1, RefuseNodes
  <1>2. CASE ~Refuse
    <2>1. /\ declarations < MaxDeclarations /\ first # None /\ object # None
          /\ EnterFunction(name, first, TRUE) /\ BindName(name, object, nodes)
          /\ UNCHANGED <<open, currentPos>>
      BY <1>2, DeclareFunctionIs
    <2>2. /\ first = FunctionObject(name, FunctionType(signature), yes)
          /\ EnterFunction(name, first, yes) /\ yes \in BOOLEAN
      BY <2>1
    <2> HIDE DEF first, yes
    <2>3. NewObject(name, object)
      BY <2>1, <2>2, FirstIs
    <2>5. Tree(nodes) /\ SameNodes(nodes, nodes)
      BY TypeParts DEF TypeInv, SameNodes
    <2> HIDE DEF object
    <2> QED
      BY <2>1, <2>3, <2>5, BindNodes DEF NodesToo
  <1> QED
    BY <1>1, <1>2

(* The nodes once a function has its object and its body is opened. *)
LEMMA FunctionMembers ==
  ASSUME TypeInv, NEW name \in Names, NEW object \in Objects, Len(nodes) < MaxNodes,
         NEW ms, ms = FunctionNodes(name, object)
  PROVE  /\ \A k \in DOMAIN nodes : k # currentPos => ms[k].decl = nodes[k].decl
         /\ ms[currentPos].decl = WithDecl(nodes[currentPos].decl, name, object)
  <1> DEFINE ns == Named(nodes, currentPos, name, object)
  <1>1. Tree(nodes) /\ currentPos \in DOMAIN nodes
    BY TypeParts DEF TypeInv
  <1>2. Tree(ns) /\ Len(ns) = Len(nodes)
    BY <1>1, TreeNames
  <1>3. /\ DOMAIN ns = DOMAIN nodes
        /\ \A n \in DOMAIN nodes : n # currentPos => ns[n] = nodes[n]
        /\ ns[currentPos].decl = WithDecl(nodes[currentPos].decl, name, object)
    BY <1>1, NamedDecl
  <1>4. ms = Child(ns)
    BY DEF FunctionNodes
  <1> HIDE DEF ns
  <1>5. SameNodes(ns, ms)
    BY <1>1, <1>2, <1>3, <1>4, ChildIs
  <1> QED
    BY <1>1, <1>3, <1>5 DEF SameNodes

(* ... the start of a function ... *)
LEMMA BeginFunctionNodes ==
  ASSUME TypeInv, NEW name \in Names, NEW signature \in Signatures, NEW parameter \in Names,
         BeginFunction(name, signature, parameter)
  PROVE  NodesToo
  <1> DEFINE first == FunctionObject(name, FunctionType(signature), FALSE)
             object == ScopeObject(name, first)
             no == FALSE
             body == Len(nodes) + 1
             value == [id |-> declarations + 2, type |-> IntType]
             ms == FunctionNodes(name, object)
             qs == nodes'
  <1>1. CASE Refuse
    BY <1>1, RefuseNodes
  <1>2. CASE ~Refuse
    <2>1. /\ Len(nodes) < MaxNodes /\ declarations + 2 <= MaxDeclarations
          /\ first # None /\ object # None /\ object \in Objects
          /\ EnterFunction(name, first, FALSE) /\ currentPos' = body
          /\ open' = <<[kind |-> "function", node |-> body]>> \o open
      BY <1>2, BeginFunctionIs DEF Opens
    <2>2. qs = Named(ms, body, parameter, value) \/ qs = ms
      BY <1>2, BeginFunctionIs
    <2>3. /\ first = FunctionObject(name, FunctionType(signature), no)
          /\ EnterFunction(name, first, no) /\ no \in BOOLEAN
      BY <2>1
    <2>4. declarations < MaxDeclarations /\ value \in Objects /\ value.type.kind = "int"
      <3>1. declarations \in Nat /\ declarations + 2 \in 1 .. MaxDeclarations
        BY <2>1, TypeParts, Bounds DEF TypeInv
      <3> QED
        BY <2>1, <3>1, Bounds DEF Objects, Types, IntType
    <2>5. body \notin DOMAIN nodes /\ DOMAIN nodes = 1 .. Len(nodes) /\ Len(nodes) \in Nat
          /\ currentPos \in DOMAIN nodes
      BY OpenNodesTyped
    <2> HIDE DEF first, no, value
    <2>6. NewObject(name, object)
      BY <2>1, <2>3, <2>4, FirstIs
    <2> HIDE DEF object
    <2>7. /\ Tree(ms) /\ DOMAIN ms = 1 .. Len(nodes) + 1
          /\ DOMAIN nodes \subseteq DOMAIN ms /\ body \in DOMAIN ms
          /\ SameParents(nodes, ms) /\ SameMarks(nodes, ms) /\ ms[body].active
          /\ ms[body].decl = [n \in Names |-> None]
      BY <2>1, FunctionNodesIs
    <2>8. /\ \A k \in DOMAIN nodes : k # currentPos => ms[k].decl = nodes[k].decl
          /\ ms[currentPos].decl = WithDecl(nodes[currentPos].decl, name, object)
      BY <2>1, FunctionMembers
    <2> HIDE DEF ms, qs
    <2>9. /\ DOMAIN qs = DOMAIN ms /\ SameMarks(ms, qs) /\ SameParents(ms, qs)
          /\ \A k \in DOMAIN ms : k # body => qs[k] = ms[k]
          /\ \/ qs[body].decl = ms[body].decl
             \/ qs[body].decl = WithDecl(ms[body].decl, parameter, value)
      <3>1. CASE qs = ms
        BY <3>1 DEF SameMarks, SameParents
      <3>2. CASE qs = Named(ms, body, parameter, value)
        <4> HIDE DEF body
        <4>1. SameMarks(ms, qs) /\ SameParents(ms, qs)
          BY <2>4, <2>7, <3>2, TreeNames
        <4>2. /\ DOMAIN qs = DOMAIN ms
              /\ \A k \in DOMAIN ms : k # body => qs[k] = ms[k]
              /\ qs[body].decl = WithDecl(ms[body].decl, parameter, value)
          BY <2>4, <2>7, <3>2, NamedDecl
        <4> QED
          BY <4>1, <4>2
      <3> QED
        BY <2>2, <3>1, <3>2
    <2>10. \A k \in DOMAIN nodes : k # body /\ k \in DOMAIN ms
      BY <2>5, <2>7
    <2>11. Gains
      <3>1. qs[currentPos].decl = WithDecl(nodes[currentPos].decl, name, object)
        BY <2>5, <2>8, <2>9, <2>10
      <3> QED
        BY <2>6, <3>1 DEF Gains, qs
    <2>12. \A k \in DOMAIN nodes : /\ qs[k].parent = nodes[k].parent
                                   /\ qs[k].insideStruct = nodes[k].insideStruct
                                   /\ qs[k].decl = nodes[k].decl \/ (k = currentPos /\ Gains)
      BY <2>7, <2>8, <2>9, <2>10, <2>11 DEF SameMarks, SameParents
    <2>13. NewMembers(body)
      <3> DEFINE d == ms[body].decl
      <3>1. d \in [Names -> Objects \union {None}] /\ \A n \in Names : d[n] = None
        BY <2>7
      <3> HIDE DEF d
      <3>2. \A n \in Names : WithDecl(d, parameter, value)[n] = IF n = parameter THEN value ELSE d[n]
        BY <3>1, WithDeclIs
      <3>3. qs[body].decl = d \/ qs[body].decl = WithDecl(d, parameter, value)
        BY <2>9 DEF d
      <3> QED
        BY <2>4, <3>1, <3>2, <3>3 DEF NewMembers, qs
    <2>14. \A k \in DOMAIN qs : k \notin DOMAIN nodes => k = body
      BY <2>5, <2>7, <2>9
    <2>15. NodesStep
      BY <2>7, <2>9, <2>12, <2>13, <2>14 DEF NodesStep, qs
    <2>16. OpensScope("function")
      <3>1. SameMarks(nodes, qs) /\ qs[body].active
        BY <2>7, <2>9, <2>10 DEF SameMarks
      <3> QED
        BY <2>1, <2>7, <2>9, <3>1 DEF OpensScope, qs
    <2> QED
      BY <2>15, <2>16 DEF NodesToo, ShapeStep
  <1> QED
    BY <1>1, <1>2

(* ... of a block ... *)
LEMMA BeginBlockNodes == ASSUME TypeInv, BeginBlock PROVE NodesToo
  <1> DEFINE ms == nodes'
             node == Len(nodes) + 1
  <1>1. /\ Len(nodes) < MaxNodes /\ ms = Child(nodes) /\ currentPos' = Len(ms)
        /\ open' = <<[kind |-> "block", node |-> Len(ms)]>> \o open
    BY DEF BeginBlock, Opens
  <1>2. /\ Tree(nodes) /\ currentPos \in DOMAIN nodes /\ Len(nodes) \in Nat
        /\ DOMAIN nodes = 1 .. Len(nodes)
    BY OpenNodesTyped, TypeParts DEF TypeInv
  <1> HIDE DEF ms
  <1>3. /\ Len(ms) = node /\ DOMAIN ms = 1 .. node
        /\ DOMAIN nodes \subseteq DOMAIN ms
        /\ SameNodes(nodes, ms) /\ ms[node].active
        /\ ms[node].decl = [n \in Names |-> None]
    BY <1>1, <1>2, ChildIs
  <1>4. OpensScope("block")
    BY <1>1, <1>3 DEF OpensScope, SameNodes, SameMarks, ms
  <1>5. \A k \in DOMAIN ms : k \notin DOMAIN nodes => k = node
    BY <1>2, <1>3
  <1>6. NodesStep
    BY <1>3, <1>5 DEF NodesStep, SameNodes, NewMembers, ms
  <1> QED
    BY <1>4, <1>6 DEF NodesToo, ShapeStep

(* ... of a struct, as long as its node is a new one ... *)
LEMMA BeginStructNodes ==
  ASSUME TypeInv, ~DefineForward, NEW tag \in Tags, BeginStruct(tag)
  PROVE  NodesToo
  <1> DEFINE ms == nodes'
             node == Len(nodes) + 1
  <1>1. CASE Refuse
    BY <1>1, RefuseNodes
  <1>2. CASE ~Refuse
    <2>1. /\ Len(nodes) < MaxNodes /\ ms = Append(nodes, NewNode(currentPos, TRUE, FALSE))
          /\ currentPos' = Len(ms)
          /\ open' = <<[kind |-> "struct", node |-> Len(ms)]>> \o open
      BY <1>2, BeginStructIs
    <2> HIDE DEF ms
    <2>2. /\ Len(ms) = node /\ DOMAIN ms = 1 .. node
          /\ DOMAIN nodes \subseteq DOMAIN ms
          /\ SameNodes(nodes, ms) /\ ms[node] = NewNode(currentPos, TRUE, FALSE)
          /\ DOMAIN nodes = 1 .. Len(nodes) /\ Len(nodes) \in Nat
      BY <2>1, StructNodes
    <2>3. ms[node].active /\ ms[node].decl = [n \in Names |-> None]
      BY <2>2 DEF NewNode
    <2>4. OpensScope("struct")
      BY <2>1, <2>2, <2>3 DEF OpensScope, SameNodes, SameMarks, ms
    <2>5. \A k \in DOMAIN ms : k \notin DOMAIN nodes => k = node
      BY <2>2
    <2>6. NodesStep
      BY <2>2, <2>3, <2>5 DEF NodesStep, SameNodes, NewMembers, ms
    <2> QED
      BY <2>4, <2>6 DEF NodesToo, ShapeStep
  <1> QED
    BY <1>1, <1>2

(* ... the end of a scope ... *)
LEMMA GoUpNodes ==
  ASSUME TypeInv, GoUp, Innermost \in {"function", "block", "struct"}
  PROVE  NodesToo
  <1>1. open # <<>> /\ Head(open).kind # "loop"
    BY DEF Innermost
  <1>2. ClosesScope
    BY <1>1 DEF ClosesScope
  <1>3. NodesStep
    BY ClosedIs DEF NodesStep
  <1> QED
    BY <1>2, <1>3 DEF NodesToo, ShapeStep

(* ... a loop ... *)
LEMMA LoopNodes ==
  ASSUME TypeInv, IncreaseLoopDepth \/ DecreaseLoopDepth
  PROVE  NodesToo
  <1>1. Loops_
    <2>1. CASE IncreaseLoopDepth
      BY <2>1 DEF IncreaseLoopDepth, Opens, tree, Loops_
    <2>2. CASE DecreaseLoopDepth
      BY <2>2 DEF DecreaseLoopDepth, Parsing, Innermost, tree, Loops_
    <2> QED
      BY <2>1, <2>2
  <1> QED
    BY <1>1, NodesIdle DEF Loops_, NodesToo, ShapeStep

(* ... and whatever else happens. *)
LEMMA NodesSteps == TypeInv /\ ~DefineForward /\ [Next]_vars => NodesToo
  <1> SUFFICES ASSUME TypeInv, ~DefineForward, [Next]_vars PROVE NodesToo
    OBVIOUS
  <1>1. ASSUME UNCHANGED <<nodes, open, currentPos>> PROVE NodesToo
    BY <1>1, NodesIdle, ShapeIdle DEF NodesToo
  <1>2. ASSUME NEW name \in Names, DeclareInt(name) PROVE NodesToo
    BY <1>2, DeclareIntNodes
  <1>3. ASSUME NEW name \in Names, NEW tag \in Tags, NEW kind \in {"struct", "pointer"},
               DeclareStruct(kind, name, tag)
        PROVE  NodesToo
    BY <1>3, DeclareStructNodes
  <1>4. ASSUME NEW name \in Names, NEW s \in Signatures, DeclareFunction(name, s)
        PROVE  NodesToo
    BY <1>4, DeclareFunctionNodes
  <1>5. ASSUME NEW name \in Names, NEW s \in Signatures, NEW parameter \in Names,
               BeginFunction(name, s, parameter)
        PROVE  NodesToo
    BY <1>5, BeginFunctionNodes
  <1>6. ASSUME NEW name \in Names, LookUpType(name) PROVE NodesToo
    BY <1>1, <1>6 DEF LookUpType, Refuse, tree
  <1>7. ASSUME NEW tag \in Tags, BeginStruct(tag) PROVE NodesToo
    BY <1>7, BeginStructNodes
  <1>8. ASSUME NEW l \in Labels, AddLabel(l) \/ AddGotoLabel(l) PROVE NodesToo
    BY <1>1, <1>8 DEF AddLabel, AddGotoLabel, Refuse, tree
  <1>9. CASE JumpOutsideLoop
    BY <1>9, RefuseNodes DEF JumpOutsideLoop
  <1>10. CASE EndScope
    BY <1>10, GoUpNodes DEF EndScope, Parsing
  <1>11. CASE EndFunction
    BY <1>11, GoUpNodes, RefuseNodes DEF EndFunction, Parsing
  <1>12. CASE UNCHANGED vars
    BY <1>1, <1>12 DEF vars, tree
  <1> QED
    BY <1>2, <1>3, <1>4, <1>5, <1>6, <1>7, <1>8, <1>9, <1>10, <1>11, <1>12, BeginBlockNodes,
       LoopNodes DEF Next

(* The root is open. *)
LEMMA ScopeInit == Init => ScopeInv
  <1> SUFFICES ASSUME Init PROVE ScopeInv
    OBVIOUS
  <1>1. TypeInv
    BY TypeInit
  <1> DEFINE x == NewNode(None, FALSE, FALSE)
  <1>2. open = <<>> /\ nodes = <<x>>
    BY DEF Init
  <1>3. x.active
    BY DEF NewNode
  <1> HIDE DEF x
  <1>4. Falling
    BY <1>2 DEF Falling
  <1>5. DOMAIN nodes = {1} /\ nodes[1].active /\ 1 \in OpenNodes
    BY <1>2, <1>3 DEF OpenNodes, Root
  <1> QED
    BY <1>1, <1>4, <1>5 DEF ScopeInv, ActiveIsOpen

(* A scope is opened or closed, or neither, and a declaration goes to the  *)
(* innermost one.                                                          *)
LEMMA ScopeNext ==
  ScopeInv /\ ~DefineForward /\ [Next]_vars =>
    ScopeInv' /\ NodesStep /\ MapsStep /\ (Grown \/ Shrunk \/ Settled)
  <1> SUFFICES ASSUME ScopeInv, ~DefineForward, [Next]_vars
               PROVE  ScopeInv' /\ NodesStep /\ MapsStep /\ (Grown \/ Shrunk \/ Settled)
    OBVIOUS
  <1>1. TypeInv' /\ NodesToo /\ MapsStep
    BY TypeStep, NodesSteps, MapsSteps DEF ScopeInv
  <1> QED
    BY <1>1, ScopeStep DEF NodesToo

(* The active nodes are those of the open scopes, always. *)
LEMMA ScopeAlways == ASSUME ~DefineForward PROVE Spec => []ScopeInv
  <1>1. ScopeInv /\ [Next]_vars => ScopeInv'
    BY ScopeNext
  <1> QED
    BY <1>1, ScopeInit, PTL DEF Spec

(***************************************************************************)
(* A scope that is left keeps its declarations, as long as no struct is    *)
(* defined in the scope of its forward declaration: addDeclaration writes  *)
(* to the node of the innermost scope, which is active (semantic.cc:214).  *)
(***************************************************************************)
THEOREM LeftScopesKeepTheirNames == ASSUME ~DefineForward PROVE Spec => ClosedScopesAreFinal
  <1>1. ScopeInv /\ [Next]_vars =>
          [\A k \in DOMAIN nodes :
             ~nodes[k].active /\ ~nodes[k].forward => nodes'[k].decl = nodes[k].decl]_vars
    <2> SUFFICES ASSUME ScopeInv, [Next]_vars, NEW k \in DOMAIN nodes, ~nodes[k].active
                 PROVE  nodes'[k].decl = nodes[k].decl
      OBVIOUS
    <2>1. NodesStep
      BY ScopeNext
    <2>2. k # currentPos
      BY OpenNodesTyped DEF ScopeInv, ActiveIsOpen
    <2> QED
      BY <2>1, <2>2 DEF NodesStep
  <1> QED
    BY <1>1, ScopeAlways, PTL DEF Spec, ClosedScopesAreFinal

-----------------------------------------------------------------------------
(* No struct contains itself.                                              *)

Members(k)  == {nodes[k].decl[n] : n \in {n \in Names : nodes[k].decl[n] # None}}
Contains(k) == {o.type.node : o \in {o \in Members(k) : o.type.kind = "struct"}}
StructNodesOf == {k \in DOMAIN nodes : nodes[k].insideStruct}
WellFounded == \A S \in (SUBSET StructNodesOf) \ {{}} : \E k \in S : Contains(k) \cap S = {}

(* A struct is finished before it becomes a member. *)
Finished == \A k \in DOMAIN nodes : \A c \in Contains(k) : c \in DOMAIN nodes /\ ~nodes[c].active

StructInv == Finished /\ WellFounded

(* A struct contains those that are the types of its members. *)
LEMMA ContainsIs ==
  ASSUME NEW k, NEW c
  PROVE  c \in Contains(k) <=> \E n \in Names : /\ nodes[k].decl[n] # None
                                                /\ nodes[k].decl[n].type.kind = "struct"
                                                /\ c = nodes[k].decl[n].type.node
  BY DEF Contains, Members

(* No member of struct type, nothing contained. *)
LEMMA NothingContained ==
  ASSUME NEW k, \A n \in Names : nodes[k].decl[n] = None \/ nodes[k].decl[n].type.kind = "int"
  PROVE  Contains(k) = {}
  BY ContainsIs

(* A new node contains nothing. *)
LEMMA NewMembersContainNothing ==
  ASSUME NEW k, NewMembers(k) PROVE Contains(k)' = {}
  BY DEF NewMembers, Contains, Members

(* A node whose members stay contains what it did. *)
LEMMA ContainsStays ==
  ASSUME NEW k, nodes'[k].decl = nodes[k].decl PROVE Contains(k)' = Contains(k)
  BY DEF Contains, Members

(* What the current scope gains is a struct that was left. *)
LEMMA ContainsGains ==
  ASSUME TypeInv, Gains, NEW p, p = currentPos
  PROVE  \A c \in Contains(p)' : c \in Contains(p) \/ (c \in DOMAIN nodes /\ ~nodes[c].active)
  <1> DEFINE d == nodes[p].decl
             e == nodes'[p].decl
  <1>0. PICK n \in Names : \E o : NewObject(n, o) /\ e = WithDecl(d, n, o)
    BY DEF Gains
  <1>1. PICK o : NewObject(n, o) /\ e = WithDecl(d, n, o)
    BY <1>0
  <1>2. d \in [Names -> Objects \union {None}]
    <2>1. nodes \in Seq(SemNode) /\ p \in DOMAIN nodes
      BY TypeParts DEF TypeInv, Tree
    <2>2. nodes[p] \in SemNode
      BY <2>1
    <2> QED
      BY <2>2 DEF SemNode
  <1>3. \A i \in Names : e[i] = IF i = n THEN o ELSE d[i]
    <2> HIDE DEF d
    <2>1. \A i \in Names : WithDecl(d, n, o)[i] = IF i = n THEN o ELSE d[i]
      BY <1>2, WithDeclIs
    <2> QED
      BY <1>1, <2>1
  <1>4. ASSUME NEW c \in Contains(p)' PROVE c \in Contains(p) \/ (c \in DOMAIN nodes /\ ~nodes[c].active)
    <2>1. PICK i \in Names : e[i] # None /\ e[i].type.kind = "struct" /\ c = e[i].type.node
      BY <1>4 DEF Contains, Members
    <2>2. CASE i = n
      BY <1>1, <1>3, <2>1, <2>2 DEF NewObject
    <2>3. CASE i # n
      BY <1>3, <2>1, <2>3, ContainsIs
    <2> QED
      BY <2>2, <2>3
  <1> QED
    BY <1>4

(* No struct, no member. *)
LEMMA StructInit == Init => StructInv
  <1> SUFFICES ASSUME Init PROVE StructInv
    OBVIOUS
  <1>1. DOMAIN nodes = {1} /\ \A n \in Names : nodes[1].decl[n] = None
    <2> DEFINE x == NewNode(None, FALSE, FALSE)
    <2>1. nodes = <<x>>
      BY DEF Init
    <2>2. x.decl = [n \in Names |-> None]
      BY DEF NewNode
    <2> HIDE DEF x
    <2> QED
      BY <2>1, <2>2
  <1>2. Contains(1) = {}
    BY <1>1, NothingContained
  <1>3. Finished
    BY <1>1, <1>2 DEF Finished
  <1>4. WellFounded
    BY <1>1, <1>2 DEF WellFounded, StructNodesOf
  <1> QED
    BY <1>3, <1>4 DEF StructInv

(* No step closes a cycle: the new member was finished before its struct, *)
(* and finished ones gain nothing.                                        *)
LEMMA StructStep ==
  ASSUME ScopeInv, ScopeInv', StructInv, NodesStep, Grown \/ Shrunk \/ Settled
  PROVE  StructInv'
  <1>1. /\ OpenNodes \subseteq DOMAIN nodes /\ currentPos \in OpenNodes /\ currentPos \in DOMAIN nodes
        /\ DOMAIN nodes = 1 .. Len(nodes) /\ Len(nodes) \in Nat
    BY OpenNodesTyped DEF ScopeInv
  <1>2. \A k \in DOMAIN nodes : ~nodes[k].active => ~nodes'[k].active /\ k # currentPos
    <2>1. ASSUME NEW k \in DOMAIN nodes, k \notin OpenNodes PROVE k \notin OpenNodes'
      BY <1>1, <2>1 DEF Grown, Shrunk, Settled
    <2> QED
      BY <1>1, <2>1 DEF ScopeInv, ActiveIsOpen, NodesStep
  <1>3. \A k \in DOMAIN nodes' : k \notin DOMAIN nodes => Contains(k)' = {}
    BY NewMembersContainNothing DEF NodesStep
  <1>4. \A k \in DOMAIN nodes : k # currentPos => Contains(k)' = Contains(k)
    BY ContainsStays DEF NodesStep
  <1>5. \A k \in DOMAIN nodes' : \A c \in Contains(k)' : c \in DOMAIN nodes /\ ~nodes[c].active
    <2>1. ASSUME NEW k \in DOMAIN nodes, NEW c \in Contains(k)'
          PROVE  c \in DOMAIN nodes /\ ~nodes[c].active
      <3>1. CASE c \in Contains(k)
        BY <3>1 DEF StructInv, Finished
      <3>2. CASE c \notin Contains(k)
        <4>1. k = currentPos /\ Gains
          BY <2>1, <3>2, ContainsStays DEF NodesStep
        <4> QED
          BY <2>1, <3>2, <4>1, ContainsGains DEF ScopeInv
      <3> QED
        BY <3>1, <3>2
    <2> QED
      BY <1>3, <2>1
  <1>6. Finished'
    BY <1>2, <1>5 DEF Finished, NodesStep
  <1>7. WellFounded'
    <2> SUFFICES ASSUME NEW S \in (SUBSET StructNodesOf') \ {{}},
                        \A k \in S : Contains(k)' \cap S # {}
                 PROVE  FALSE
      BY DEF WellFounded
    <2> DEFINE R == S \ {currentPos}
    <2>1. S \subseteq DOMAIN nodes' /\ \A k \in S : nodes'[k].insideStruct
      BY DEF StructNodesOf
    <2>2. S \subseteq DOMAIN nodes
      BY <1>3, <2>1
    <2>3. \A k \in S : Contains(k)' \cap R # {}
      <3>1. \A k \in S : \A c \in Contains(k)' : c # currentPos
        BY <1>2, <1>5, <2>1
      <3> QED
        BY <3>1
    <2>4. R # {}
      BY <2>3
    <2>5. \A k \in R : Contains(k) \cap R # {}
      BY <1>4, <2>2, <2>3
    <2>6. R \in SUBSET StructNodesOf
      BY <2>1, <2>2 DEF StructNodesOf, NodesStep
    <2> HIDE DEF R
    <2> QED
      BY <2>4, <2>5, <2>6 DEF StructInv, WellFounded
  <1> QED
    BY <1>6, <1>7 DEF StructInv

(***************************************************************************)
(* No struct contains itself, directly or through its members: a member of *)
(* struct type is refused while the scope of that struct is active, and    *)
(* the scopes that are active are those the member is inside of            *)
(* (createType, semantic.cc:337, :371).                                    *)
(***************************************************************************)
THEOREM NoStructContainsItself == ASSUME ~DefineForward PROVE Spec => []NoInfiniteStruct
  <1>1. StructInv => NoInfiniteStruct
    BY DEF StructInv, WellFounded, StructNodesOf, Contains, Members, NoInfiniteStruct
  <1>2. ScopeInv /\ StructInv /\ [Next]_vars => StructInv'
    BY ScopeNext, StructStep
  <1> QED
    BY <1>1, <1>2, ScopeAlways, StructInit, PTL DEF Spec

-----------------------------------------------------------------------------
(* The stacks of the maps as sequences of bindings (a place and what is    *)
(* bound there), topmost first.                                            *)
Bindings(D) == [pos : Nat, decl : D]
Here(s, p)    == {k \in DOMAIN s : s[k].pos = p}
BoundAt(s, p) == IF Here(s, p) = {} THEN None ELSE Topmost(s, Here(s, p)).decl

(* Below an entry of an open scope there are only entries of open scopes,  *)
(* from the inside to the outside.                                         *)
Sorted(s, A) == \A i, j \in DOMAIN s : i < j /\ s[i].pos \in A =>
                  s[j].pos \in A /\ s[j].pos <= s[i].pos

(* What is bound at a place stays when entries of other places go ... *)
LEMMA BoundTrim ==
  ASSUME NEW D, NEW s \in Seq(Bindings(D)), NEW t \in Seq(Bindings(D)), NEW m,
         Without(s, m, t), NEW p, \A i \in 1 .. m : s[i].pos # p
  PROVE  BoundAt(t, p) = BoundAt(s, p)
  <1> DEFINE H == Here(s, p)
             G == Here(t, p)
             S == Bindings(D)
  <1>1. /\ DOMAIN s = 1 .. Len(s) /\ DOMAIN t = 1 .. Len(t) /\ Len(s) \in Nat /\ Len(t) \in Nat
        /\ m \in 0 .. Len(s) /\ Len(t) = Len(s) - m /\ \A i \in 1 .. Len(t) : t[i] = s[i + m]
    BY DEF Without
  <1>2. H \in SUBSET DOMAIN s /\ \A k \in H : k > m
    BY <1>1 DEF Here
  <1>3. G = {i \in DOMAIN t : i + m \in H}
    <2>1. \A i \in DOMAIN t : i + m \in DOMAIN s /\ t[i] = s[i + m]
      BY <1>1
    <2> QED
      BY <2>1 DEF Here
  <1>4. s \in Seq(S) /\ t \in Seq(S)
    OBVIOUS
  <1> HIDE DEF H, G, S
  <1>5. (G = {} <=> H = {}) /\ Topmost(t, G) = Topmost(s, H)
    BY <1>2, <1>3, <1>4, TopmostWithout
  <1> QED
    BY <1>5 DEF BoundAt, H, G

(* ... and a binding that is pushed counts at its own place. *)
LEMMA BoundPush ==
  ASSUME NEW D, NEW s \in Seq(Bindings(D)), NEW q \in Nat, NEW o \in D, NEW p
  PROVE  BoundAt(Push(Binding(q, o), s), p) = IF p = q THEN o ELSE BoundAt(s, p)
  <1> DEFINE e == Binding(q, o)
             S == Bindings(D)
             t == Push(e, s)
             H == Here(s, p)
             G == Here(t, p)
  <1>1. e \in S /\ e.pos = q /\ e.decl = o /\ s \in Seq(S)
    BY DEF Binding, Bindings
  <1>2. DOMAIN s = 1 .. Len(s) /\ Len(s) \in Nat
    OBVIOUS
  <1> HIDE DEF S, e, t
  <1>3. /\ DOMAIN t = 1 .. Len(s) + 1 /\ t[1] = e
        /\ \A i \in 1 .. Len(s) : t[i + 1] = s[i]
    BY <1>1, PushIs DEF t
  <1>4. H \in SUBSET DOMAIN s /\ G \in SUBSET DOMAIN t
    BY DEF Here
  <1>5. H = {i \in DOMAIN s : i + 1 \in G}
    <2>1. \A i \in DOMAIN s : i + 1 \in DOMAIN t
      BY <1>2, <1>3
    <2> QED
      BY <1>2, <1>3, <2>1 DEF Here
  <1>6. 1 \in G <=> p = q
    <2>1. 1 \in DOMAIN t
      BY <1>2, <1>3
    <2> QED
      BY <1>1, <1>3, <2>1 DEF Here
  <1> HIDE DEF H, G
  <1>7. /\ 1 \in G => Topmost(t, G) = e
        /\ 1 \notin G => (G = {} <=> H = {}) /\ Topmost(t, G) = Topmost(s, H)
    <2>1. G \in SUBSET DOMAIN Push(e, s) /\ e \in S /\ s \in Seq(S) /\ H \in SUBSET DOMAIN s
      BY <1>1, <1>4 DEF t
    <2>2. 1 \notin G => (G = {} <=> H = {}) /\ Topmost(Push(e, s), G) = Topmost(s, H)
      BY <1>5, <2>1, TopmostPush
    <2>3. ASSUME 1 \in G PROVE Topmost(Push(e, s), G) = e
      BY <2>1, <2>3, TopmostPushed
    <2> QED
      BY <2>2, <2>3 DEF t
  <1>8. CASE p = q
    BY <1>1, <1>6, <1>7, <1>8 DEF BoundAt, e, t, G
  <1>9. CASE p # q
    BY <1>6, <1>7, <1>9 DEF BoundAt, e, t, G, H
  <1> QED
    BY <1>8, <1>9

(* The top of a stack is what is bound at its place. *)
LEMMA BoundTop ==
  ASSUME NEW D, NEW s \in Seq(Bindings(D)), s # <<>>
  PROVE  /\ BoundAt(s, s[1].pos) = s[1].decl
         /\ s[1].pos \in Nat /\ 1 \in DOMAIN s /\ s[1] \in Bindings(D)
  <1> DEFINE H == Here(s, s[1].pos)
  <1>1. 1 \in DOMAIN s /\ DOMAIN s = 1 .. Len(s) /\ Len(s) \in Nat /\ s[1] \in Bindings(D)
    OBVIOUS
  <1>2. 1 \in H /\ H \in SUBSET Nat /\ \A k \in H : 1 <= k
    BY <1>1 DEF Here
  <1> HIDE DEF H
  <1>3. Min(H) \in H /\ \A k \in H : Min(H) <= k
    BY <1>2, LeastMember
  <1>4. Min(H) = 1
    <2>1. Min(H) \in Nat /\ Min(H) <= 1 /\ 1 <= Min(H)
      BY <1>2, <1>3
    <2> QED
      BY <2>1
  <1>5. Topmost(s, H) = s[1] /\ H # {}
    BY <1>2, <1>4 DEF Topmost
  <1> QED
    BY <1>1, <1>5 DEF BoundAt, H, Bindings

(* A stack remains sorted when entries are dropped from the top ... *)
LEMMA SortedTrim ==
  ASSUME NEW D, NEW s \in Seq(Bindings(D)), NEW t \in Seq(Bindings(D)), NEW m,
         Without(s, m, t), NEW A, Sorted(s, A)
  PROVE  Sorted(t, A)
  <1>1. /\ DOMAIN s = 1 .. Len(s) /\ DOMAIN t = 1 .. Len(t) /\ Len(s) \in Nat /\ Len(t) \in Nat
        /\ m \in 0 .. Len(s) /\ Len(t) = Len(s) - m /\ \A i \in 1 .. Len(t) : t[i] = s[i + m]
    BY DEF Without
  <1>2. \A i \in DOMAIN t : i + m \in DOMAIN s /\ t[i] = s[i + m]
    BY <1>1
  <1>3. \A i, j \in DOMAIN t : i < j => i + m < j + m
    BY <1>1
  <1> QED
    BY <1>2, <1>3 DEF Sorted

(* ... when a binding of the innermost scope is pushed on one of an open *)
(* scope ...                                                             *)
LEMMA SortedPush ==
  ASSUME NEW D, NEW s \in Seq(Bindings(D)), NEW A \in SUBSET Nat, Sorted(s, A),
         s = <<>> \/ s[1].pos \in A, NEW q \in A, \A p \in A : p <= q, NEW o \in D
  PROVE  /\ Sorted(Push(Binding(q, o), s), A)
         /\ Push(Binding(q, o), s) \in Seq(Bindings(D))
         /\ Push(Binding(q, o), s)[1].pos \in A
  <1> DEFINE e == Binding(q, o)
             S == Bindings(D)
             t == Push(e, s)
  <1>1. e \in S /\ e.pos = q /\ s \in Seq(S)
    BY DEF Binding, Bindings
  <1>2. DOMAIN s = 1 .. Len(s) /\ Len(s) \in Nat
    OBVIOUS
  <1>3. \A j \in DOMAIN s : s[j].pos \in A
    <2>1. ASSUME NEW j \in DOMAIN s PROVE s[j].pos \in A
      <3>1. s # <<>> /\ 1 \in DOMAIN s
        BY <1>2, <2>1
      <3>2. j = 1 \/ 1 < j
        BY <1>2, <2>1
      <3> QED
        BY <3>1, <3>2 DEF Sorted
    <2> QED
      BY <2>1
  <1> HIDE DEF S, e, t
  <1>4. /\ t \in Seq(S) /\ DOMAIN t = 1 .. Len(s) + 1 /\ t[1] = e
        /\ \A k \in 2 .. Len(s) + 1 : t[k] = s[k - 1]
    BY <1>1, PushIs DEF t
  <1>5. ASSUME NEW i \in DOMAIN t, NEW j \in DOMAIN t, i < j, t[i].pos \in A
        PROVE  t[j].pos \in A /\ t[j].pos <= t[i].pos
    <2>1. j - 1 \in DOMAIN s /\ t[j] = s[j - 1]
      BY <1>2, <1>4, <1>5
    <2>2. CASE i = 1
      BY <1>1, <1>3, <1>4, <2>1, <2>2
    <2>3. CASE i # 1
      <3>1. i - 1 \in DOMAIN s /\ t[i] = s[i - 1] /\ i - 1 < j - 1
        BY <1>2, <1>4, <1>5, <2>3
      <3> QED
        BY <1>5, <2>1, <3>1 DEF Sorted
    <2> QED
      BY <2>2, <2>3
  <1> QED
    BY <1>1, <1>4, <1>5 DEF Sorted, t, e, S

(* ... when the innermost scope is closed ... *)
LEMMA SortedLeave ==
  ASSUME NEW D, NEW s \in Seq(Bindings(D)), NEW A \in SUBSET Nat, Sorted(s, A),
         NEW c, \A p \in A : p <= c, NEW B, B = A \ {c}, c \in Nat
  PROVE  Sorted(s, B)
  <1>1. ASSUME NEW i \in DOMAIN s, NEW j \in DOMAIN s, i < j, s[i].pos \in B
        PROVE  s[j].pos \in B /\ s[j].pos <= s[i].pos
    <2>1. s[i].pos \in A /\ s[j].pos \in A /\ s[j].pos <= s[i].pos
      BY <1>1 DEF Sorted
    <2>2. s[i].pos \in Nat /\ s[j].pos \in Nat /\ s[i].pos <= c /\ s[i].pos # c
      BY <1>1, <2>1
    <2>3. s[j].pos # c
      BY <2>1, <2>2
    <2> QED
      BY <2>1, <2>3
  <1> QED
    BY <1>1 DEF Sorted

(* ... and when one is opened that has no entry. *)
LEMMA SortedEnter ==
  ASSUME NEW s, NEW A, Sorted(s, A), NEW c, \A i \in DOMAIN s : s[i].pos # c,
         NEW B, B = A \union {c}
  PROVE  Sorted(s, B)
  BY DEF Sorted

(* What is bound in the places of B stays; only the current place may gain *)
(* a binding.                                                              *)
Extended(s, t, B, cur) == \A p \in B :
  /\ p # cur => BoundAt(t, p) = BoundAt(s, p)
  /\ BoundAt(s, p) # None => BoundAt(t, p) = BoundAt(s, p)

(* Dropping entries of closed scopes loses nothing of the open ones. *)
LEMMA TrimKept ==
  ASSUME NEW D, NEW s \in Seq(Bindings(D)), NEW t \in Seq(Bindings(D)), NEW m,
         Without(s, m, t), NEW B, \A i \in 1 .. m : s[i].pos \notin B, NEW cur
  PROVE  /\ Extended(s, t, B, cur)
         /\ \A p \in B : BoundAt(t, p) = BoundAt(s, p)
  <1>1. ASSUME NEW p \in B PROVE BoundAt(t, p) = BoundAt(s, p)
    <2>1. \A i \in 1 .. m : s[i].pos # p
      OBVIOUS
    <2> QED
      BY <2>1, BoundTrim
  <1> QED
    BY <1>1 DEF Extended

(* A name is bound where nothing or the same is bound already. *)
LEMMA BindKept ==
  ASSUME NEW D, None \notin D, NEW d \in Seq(Bindings(D)), NEW A \in SUBSET Nat,
         Sorted(d, A), d = <<>> \/ d[1].pos \in A,
         NEW cur \in A, \A p \in A : p <= cur, NEW o \in D,
         d # <<>> /\ d[1].pos = cur => o = d[1].decl,
         NEW t, t = Push(Binding(cur, o), d), NEW B
  PROVE  /\ t \in Seq(Bindings(D)) /\ Sorted(t, A) /\ t[1].pos \in A
         /\ Extended(d, t, B, cur)
  <1>1. t \in Seq(Bindings(D)) /\ Sorted(t, A) /\ t[1].pos \in A
    BY SortedPush
  <1>2. cur \in Nat
    OBVIOUS
  <1>3. \A p : BoundAt(t, p) = IF p = cur THEN o ELSE BoundAt(d, p)
    BY <1>2, BoundPush
  <1>4. BoundAt(d, cur) = None \/ BoundAt(d, cur) = o
    <2>1. CASE d = <<>>
      <3>1. Here(d, cur) = {}
        BY <2>1 DEF Here
      <3> QED
        BY <3>1 DEF BoundAt
    <2>2. CASE d # <<>> /\ d[1].pos = cur
      <3>1. BoundAt(d, d[1].pos) = d[1].decl
        BY <2>2, BoundTop
      <3> QED
        BY <2>2, <3>1
    <2>3. CASE d # <<>> /\ d[1].pos # cur
      <3>1. /\ d[1].pos \in A /\ 1 \in DOMAIN d /\ DOMAIN d = 1 .. Len(d) /\ Len(d) \in Nat
        BY <2>3, BoundTop
      <3>2. d[1].pos \in Nat /\ d[1].pos <= cur
        BY <3>1
      <3>3. ASSUME NEW j \in DOMAIN d PROVE d[j].pos # cur
        <4>1. j = 1 \/ 1 < j
          BY <3>1
        <4>2. 1 < j => d[j].pos <= d[1].pos
          BY <3>1 DEF Sorted
        <4> QED
          BY <1>2, <2>3, <3>2, <4>1, <4>2
      <3>4. Here(d, cur) = {}
        BY <3>3 DEF Here
      <3> QED
        BY <3>4 DEF BoundAt
    <2> QED
      BY <2>1, <2>2, <2>3
  <1>5. Extended(d, t, B, cur)
    BY <1>3, <1>4 DEF Extended
  <1> QED
    BY <1>1, <1>5

(* Two such changes in a row are one. *)
LEMMA ExtendedTrans ==
  ASSUME NEW s, NEW t, NEW u, NEW B, NEW cur, Extended(s, t, B, cur), Extended(t, u, B, cur)
  PROVE  Extended(s, u, B, cur)
  BY DEF Extended

(* A binding in a scope that has just been opened. *)
LEMMA InsideKept ==
  ASSUME NEW D, NEW d \in Seq(Bindings(D)), NEW A \in SUBSET Nat,
         Sorted(d, A), d = <<>> \/ d[1].pos \in A,
         NEW n \in Nat, \A p \in A : p < n, \A i \in DOMAIN d : d[i].pos # n,
         NEW v \in D, NEW t, t = Push(Binding(n, v), d), NEW cur, NEW A2, A2 = A \union {n}
  PROVE  Sorted(t, A2) /\ Extended(d, t, A, cur)
  <1>1. Sorted(d, A2)
    BY SortedEnter
  <1>2. A2 \in SUBSET Nat /\ n \in A2 /\ \A p \in A2 : p <= n
    <2>1. \A p \in A : p \in Nat /\ p <= n
      OBVIOUS
    <2> QED
      BY <2>1
  <1>3. Sorted(t, A2)
    BY <1>1, <1>2, SortedPush
  <1>4. \A p : BoundAt(t, p) = IF p = n THEN v ELSE BoundAt(d, p)
    BY BoundPush
  <1>5. \A p \in A : p # n
    OBVIOUS
  <1> QED
    BY <1>3, <1>4, <1>5 DEF Extended

(* The stack stays sorted when a scope is opened or closed. *)
LEMMA SortedNext ==
  ASSUME ScopeInv, Grown \/ Shrunk \/ Settled,
         NEW D, NEW s \in Seq(Bindings(D)), \A i \in DOMAIN s : s[i].pos \in DOMAIN nodes,
         Sorted(s, OpenNodes)
  PROVE  Sorted(s, OpenNodes')
  <1> DEFINE A == OpenNodes
             c == currentPos
             new == Len(nodes) + 1
  <1>1. /\ A \in SUBSET Nat /\ c \in Nat /\ \A p \in A : p <= c
        /\ DOMAIN nodes = 1 .. Len(nodes) /\ Len(nodes) \in Nat
    BY OpenNodesTyped, CurrentIsLast DEF ScopeInv
  <1>2. CASE Grown
    <2>1. OpenNodes' = A \union {new}
      BY <1>2 DEF Grown
    <2>2. \A i \in DOMAIN s : s[i].pos # new
      BY <1>1
    <2> HIDE DEF A, new
    <2>3. Sorted(s, A)
      BY DEF A
    <2> QED
      BY <2>1, <2>2, <2>3, SortedEnter
  <1>3. CASE Shrunk
    <2>1. OpenNodes' = A \ {c}
      BY <1>3 DEF Shrunk
    <2>2. Sorted(s, A)
      OBVIOUS
    <2> HIDE DEF A, c
    <2> QED
      BY <1>1, <2>1, <2>2, SortedLeave
  <1>4. CASE Settled
    BY <1>4 DEF Settled
  <1> QED
    BY <1>2, <1>3, <1>4

(* Nodes are numbers ... *)
LEMMA NodesNumbered == TypeInv => DOMAIN nodes \in SUBSET Nat
  BY OpenNodesTyped

(* ... the open ones among them ... *)
LEMMA OpenNodesNumbered == TypeInv => OpenNodes \subseteq DOMAIN nodes
  BY OpenNodesTyped

(* ... and the current one. *)
LEMMA CurrentNumbered == TypeInv => currentPos \in DOMAIN nodes
  BY TypeParts DEF TypeInv

-----------------------------------------------------------------------------
(* The stacks of the identifiers.                                          *)

(* The stack of a name as bindings. *)
LEMMA DeclaredStack ==
  ASSUME TypeInv, NEW name \in Names
  PROVE  /\ declarationMap[name] \in Seq(Bindings(Objects))
         /\ Declared(name) \in Seq(Bindings(Objects))
         /\ \A i \in DOMAIN declarationMap[name] : declarationMap[name][i].pos \in DOMAIN nodes
         /\ \A i \in DOMAIN Declared(name) : Declared(name)[i].pos \in DOMAIN nodes
  <1>1. /\ declarationMap[name] \in Seq(Declaration(DOMAIN nodes))
        /\ Declared(name) \in Seq(Declaration(DOMAIN nodes))
    BY DeclaredIs
  <1> DEFINE N == DOMAIN nodes
  <1>2. N \in SUBSET Nat
    BY OpenNodesTyped
  <1>3. \A s \in Seq(Declaration(N)) : s \in Seq(Bindings(Objects)) /\ \A i \in DOMAIN s : s[i].pos \in N
    <2> HIDE DEF N
    <2>1. ASSUME NEW s \in Seq(Declaration(N)) PROVE s \in Seq(Declaration(Nat))
      BY <1>2, Widen
    <2>2. ASSUME NEW s \in Seq(Declaration(N)), NEW i \in DOMAIN s PROVE s[i].pos \in N
      <3>1. s[i] \in Declaration(N)
        OBVIOUS
      <3> QED
        BY <3>1 DEF Declaration
    <2> QED
      BY <2>1, <2>2 DEF Declaration, Bindings
  <1> QED
    BY <1>1, <1>3

(* Of the entries of closed scopes those above are dropped. *)
LEMMA DeclaredKept ==
  ASSUME ScopeInv, NEW name \in Names, Sorted(declarationMap[name], OpenNodes), NEW cur
  PROVE  /\ Sorted(Declared(name), OpenNodes)
         /\ Declared(name) = <<>> \/ Declared(name)[1].pos \in OpenNodes
         /\ Extended(declarationMap[name], Declared(name), OpenNodes, cur)
         /\ \A p \in OpenNodes : BoundAt(Declared(name), p) = BoundAt(declarationMap[name], p)
  <1> DEFINE s == declarationMap[name]
             d == Declared(name)
             A == OpenNodes
  <1>1. /\ s \in Seq(Bindings(Objects)) /\ d \in Seq(Bindings(Objects))
        /\ \A i \in DOMAIN s : s[i].pos \in DOMAIN nodes
        /\ \A i \in DOMAIN d : d[i].pos \in DOMAIN nodes
    BY DeclaredStack DEF ScopeInv
  <1>2. PICK m : /\ Without(s, m, d) /\ \A i \in 1 .. m : ~Active(s[i].pos)
                 /\ d # <<>> => Active(d[1].pos)
    BY DeclaredIs DEF ScopeInv
  <1>3. \A k \in DOMAIN nodes : Active(k) <=> k \in A
    <2>1. None \notin DOMAIN nodes
      BY Bounds, TypeParts DEF ScopeInv, TypeInv, Tree
    <2> QED
      BY <2>1 DEF ScopeInv, ActiveIsOpen, Active
  <1>4. d # <<>> => 1 \in DOMAIN d
    <2> HIDE DEF d
    <2> QED
      BY <1>1
  <1>5. \A i \in 1 .. m : s[i].pos \notin A
    <2>1. \A i \in 1 .. m : i \in DOMAIN s
      <3> HIDE DEF s, d
      <3> QED
        BY <1>1, <1>2 DEF Without
    <2> QED
      BY <1>1, <1>2, <1>3, <2>1
  <1>6. d = <<>> \/ d[1].pos \in A
    BY <1>1, <1>2, <1>3, <1>4
  <1>7. Sorted(s, A)
    OBVIOUS
  <1> HIDE DEF s, d, A
  <1>8. Sorted(d, A)
    BY <1>1, <1>2, <1>7, SortedTrim
  <1>9. ASSUME NEW p \in A PROVE BoundAt(d, p) = BoundAt(s, p)
    <2>1. \A i \in 1 .. m : s[i].pos # p
      BY <1>5, <1>9
    <2> QED
      BY <1>1, <1>2, <2>1, BoundTrim
  <1>10. Extended(s, d, A, cur)
    BY <1>9 DEF Extended
  <1> QED
    BY <1>6, <1>8, <1>9, <1>10 DEF s, d, A

(* A stack refers to nodes that exist, also after a push. *)
LEMMA PushWithin ==
  ASSUME NEW D, NEW s \in Seq(Bindings(D)), NEW q \in Nat, NEW o \in D,
         NEW t, t = Push(Binding(q, o), s), NEW N, q \in N,
         \A i \in DOMAIN s : s[i].pos \in N
  PROVE  \A i \in DOMAIN t : t[i].pos \in N
  <1> DEFINE e == Binding(q, o)
             S == Bindings(D)
  <1>1. e \in S /\ e.pos = q /\ s \in Seq(S)
    BY DEF Binding, Bindings
  <1>2. Len(s) \in Nat /\ DOMAIN s = 1 .. Len(s)
    OBVIOUS
  <1> DEFINE u == Push(e, s)
  <1> HIDE DEF e, S
  <1>3. /\ DOMAIN u = 1 .. Len(s) + 1 /\ u[1] = e
        /\ \A k \in 2 .. Len(s) + 1 : u[k] = s[k - 1]
    BY <1>1, PushIs
  <1>5. t = u
    BY DEF e
  <1> HIDE DEF u
  <1>4. \A k \in DOMAIN u : k = 1 \/ (k \in 2 .. Len(s) + 1 /\ k - 1 \in DOMAIN s)
    BY <1>2, <1>3
  <1> QED
    BY <1>1, <1>3, <1>4, <1>5

(* Binding a name in the current scope, after dropping what is stale. *)
LEMMA BindsKept ==
  ASSUME ScopeInv, NEW name \in Names, Sorted(declarationMap[name], OpenNodes),
         NEW t, Binds(name, t)
  PROVE  /\ t \in Seq(Bindings(Objects)) /\ Sorted(t, OpenNodes) /\ t[1].pos \in OpenNodes
         /\ \A i \in DOMAIN t : t[i].pos \in DOMAIN nodes
         /\ Extended(declarationMap[name], t, OpenNodes, currentPos)
  <1> DEFINE s == declarationMap[name]
             d == Declared(name)
             A == OpenNodes
             c == currentPos
  <1>1. /\ d \in Seq(Bindings(Objects)) /\ \A i \in DOMAIN d : d[i].pos \in DOMAIN nodes
    BY DeclaredStack DEF ScopeInv
  <1>2. Sorted(d, A) /\ (d = <<>> \/ d[1].pos \in A) /\ Extended(s, d, A, c)
    BY DeclaredKept
  <1>3. /\ A \in SUBSET Nat /\ c \in A /\ \A p \in A : p <= c /\ c \in DOMAIN nodes
    BY OpenNodesTyped, CurrentIsLast DEF ScopeInv
  <1>4. PICK o : NewObject(name, o) /\ t = Push(Binding(c, o), d)
    BY DEF Binds, BoundStack
  <1>5. o \in Objects /\ (d # <<>> /\ d[1].pos = c => o = d[1].decl)
    BY <1>4 DEF NewObject, Top
  <1>6. None \notin Objects
    BY Bounds
  <1> HIDE DEF s, d, A, c
  <1>7. t \in Seq(Bindings(Objects)) /\ Sorted(t, A) /\ t[1].pos \in A /\ Extended(d, t, A, c)
    BY <1>1, <1>2, <1>3, <1>4, <1>5, <1>6, BindKept
  <1>8. Extended(s, t, A, c)
    BY <1>2, <1>7, ExtendedTrans
  <1>9. \A i \in DOMAIN t : t[i].pos \in DOMAIN nodes
    BY <1>1, <1>3, <1>4, <1>5, PushWithin
  <1> QED
    BY <1>7, <1>8, <1>9 DEF s, A, c

(* Whatever happens, the stack of a name stays sorted and the open scopes *)
(* keep their bindings.                                                   *)
LEMMA StackKept ==
  ASSUME ScopeInv, ScopeInv', MapsStep, Grown \/ Shrunk \/ Settled,
         NEW name \in Names, Sorted(declarationMap[name], OpenNodes)
  PROVE  /\ Sorted(declarationMap'[name], OpenNodes')
         /\ Extended(declarationMap[name], declarationMap'[name], OpenNodes \cap OpenNodes',
                     currentPos)
  <1> DEFINE s == declarationMap[name]
             t == declarationMap'[name]
             A == OpenNodes
             B == OpenNodes \cap OpenNodes'
             c == currentPos
             new == Len(nodes) + 1
  <1>1. /\ s \in Seq(Bindings(Objects)) /\ \A i \in DOMAIN s : s[i].pos \in DOMAIN nodes
        /\ Declared(name) \in Seq(Bindings(Objects))
        /\ \A i \in DOMAIN Declared(name) : Declared(name)[i].pos \in DOMAIN nodes
    BY DeclaredStack DEF ScopeInv
  <1>2. /\ A \in SUBSET Nat /\ \A p \in A : p <= c /\ p \in DOMAIN nodes
        /\ DOMAIN nodes = 1 .. Len(nodes) /\ Len(nodes) \in Nat
        /\ c \in DOMAIN nodes
    BY OpenNodesTyped, CurrentIsLast DEF ScopeInv
  <1>3. t \in Seq(Bindings(Objects))
    <2>1. \A n \in Names : declarationMap'[n] \in Seq(Declaration(DOMAIN nodes')) /\ DOMAIN nodes' \in SUBSET Nat
      <3>1. MapsTyped' /\ (DOMAIN nodes \in SUBSET Nat)'
        BY TypedMaps, NodesNumbered, PTL DEF ScopeInv
      <3> QED
        BY <3>1 DEF MapsTyped
    <2> DEFINE N == DOMAIN nodes'
    <2>2. t \in Seq(Declaration(N)) /\ N \in SUBSET Nat
      BY <2>1
    <2> HIDE DEF N, t
    <2>3. t \in Seq(Declaration(Nat))
      BY <2>2, Widen
    <2> QED
      BY <2>3 DEF Declaration, Bindings
  <1>4. StackStep(name)
    BY DEF MapsStep
  <1>5. CASE t = s
    <2>1. Sorted(t, OpenNodes')
      BY <1>1, <1>5, SortedNext
    <2> QED
      BY <1>5, <2>1 DEF Extended
  <1>6. CASE Trims(s, t)
    <2>1. PICK m : Without(s, m, t) /\ \A i \in 1 .. m : ~nodes'[s[i].pos].active
      BY <1>6 DEF Trims
    <2>2. \A i \in 1 .. m : i \in DOMAIN s
      <3> HIDE DEF s, t
      <3> QED
        BY <1>1, <2>1 DEF Without
    <2>3. \A i \in 1 .. m : s[i].pos \notin B
      <3>1. (OpenNodes \subseteq DOMAIN nodes)'
        BY OpenNodesNumbered, PTL DEF ScopeInv
      <3> QED
        BY <1>1, <2>1, <2>2, <3>1 DEF ScopeInv, ActiveIsOpen
    <2>4. Sorted(s, A)
      OBVIOUS
    <2>5. \A i \in DOMAIN t : t[i].pos \in DOMAIN nodes
      <3> HIDE DEF s, t
      <3>1. \A i \in DOMAIN t : i + m \in DOMAIN s /\ t[i] = s[i + m]
        <4>1. /\ DOMAIN s = 1 .. Len(s) /\ DOMAIN t = 1 .. Len(t) /\ Len(s) \in Nat /\ Len(t) \in Nat
              /\ m \in 0 .. Len(s) /\ Len(t) = Len(s) - m /\ \A i \in 1 .. Len(t) : t[i] = s[i + m]
          BY <1>1, <1>3, <2>1 DEF Without
        <4> QED
          BY <4>1
      <3> QED
        BY <1>1, <3>1
    <2> HIDE DEF s, t, B, c
    <2>6. Sorted(t, A) /\ Extended(s, t, B, c)
      <3> HIDE DEF A
      <3>1. Sorted(t, A)
        BY <1>1, <1>3, <2>1, <2>4, SortedTrim
      <3>2. Extended(s, t, B, c)
        BY <1>1, <1>3, <2>1, <2>3, TrimKept
      <3> QED
        BY <3>1, <3>2
    <2>7. Sorted(t, OpenNodes')
      BY <1>3, <2>5, <2>6, SortedNext
    <2> QED
      BY <2>6, <2>7 DEF s, t, B, c
  <1>7. CASE Binds(name, t)
    <2> HIDE DEF t
    <2>1. /\ Sorted(t, OpenNodes) /\ \A i \in DOMAIN t : t[i].pos \in DOMAIN nodes
          /\ Extended(s, t, OpenNodes, c)
      BY <1>7, BindsKept
    <2>2. Sorted(t, OpenNodes')
      BY <1>3, <2>1, SortedNext
    <2> QED
      BY <2>1, <2>2 DEF Extended, t
  <1>8. CASE BindsInside(name, t)
    <2>1. PICK v, u : /\ v \in Objects /\ currentPos' \notin DOMAIN nodes
                      /\ t = Push(Binding(currentPos', v), u)
                      /\ u = Declared(name) \/ Binds(name, u)
      BY <1>8 DEF BindsInside
    <2>2. Grown
      <3>1. (currentPos \in DOMAIN nodes)'
        BY CurrentNumbered, PTL DEF ScopeInv
      <3> QED
        BY <1>2, <2>1, <3>1 DEF Shrunk, Settled
    <2>3. /\ u \in Seq(Bindings(Objects)) /\ Sorted(u, OpenNodes)
          /\ u = <<>> \/ u[1].pos \in OpenNodes
          /\ \A i \in DOMAIN u : u[i].pos \in DOMAIN nodes
          /\ Extended(s, u, OpenNodes, c)
      <3>1. CASE u = Declared(name)
        BY <1>1, <3>1, DeclaredKept
      <3>2. CASE Binds(name, u)
        BY <3>2, BindsKept
      <3> QED
        BY <2>1, <3>1, <3>2
    <2>4. /\ new \in Nat /\ \A p \in A : p < new
          /\ \A i \in DOMAIN u : u[i].pos # new
          /\ t = Push(Binding(new, v), u) /\ OpenNodes' = A \union {new}
      BY <1>2, <2>1, <2>2, <2>3 DEF Grown
    <2>5. Sorted(u, A) /\ (u = <<>> \/ u[1].pos \in A) /\ Extended(s, u, A, c)
      BY <2>3
    <2>6. \A p \in B : p \in A
      OBVIOUS
    <2> HIDE DEF s, t, A, c, new, B
    <2>7. Sorted(t, OpenNodes') /\ Extended(u, t, A, c)
      BY <1>2, <2>1, <2>3, <2>4, <2>5, InsideKept
    <2>8. Extended(s, t, A, c)
      BY <2>5, <2>7, ExtendedTrans
    <2>9. Extended(s, t, B, c)
      BY <2>6, <2>8 DEF Extended
    <2> QED
      BY <2>7, <2>9 DEF s, t, B, c
  <1> QED
    BY <1>4, <1>5, <1>6, <1>7, <1>8 DEF StackStep

-----------------------------------------------------------------------------
(* The stacks of the tags: a struct is bound in the scope around its own.  *)

AsBindings(s, ns) == [k \in DOMAIN s |-> Binding(ns[s[k].node].parent, s[k].node)]
TagStack(tag) == AsBindings(structMap[tag], nodes)
HangIn(s) == \A k \in DOMAIN s : s[k].node # Root
TagsHang == \A tag \in Tags : HangIn(structMap[tag])

(* The stack of a tag as bindings, each in the scope around the struct. *)
LEMMA AsBindingsIs ==
  ASSUME NEW ns, Tree(ns), NEW s \in Seq(Tagged(DOMAIN ns)), HangIn(s)
  PROVE  /\ AsBindings(s, ns) \in Seq(Bindings(NodeIndex))
         /\ Len(AsBindings(s, ns)) = Len(s) /\ DOMAIN AsBindings(s, ns) = DOMAIN s
         /\ \A k \in DOMAIN s : /\ s[k].node \in DOMAIN ns
                                /\ AsBindings(s, ns)[k].pos = ns[s[k].node].parent
                                /\ AsBindings(s, ns)[k].decl = s[k].node
                                /\ AsBindings(s, ns)[k].pos \in DOMAIN ns
         /\ AsBindings(s, ns) = <<>> <=> s = <<>>
  <1> DEFINE a == AsBindings(s, ns)
  <1>1. /\ DOMAIN s = 1 .. Len(s) /\ Len(s) \in Nat
        /\ \A k \in DOMAIN s : s[k] \in Tagged(DOMAIN ns)
    OBVIOUS
  <1>2. /\ \A n \in DOMAIN ns : n \in NodeIndex /\ n \in Nat
        /\ \A n \in DOMAIN ns : n # Root => ns[n].parent \in DOMAIN ns
    <2>1. DOMAIN ns = 1 .. Len(ns) /\ Len(ns) \in 1 .. MaxNodes /\ MaxNodes \in Nat
      BY Bounds DEF Tree
    <2>2. \A n \in DOMAIN ns : n # Root => ns[n].parent \in 1 .. n - 1
      BY DEF Tree
    <2> QED
      BY <2>1, <2>2, Bounds
  <1>3. ASSUME NEW k \in DOMAIN s
        PROVE  /\ s[k].node \in DOMAIN ns /\ a[k] \in Bindings(NodeIndex)
               /\ a[k].pos = ns[s[k].node].parent /\ a[k].decl = s[k].node
               /\ a[k].pos \in DOMAIN ns
    <2>1. s[k].node \in DOMAIN ns /\ s[k].node # Root
      BY <1>1 DEF Tagged, HangIn
    <2>2. ns[s[k].node].parent \in DOMAIN ns
      BY <1>2, <2>1
    <2>3. a[k] = Binding(ns[s[k].node].parent, s[k].node)
      BY DEF AsBindings
    <2> QED
      BY <1>2, <2>1, <2>2, <2>3 DEF Binding, Bindings
  <1>4. a = [k \in 1 .. Len(s) |-> a[k]]
    BY <1>1 DEF AsBindings
  <1>5. DOMAIN a = DOMAIN s
    BY DEF AsBindings
  <1> HIDE DEF a
  <1>6. a \in [1 .. Len(s) -> Bindings(NodeIndex)]
    BY <1>1, <1>3, <1>4
  <1>7. a \in Seq(Bindings(NodeIndex)) /\ Len(a) = Len(s)
    BY <1>1, <1>6
  <1>8. a = <<>> <=> s = <<>>
    BY <1>1, <1>7
  <1> QED
    BY <1>3, <1>5, <1>7, <1>8 DEF a

(* Dropping entries is the same in both forms ... *)
LEMMA AsBindingsTrim ==
  ASSUME NEW ns, Tree(ns), NEW s \in Seq(Tagged(DOMAIN ns)), HangIn(s),
         NEW t \in Seq(Tagged(DOMAIN ns)), NEW m, Without(s, m, t)
  PROVE  /\ HangIn(t)
         /\ Without(AsBindings(s, ns), m, AsBindings(t, ns))
  <1>1. /\ DOMAIN s = 1 .. Len(s) /\ DOMAIN t = 1 .. Len(t) /\ Len(s) \in Nat /\ Len(t) \in Nat
        /\ m \in 0 .. Len(s) /\ Len(t) = Len(s) - m /\ \A i \in 1 .. Len(t) : t[i] = s[i + m]
    BY DEF Without
  <1>2. \A i \in DOMAIN t : i + m \in DOMAIN s /\ t[i] = s[i + m]
    BY <1>1
  <1>3. HangIn(t)
    BY <1>2 DEF HangIn
  <1>4. /\ Len(AsBindings(s, ns)) = Len(s) /\ Len(AsBindings(t, ns)) = Len(t)
    BY <1>3, AsBindingsIs
  <1>5. \A i \in DOMAIN t : AsBindings(t, ns)[i] = AsBindings(s, ns)[i + m]
    BY <1>2 DEF AsBindings
  <1> QED
    BY <1>1, <1>3, <1>4, <1>5 DEF Without

(* ... and so is pushing. *)
LEMMA AsBindingsPush ==
  ASSUME NEW ns, Tree(ns), NEW s \in Seq(Tagged(DOMAIN ns)), HangIn(s),
         NEW e \in Tagged(DOMAIN ns), e.node # Root
  PROVE  /\ HangIn(Push(e, s))
         /\ AsBindings(Push(e, s), ns) = Push(Binding(ns[e.node].parent, e.node), AsBindings(s, ns))
  <1> DEFINE t == Push(e, s)
             b == Binding(ns[e.node].parent, e.node)
             a == AsBindings(s, ns)
             c == AsBindings(t, ns)
             S == Bindings(NodeIndex)
  <1>1. /\ t \in Seq(Tagged(DOMAIN ns)) /\ Len(t) = Len(s) + 1 /\ DOMAIN t = 1 .. Len(s) + 1
        /\ t[1] = e /\ \A k \in 2 .. Len(s) + 1 : t[k] = s[k - 1]
    BY PushIs
  <1>2. DOMAIN s = 1 .. Len(s) /\ Len(s) \in Nat
    OBVIOUS
  <1> HIDE DEF t
  <1>3. \A k \in DOMAIN t : k = 1 \/ (k \in 2 .. Len(s) + 1 /\ k - 1 \in DOMAIN s)
    BY <1>1, <1>2
  <1>4. HangIn(t)
    BY <1>1, <1>3 DEF HangIn
  <1>5. /\ a \in Seq(S) /\ Len(a) = Len(s) /\ c \in Seq(S) /\ Len(c) = Len(s) + 1
        /\ DOMAIN c = 1 .. Len(s) + 1
    BY <1>1, <1>4, AsBindingsIs
  <1>6. c[1] = b /\ 1 \in DOMAIN c
    <2>1. 1 \in DOMAIN t
      BY <1>1, <1>2
    <2> QED
      BY <1>1, <1>5, <2>1 DEF AsBindings
  <1>7. \A k \in 2 .. Len(s) + 1 : c[k] = a[k - 1]
    <2>1. ASSUME NEW k \in 2 .. Len(s) + 1 PROVE c[k] = a[k - 1]
      <3>1. k \in DOMAIN t /\ k - 1 \in DOMAIN s /\ t[k] = s[k - 1]
        BY <1>1, <1>2
      <3> QED
        BY <3>1 DEF AsBindings
    <2> QED
      BY <2>1
  <1>8. b \in S
    BY <1>5, <1>6
  <1> HIDE DEF a, b, c, S
  <1>9. /\ Push(b, a) \in Seq(S) /\ Len(Push(b, a)) = Len(s) + 1 /\ Push(b, a)[1] = b
        /\ \A k \in 2 .. Len(s) + 1 : Push(b, a)[k] = a[k - 1]
    BY <1>5, <1>8, PushIs
  <1>10. \A k \in 1 .. Len(c) : c[k] = Push(b, a)[k]
    <2>1. \A k \in 1 .. Len(c) : k = 1 \/ k \in 2 .. Len(s) + 1
      BY <1>2, <1>5
    <2> QED
      BY <1>6, <1>7, <1>9, <2>1
  <1>11. c = Push(b, a)
    BY <1>5, <1>9, <1>10, SeqEqual
  <1> QED
    BY <1>4, <1>11 DEF a, b, c, t

(* Only the places of the nodes matter. *)
LEMMA AsBindingsStay ==
  ASSUME NEW ns, NEW s \in Seq(Tagged(DOMAIN ns)), NEW ms,
         \A k \in DOMAIN ns : ms[k].parent = ns[k].parent
  PROVE  AsBindings(s, ms) = AsBindings(s, ns)
  <1>1. \A k \in DOMAIN s : s[k].node \in DOMAIN ns
    <2>1. \A k \in DOMAIN s : s[k] \in Tagged(DOMAIN ns)
      OBVIOUS
    <2> QED
      BY <2>1 DEF Tagged
  <1> QED
    BY <1>1 DEF AsBindings

(* The stack of a tag stays, loses entries when it is looked at, or gets   *)
(* an entry for a new node of the current scope that has none yet.         *)
AddsTag(tag) ==
  /\ \E f \in BOOLEAN :
       structMap'[tag] = Push([node |-> Len(nodes) + 1, forward |-> f], Structs(tag))
  /\ Len(nodes) + 1 \in DOMAIN nodes' /\ nodes'[Len(nodes) + 1].parent = currentPos
  /\ Structs(tag) # <<>> => nodes[Structs(tag)[1].node].parent # currentPos
TagStep(tag) == \/ structMap'[tag] = structMap[tag]
                \/ structMap'[tag] = Structs(tag)
                \/ AddsTag(tag)
TagsStep == \A tag \in Tags : TagStep(tag)

(* Stacks that stay are the simplest case. *)
LEMMA TagsIdle == structMap' = structMap => TagsStep
  BY DEF TagsStep, TagStep

(* A step at one tag leaves the others alone. *)
LEMMA TagsElsewhere ==
  ASSUME TypeInv, NEW tag \in Tags, NEW t, structMap' = [structMap EXCEPT ![tag] = t],
         t = Structs(tag) \/ (structMap'[tag] = t => AddsTag(tag))
  PROVE  TagsStep
  <1>1. structMap \in [Tags -> Seq(Tagged(DOMAIN nodes))]
    BY TypeParts DEF TypeInv
  <1>2. structMap'[tag] = t /\ \A u \in Tags : u # tag => structMap'[u] = structMap[u]
    BY <1>1
  <1> QED
    BY <1>2 DEF TagsStep, TagStep

(* A push on nothing. *)
LEMMA PushEmpty == ASSUME NEW e PROVE Push(e, <<>>) = <<e>>
  <1> DEFINE S == {e}
             s == <<e>>
             t == Push(e, <<>>)
  <1>1. t \in Seq(S) /\ Len(t) = Len(<<>>) + 1 /\ t[1] = e
    <2>1. e \in S /\ <<>> \in Seq(S)
      OBVIOUS
    <2> QED
      BY <2>1, PushIs
  <1>2. s \in Seq(S) /\ Len(s) = 1 /\ s[1] = e /\ Len(<<>>) = 0
    OBVIOUS
  <1> HIDE DEF s, t, S
  <1>3. \A k \in 1 .. Len(t) : t[k] = s[k]
    BY <1>1, <1>2
  <1> QED
    BY <1>1, <1>2, <1>3, SeqEqual DEF s, t

(* Each action is such a step: a variable of struct type ... *)
LEMMA DeclareStructTags ==
  ASSUME TypeInv, NEW kind \in {"struct", "pointer"}, NEW name \in Names, NEW tag \in Tags,
         DeclareStruct(kind, name, tag)
  PROVE  TagsStep
  <1> DEFINE new == Object(StructType(kind, NodeFor(tag)))
             object == ScopeObject(name, new)
             all == NodesFor(tag)
             ms == nodes'
             body == Len(nodes) + 1
  <1>1. CASE Refuse
    BY <1>1, TagsIdle DEF Refuse, maps
  <1>2. CASE ~Refuse
    <2>1. /\ declarations < MaxDeclarations /\ Len(NodesFor(tag)) <= MaxNodes
          /\ object # None
          /\ kind = "struct" => ~Incomplete(NodesFor(tag)[NodeFor(tag)])
          /\ structMap' = [structMap EXCEPT ![tag] = StackFor(tag)]
          /\ BindName(name, object, all)
      BY <1>2, DeclareStructIs
    <2>2. CASE Structs(tag) # <<>>
      <3>1. StackFor(tag) = Structs(tag)
        BY <2>2 DEF StackFor
      <3> QED
        BY <2>1, <3>1, TagsElsewhere
    <2>3. CASE Structs(tag) = <<>>
      <3> DEFINE yes == TRUE
                 e == [node |-> body, forward |-> yes]
      <3>1. StackFor(tag) = <<e>>
        BY <2>3 DEF StackFor
      <3>2. yes \in BOOLEAN
        OBVIOUS
      <3>3. new \in Objects
        BY <2>1, DeclareStructNew
      <3>4. /\ Tree(all) /\ DOMAIN nodes \subseteq DOMAIN all
            /\ DOMAIN all = 1 .. body /\ all[body] = ForwardNode
        BY <2>1, <2>3, NodesForTyped
      <3>5. /\ Len(nodes) \in Nat /\ currentPos \in DOMAIN nodes /\ body \in DOMAIN all
        BY <3>4, OpenNodesTyped
      <3>6. ForwardNode.parent = currentPos
        BY DEF ForwardNode, NewNode
      <3>7. ms = Named(all, currentPos, name, object)
        BY <2>1 DEF BindName, Named
      <3> HIDE DEF new, yes, e, all, ms
      <3>8. object \in Objects
        BY <2>1, <3>3, ScopeObjectIs
      <3> HIDE DEF object
      <3>9. DOMAIN ms = DOMAIN all /\ SameParents(all, ms)
        <4>1. Tree(all) /\ currentPos \in DOMAIN all
          BY <3>4, <3>5
        <4> QED
          BY <3>7, <3>8, <4>1, TreeNames
      <3>10. body \in DOMAIN ms /\ ms[body].parent = currentPos
        BY <3>4, <3>5, <3>6, <3>9 DEF SameParents
      <3>11. Push(e, Structs(tag)) = <<e>>
        BY <2>3, PushEmpty
      <3>12. ASSUME structMap'[tag] = <<e>> PROVE AddsTag(tag)
        BY <2>3, <3>2, <3>10, <3>11, <3>12 DEF AddsTag, ms, e
      <3> QED
        BY <2>1, <3>1, <3>12, TagsElsewhere
    <2> QED
      BY <2>2, <2>3
  <1> QED
    BY <1>1, <1>2

(* ... the start of a struct, as long as its node is a new one ... *)
LEMMA BeginStructTags ==
  ASSUME TypeInv, ~DefineForward, NEW tag \in Tags, BeginStruct(tag)
  PROVE  TagsStep
  <1> DEFINE no == FALSE
             ms == nodes'
             e == [node |-> Len(nodes) + 1, forward |-> no]
  <1>1. CASE Refuse
    BY <1>1, TagsIdle DEF Refuse, maps
  <1>2. CASE ~Refuse
    <2>1. /\ Structs(tag) # <<>> => nodes[Structs(tag)[1].node].parent # currentPos
          /\ Len(nodes) < MaxNodes
          /\ structMap' = [structMap EXCEPT ![tag] = Push(e, Structs(tag))]
          /\ ms = Append(nodes, NewNode(currentPos, TRUE, FALSE))
      BY <1>2, BeginStructIs DEF Top
    <2>2. no \in BOOLEAN
      OBVIOUS
    <2> HIDE DEF ms, no
    <2>3. Len(nodes) + 1 \in DOMAIN ms /\ ms[Len(nodes) + 1].parent = currentPos
      BY <2>1, StructNodes
    <2>4. ASSUME structMap'[tag] = Push(e, Structs(tag)) PROVE AddsTag(tag)
      BY <2>1, <2>2, <2>3, <2>4 DEF AddsTag, ms
    <2> HIDE DEF e
    <2> QED
      BY <2>1, <2>4, TagsElsewhere
  <1> QED
    BY <1>1, <1>2

(* ... and whatever else happens. *)
LEMMA TagsSteps == TypeInv /\ ~DefineForward /\ [Next]_vars => TagsStep
  <1> SUFFICES ASSUME TypeInv, ~DefineForward, [Next]_vars PROVE TagsStep
    OBVIOUS
  <1>1. ASSUME NEW name \in Names, NEW tag \in Tags, NEW kind \in {"struct", "pointer"},
               DeclareStruct(kind, name, tag)
        PROVE  TagsStep
    BY <1>1, DeclareStructTags
  <1>2. ASSUME NEW tag \in Tags, BeginStruct(tag) PROVE TagsStep
    BY <1>2, BeginStructTags
  <1>3. ASSUME NEW name \in Names, NEW s \in Signatures, NEW parameter \in Names,
               \/ DeclareInt(name) \/ DeclareFunction(name, s)
               \/ BeginFunction(name, s, parameter) \/ LookUpType(name)
        PROVE  TagsStep
    BY <1>3, TagsIdle DEF DeclareInt, DeclareFunction, BeginFunction, LookUpType, Refuse, maps
  <1>4. CASE \/ BeginBlock \/ EndScope \/ EndFunction
             \/ (\E l \in Labels : AddLabel(l) \/ AddGotoLabel(l))
             \/ IncreaseLoopDepth \/ DecreaseLoopDepth \/ JumpOutsideLoop
    BY <1>4, TagsIdle DEF BeginBlock, EndScope, EndFunction, AddLabel, AddGotoLabel,
       IncreaseLoopDepth, DecreaseLoopDepth, JumpOutsideLoop, Refuse, maps
  <1>5. CASE UNCHANGED vars
    BY <1>5, TagsIdle DEF vars, maps
  <1>6. ASSUME NEW name \in Names, DeclareInt(name) \/ LookUpType(name) PROVE TagsStep
    BY <1>6, TagsIdle DEF DeclareInt, LookUpType, Refuse, maps
  <1>7. ASSUME NEW name \in Names, NEW s \in Signatures, DeclareFunction(name, s) PROVE TagsStep
    BY <1>7, TagsIdle DEF DeclareFunction, Refuse, maps
  <1> QED
    BY <1>1, <1>2, <1>3, <1>4, <1>5, <1>6, <1>7 DEF Next

(* The stack of a tag, and what is left of it after a look-up, as bindings. *)
LEMMA StructsStack ==
  ASSUME TypeInv, NEW tag \in Tags, HangIn(structMap[tag])
  PROVE  /\ HangIn(Structs(tag))
         /\ TagStack(tag) \in Seq(Bindings(NodeIndex))
         /\ AsBindings(Structs(tag), nodes) \in Seq(Bindings(NodeIndex))
         /\ \A i \in DOMAIN TagStack(tag) : TagStack(tag)[i].pos \in DOMAIN nodes
         /\ \A i \in DOMAIN AsBindings(Structs(tag), nodes) :
              AsBindings(Structs(tag), nodes)[i].pos \in DOMAIN nodes
  <1>1. /\ structMap[tag] \in Seq(Tagged(DOMAIN nodes))
        /\ Structs(tag) \in Seq(Tagged(DOMAIN nodes))
        /\ \E m : Without(structMap[tag], m, Structs(tag))
    BY StructsIs
  <1>2. Tree(nodes)
    BY TypeParts DEF TypeInv
  <1>3. HangIn(Structs(tag))
    BY <1>1, <1>2, AsBindingsTrim
  <1> QED
    BY <1>1, <1>2, <1>3, AsBindingsIs DEF TagStack

(* Of the structs of closed scopes those above are dropped. *)
LEMMA StructsKept ==
  ASSUME ScopeInv, NEW tag \in Tags, HangIn(structMap[tag]), Sorted(TagStack(tag), OpenNodes),
         NEW cur, NEW d, d = AsBindings(Structs(tag), nodes)
  PROVE  /\ Sorted(d, OpenNodes)
         /\ d = <<>> \/ d[1].pos \in OpenNodes
         /\ Extended(TagStack(tag), d, OpenNodes, cur)
         /\ \A p \in OpenNodes : BoundAt(d, p) = BoundAt(TagStack(tag), p)
  <1> DEFINE q == structMap[tag]
             r == Structs(tag)
             s == TagStack(tag)
             A == OpenNodes
  <1>1. /\ s \in Seq(Bindings(NodeIndex)) /\ d \in Seq(Bindings(NodeIndex))
        /\ \A i \in DOMAIN s : s[i].pos \in DOMAIN nodes
        /\ \A i \in DOMAIN d : d[i].pos \in DOMAIN nodes
        /\ HangIn(r) /\ HangIn(q)
    BY StructsStack DEF ScopeInv
  <1>2. PICK m : /\ Without(q, m, r) /\ \A i \in 1 .. m : ~Active(nodes[q[i].node].parent)
                 /\ r # <<>> => Active(nodes[r[1].node].parent)
    BY StructsIs DEF ScopeInv
  <1>3. /\ Tree(nodes) /\ q \in Seq(Tagged(DOMAIN nodes)) /\ r \in Seq(Tagged(DOMAIN nodes))
    BY TypeParts, StructsIs DEF ScopeInv, TypeInv
  <1>4. \A k \in DOMAIN nodes : Active(k) <=> k \in A
    <2>1. None \notin DOMAIN nodes
      BY Bounds, TypeParts DEF ScopeInv, TypeInv, Tree
    <2> QED
      BY <2>1 DEF ScopeInv, ActiveIsOpen, Active
  <1>5. s = AsBindings(q, nodes)
    BY DEF TagStack
  <1> HIDE DEF q, r, s
  <1>6. /\ DOMAIN s = DOMAIN q /\ \A k \in DOMAIN q : s[k].pos = nodes[q[k].node].parent
        /\ DOMAIN d = DOMAIN r /\ \A k \in DOMAIN r : d[k].pos = nodes[r[k].node].parent
        /\ d = <<>> <=> r = <<>>
    BY <1>1, <1>3, <1>5, AsBindingsIs DEF r
  <1>7. Without(s, m, d)
    BY <1>1, <1>2, <1>3, <1>5, AsBindingsTrim DEF r
  <1>8. \A i \in 1 .. m : i \in DOMAIN s
    BY <1>1, <1>7 DEF Without
  <1>9. \A i \in 1 .. m : s[i].pos \notin A
    BY <1>1, <1>2, <1>4, <1>6, <1>8
  <1>10. d = <<>> \/ d[1].pos \in A
    <2>1. d # <<>> => 1 \in DOMAIN d
      BY <1>1
    <2> QED
      BY <1>1, <1>2, <1>4, <1>6, <2>1
  <1>11. Sorted(s, A)
    BY DEF s
  <1> HIDE DEF A
  <1>12. Sorted(d, A)
    BY <1>1, <1>7, <1>11, SortedTrim
  <1>13. ASSUME NEW p \in A PROVE BoundAt(d, p) = BoundAt(s, p)
    <2>1. \A i \in 1 .. m : s[i].pos # p
      BY <1>9, <1>13
    <2> QED
      BY <1>1, <1>7, <2>1, BoundTrim
  <1>14. Extended(s, d, A, cur)
    BY <1>13 DEF Extended
  <1> QED
    BY <1>10, <1>12, <1>13, <1>14 DEF s, A

(* A new struct is pushed on what is left of its tag's stack. *)
LEMMA AddedTag ==
  ASSUME ScopeInv, NodesStep, (Tree(nodes))', NEW tag \in Tags, HangIn(structMap[tag]),
         AddsTag(tag)
  PROVE  /\ HangIn(structMap'[tag])
         /\ Len(nodes) + 1 \in NodeIndex
         /\ TagStack(tag)' = Push(Binding(currentPos, Len(nodes) + 1),
                                  AsBindings(Structs(tag), nodes))
         /\ LET d == AsBindings(Structs(tag), nodes)
            IN  ~(d # <<>> /\ d[1].pos = currentPos)
  <1> DEFINE r == Structs(tag)
             d == AsBindings(r, nodes)
             body == Len(nodes) + 1
             ms == nodes'
             t == structMap'[tag]
  <1>1. PICK f \in BOOLEAN : t = Push([node |-> body, forward |-> f], r)
    BY DEF AddsTag
  <1>2. /\ body \in DOMAIN ms /\ ms[body].parent = currentPos
        /\ r # <<>> => nodes[r[1].node].parent # currentPos
    BY DEF AddsTag
  <1>3. Tree(ms)
    OBVIOUS
  <1>4. /\ Tree(nodes) /\ r \in Seq(Tagged(DOMAIN nodes)) /\ HangIn(r)
    BY TypeParts, StructsIs, StructsStack DEF ScopeInv, TypeInv
  <1>5. DOMAIN nodes \subseteq DOMAIN ms /\ \A k \in DOMAIN nodes : ms[k].parent = nodes[k].parent
    BY DEF NodesStep
  <1>6. body # Root
    <2>1. Len(nodes) \in NodeIndex
      BY <1>4 DEF Tree
    <2> QED
      BY <2>1, Bounds DEF Root
  <1>7. body \in NodeIndex
    <2> HIDE DEF ms, body
    <2>1. Len(ms) \in NodeIndex /\ DOMAIN ms = 1 .. Len(ms)
      BY <1>3 DEF Tree
    <2> QED
      BY <1>2, <2>1, Bounds
  <1>8. /\ DOMAIN d = DOMAIN r /\ \A k \in DOMAIN r : d[k].pos = nodes[r[k].node].parent
        /\ d = <<>> <=> r = <<>>
    BY <1>4, AsBindingsIs
  <1>9. r # <<>> => 1 \in DOMAIN r
    <2> HIDE DEF r
    <2> QED
      BY <1>4
  <1>10. TagStack(tag)' = AsBindings(t, ms)
    BY DEF TagStack
  <1>11. HangIn(t) /\ AsBindings(t, ms) = Push(Binding(currentPos, body), d)
    <2> DEFINE e == [node |-> body, forward |-> f]
    <2>1. e \in Tagged(DOMAIN ms) /\ e.node = body
      BY <1>2 DEF Tagged
    <2>2. t = Push(e, r)
      BY <1>1
    <2>3. r \in Seq(Tagged(DOMAIN ms))
      BY <1>4, <1>5, Widen
    <2>4. AsBindings(r, ms) = d
      BY <1>4, <1>5, AsBindingsStay
    <2> HIDE DEF e, t, ms, d, r, body
    <2>5. /\ HangIn(Push(e, r))
          /\ AsBindings(Push(e, r), ms) = Push(Binding(ms[e.node].parent, e.node), AsBindings(r, ms))
      BY <1>3, <1>4, <1>6, <2>1, <2>3, AsBindingsPush
    <2> QED
      BY <1>2, <2>1, <2>2, <2>4, <2>5
  <1> QED
    BY <1>2, <1>7, <1>8, <1>9, <1>10, <1>11

(* Whatever happens, the stack of a tag stays sorted and the open scopes *)
(* keep their structs.                                                   *)
LEMMA TagStackKept ==
  ASSUME ScopeInv, ScopeInv', NodesStep, TagsStep, Grown \/ Shrunk \/ Settled,
         NEW tag \in Tags, HangIn(structMap[tag]), Sorted(TagStack(tag), OpenNodes)
  PROVE  /\ HangIn(structMap'[tag])
         /\ Sorted(TagStack(tag)', OpenNodes')
         /\ Extended(TagStack(tag), TagStack(tag)', OpenNodes \cap OpenNodes', currentPos)
  <1> DEFINE s == TagStack(tag)
             t == TagStack(tag)'
             r == AsBindings(Structs(tag), nodes)
             A == OpenNodes
             B == OpenNodes \cap OpenNodes'
             c == currentPos
  <1>1. /\ s \in Seq(Bindings(NodeIndex)) /\ \A i \in DOMAIN s : s[i].pos \in DOMAIN nodes
        /\ r \in Seq(Bindings(NodeIndex)) /\ \A i \in DOMAIN r : r[i].pos \in DOMAIN nodes
        /\ HangIn(Structs(tag))
    BY StructsStack DEF ScopeInv
  <1>2. /\ Sorted(r, A) /\ (r = <<>> \/ r[1].pos \in A) /\ Extended(s, r, A, c)
    BY StructsKept
  <1>3. /\ structMap[tag] \in Seq(Tagged(DOMAIN nodes))
        /\ Structs(tag) \in Seq(Tagged(DOMAIN nodes))
    BY StructsIs DEF ScopeInv
  <1>4. \A k \in DOMAIN nodes : nodes'[k].parent = nodes[k].parent
    BY DEF NodesStep
  <1>5. TagStep(tag)
    BY DEF TagsStep
  <1>6. CASE structMap'[tag] = structMap[tag]
    <2>1. t = s
      BY <1>3, <1>4, <1>6, AsBindingsStay DEF TagStack
    <2> HIDE DEF s, t
    <2>2. Sorted(s, OpenNodes')
      BY <1>1, SortedNext DEF s
    <2> QED
      BY <1>6, <2>1, <2>2 DEF Extended, s, t
  <1>7. CASE structMap'[tag] = Structs(tag)
    <2>1. t = r
      BY <1>3, <1>4, <1>7, AsBindingsStay DEF TagStack
    <2>2. Sorted(r, OpenNodes') /\ Extended(s, r, B, c)
      <3> HIDE DEF r, s
      <3>1. Sorted(r, OpenNodes')
        BY <1>1, <1>2, SortedNext
      <3> QED
        BY <1>2, <3>1 DEF Extended
    <2> QED
      BY <1>1, <1>7, <2>1, <2>2
  <1>8. CASE AddsTag(tag)
    <2> DEFINE o == Len(nodes) + 1
    <2>1. (Tree(nodes))'
      BY TypeParts, PTL DEF ScopeInv, TypeInv
    <2>2. /\ HangIn(structMap'[tag]) /\ o \in NodeIndex
          /\ t = Push(Binding(c, o), r) /\ ~(r # <<>> /\ r[1].pos = c)
      BY <1>8, <2>1, AddedTag
    <2>3. /\ A \in SUBSET Nat /\ c \in A /\ \A p \in A : p <= c /\ c \in DOMAIN nodes
          /\ None \notin NodeIndex
      BY OpenNodesTyped, CurrentIsLast, Bounds DEF ScopeInv
    <2> HIDE DEF s, t, r, A, c, o
    <2>4. /\ t \in Seq(Bindings(NodeIndex)) /\ Sorted(t, A) /\ Extended(r, t, A, c)
      BY <1>1, <1>2, <2>2, <2>3, BindKept
    <2>5. Extended(s, t, A, c)
      BY <1>2, <2>4, ExtendedTrans
    <2>6. \A i \in DOMAIN t : t[i].pos \in DOMAIN nodes
      BY <1>1, <2>2, <2>3, PushWithin
    <2>7. Sorted(t, OpenNodes')
      <3>1. Sorted(t, OpenNodes)
        BY <2>4 DEF A
      <3> QED
        BY <2>4, <2>6, <3>1, SortedNext
    <2>8. Extended(s, t, B, c)
      BY <2>5 DEF Extended, A
    <2> QED
      BY <2>2, <2>7, <2>8 DEF s, t, c
  <1> QED
    BY <1>5, <1>6, <1>7, <1>8 DEF TagStep

-----------------------------------------------------------------------------
(* The stacks are sorted by the open scopes in every state.                *)

BoundInv == /\ ScopeInv /\ TagsHang
            /\ \A name \in Names : Sorted(declarationMap[name], OpenNodes)
            /\ \A tag \in Tags : Sorted(TagStack(tag), OpenNodes)

(* No scope that stays open loses or changes a binding, and only the       *)
(* innermost one gains any.                                                *)
BoundStep ==
  LET both == OpenNodes \cap OpenNodes' IN
  /\ \A name \in Names :
       Extended(declarationMap[name], declarationMap'[name], both, currentPos)
  /\ \A tag \in Tags : Extended(TagStack(tag), TagStack(tag)', both, currentPos)

(* Empty stacks are sorted ... *)
LEMMA BoundInit == Init => BoundInv
  <1> SUFFICES ASSUME Init PROVE BoundInv
    OBVIOUS
  <1>1. ScopeInv
    BY ScopeInit
  <1>2. /\ \A name \in Names : declarationMap[name] = <<>>
        /\ \A tag \in Tags : structMap[tag] = <<>>
    BY DEF Init
  <1>3. DOMAIN <<>> = {}
    OBVIOUS
  <1>4. \A name \in Names : Sorted(declarationMap[name], OpenNodes)
    BY <1>2, <1>3 DEF Sorted
  <1>5. \A tag \in Tags : DOMAIN TagStack(tag) = {}
    BY <1>2, <1>3 DEF TagStack, AsBindings
  <1>6. \A tag \in Tags : Sorted(TagStack(tag), OpenNodes)
    BY <1>5 DEF Sorted
  <1>7. TagsHang
    BY <1>2, <1>3 DEF TagsHang, HangIn
  <1> QED
    BY <1>1, <1>4, <1>6, <1>7 DEF BoundInv

(* ... every step keeps them sorted and changes bindings as said. *)
LEMMA BoundNext == BoundInv /\ ~DefineForward /\ [Next]_vars => BoundInv' /\ BoundStep
  <1> SUFFICES ASSUME BoundInv, ~DefineForward, [Next]_vars PROVE BoundInv' /\ BoundStep
    OBVIOUS
  <1>1. /\ ScopeInv /\ ScopeInv' /\ NodesStep /\ MapsStep /\ (Grown \/ Shrunk \/ Settled)
    BY ScopeNext DEF BoundInv
  <1>2. TagsStep
    BY <1>1, TagsSteps DEF ScopeInv
  <1>3. ASSUME NEW name \in Names
        PROVE  /\ Sorted(declarationMap'[name], OpenNodes')
               /\ Extended(declarationMap[name], declarationMap'[name], OpenNodes \cap OpenNodes',
                           currentPos)
    <2>1. Sorted(declarationMap[name], OpenNodes)
      BY DEF BoundInv
    <2> QED
      BY <1>1, <2>1, StackKept
  <1>4. ASSUME NEW tag \in Tags
        PROVE  /\ HangIn(structMap'[tag]) /\ Sorted(TagStack(tag)', OpenNodes')
               /\ Extended(TagStack(tag), TagStack(tag)', OpenNodes \cap OpenNodes', currentPos)
    <2>1. HangIn(structMap[tag]) /\ Sorted(TagStack(tag), OpenNodes)
      BY DEF BoundInv, TagsHang
    <2> QED
      BY <1>1, <1>2, <2>1, TagStackKept
  <1>5. BoundInv'
    BY <1>1, <1>3, <1>4 DEF BoundInv, TagsHang
  <1>6. BoundStep
    BY <1>3, <1>4 DEF BoundStep
  <1> QED
    BY <1>5, <1>6

(* What the scope at place d binds, in the stacks. *)
LEMMA VarsBound == \A p : \A name \in Names : VarsOf(p)[name] = BoundAt(declarationMap[name], p)
  BY DEF VarsOf, BoundAt, Here

(* What a scope binds a tag to is what the stack has for it. *)
LEMMA TagsBound ==
  ASSUME TypeInv, NEW p, NEW tag \in Tags, HangIn(structMap[tag])
  PROVE  TagsOf(p)[tag] = BoundAt(TagStack(tag), p)
  <1> DEFINE q == structMap[tag]
             s == TagStack(tag)
             H == {k \in DOMAIN q : nodes[q[k].node].parent = p}
  <1>1. Tree(nodes) /\ q \in Seq(Tagged(DOMAIN nodes))
    BY TypeParts DEF TypeInv
  <1>2. /\ DOMAIN s = DOMAIN q
        /\ \A k \in DOMAIN q : s[k].pos = nodes[q[k].node].parent /\ s[k].decl = q[k].node
    BY <1>1, AsBindingsIs DEF TagStack
  <1>3. Here(s, p) = H
    <2> HIDE DEF s, q
    <2> QED
      BY <1>2 DEF Here
  <1>4. TagsOf(p)[tag] = IF H = {} THEN None ELSE Topmost(q, H).node
    BY DEF TagsOf
  <1>5. ASSUME H # {} PROVE Topmost(q, H).node = Topmost(s, H).decl
    <2>1. H \in SUBSET Nat /\ H \subseteq DOMAIN q
      <3>1. DOMAIN q = 1 .. Len(q) /\ Len(q) \in Nat
        BY <1>1
      <3> QED
        BY <3>1
    <2> HIDE DEF H, q, s
    <2>2. Min(H) \in H
      BY <1>5, <2>1, LeastMember
    <2> QED
      BY <1>2, <1>5, <2>1, <2>2 DEF Topmost
  <1> HIDE DEF s, H
  <1> QED
    BY <1>3, <1>4, <1>5 DEF BoundAt, s

(* The top of a sorted stack is the binding of the innermost open scope    *)
(* that has one.                                                           *)
TellsOf(f, d, A) == \A k \in 1 .. Cardinality(A) : f[k] = BoundAt(d, Ascending(A)[k])
Holders(f, A) == {k \in 1 .. Cardinality(A) : f[k] # None}
Finds(d, f, H) == IF H = {} THEN d = <<>>
                            ELSE d # <<>> /\ Max(H) \in H /\ d[1].decl = f[Max(H)]

(* The entry that a look-up finds is that of the innermost scope that has *)
(* one: below it there are only entries of scopes further out.            *)
LEMMA TopIsInnermost ==
  ASSUME NEW D, None \notin D, NEW d \in Seq(Bindings(D)), NEW A \in SUBSET Nat, IsFiniteSet(A),
         Sorted(d, A), d = <<>> \/ d[1].pos \in A, NEW f, TellsOf(f, d, A)
  PROVE  Finds(d, f, Holders(f, A))
  <1> DEFINE H == Holders(f, A)
  <1>0. /\ \A k \in 1 .. Cardinality(A) : f[k] = BoundAt(d, Ascending(A)[k])
        /\ H = {k \in 1 .. Cardinality(A) : f[k] # None}
    BY DEF TellsOf, Holders
  <1> HIDE DEF H
  <1> SUFFICES IF H = {} THEN d = <<>>
                         ELSE d # <<>> /\ Max(H) \in H /\ d[1].decl = f[Max(H)]
    BY DEF Finds, H
  <1>1. /\ DOMAIN d = 1 .. Len(d) /\ Len(d) \in Nat
    OBVIOUS
  <1>2. CASE d = <<>>
    <2>1. \A p : Here(d, p) = {}
      BY <1>1, <1>2 DEF Here
    <2>2. \A k \in 1 .. Cardinality(A) : f[k] = None
      BY <1>0, <2>1 DEF BoundAt
    <2> QED
      BY <1>0, <1>2, <2>2
  <1>3. CASE d # <<>>
    <2> DEFINE p == d[1].pos
               r == Rank(A, p)
    <2>1. /\ BoundAt(d, p) = d[1].decl /\ 1 \in DOMAIN d /\ d[1].decl \in D /\ p \in A
      BY <1>3, BoundTop DEF Bindings
    <2> HIDE DEF p
    <2>2. r \in 1 .. Cardinality(A) /\ Ascending(A)[r] = p /\ Cardinality(A) \in Nat
      BY <2>1, AscendingIs
    <2>3. f[r] = d[1].decl /\ r \in H
      BY <1>0, <2>1, <2>2
    <2>4. ASSUME NEW k \in H PROVE k <= r
      <3> DEFINE q == Ascending(A)[k]
      <3>1. k \in 1 .. Cardinality(A) /\ BoundAt(d, q) # None
        BY <1>0, <2>4
      <3>2. q \in A /\ Rank(A, q) = k
        BY <3>1, AscendingIs
      <3> HIDE DEF q
      <3>3. Here(d, q) # {}
        BY <3>1 DEF BoundAt
      <3>4. PICK i \in DOMAIN d : d[i].pos = q
        BY <3>3 DEF Here
      <3>5. q <= p
        <4>1. i = 1 \/ 1 < i
          BY <1>1
        <4>2. i = 1 => q = p
          BY <3>4 DEF p
        <4>3. 1 < i => q <= p
          BY <2>1, <3>4 DEF Sorted, p
        <4>4. \A a \in A : a \in Nat
          OBVIOUS
        <4> QED
          BY <2>1, <3>2, <4>1, <4>2, <4>3, <4>4
      <3>6. p \in Nat /\ q \in Nat /\ k \in Nat /\ r \in Nat
        BY <2>1, <2>2, <3>1, <3>2
      <3>7. p # q => q < p
        BY <3>5, <3>6
      <3>8. p # q => k < r
        BY <2>1, <3>2, <3>7, AscendingIs
      <3>9. p = q => k = r
        BY <3>2
      <3> QED
        BY <3>6, <3>8, <3>9
    <2> HIDE DEF r
    <2>5. \A k \in H : k \in Nat
      BY <1>0, <2>2
    <2>6. r \in H /\ \A k \in H : r >= k
      BY <2>2, <2>3, <2>4, <2>5
    <2>7. Max(H) \in H /\ \A k \in H : Max(H) >= k
      BY <2>6 DEF Max
    <2>8. Max(H) = r
      <3>1. Max(H) >= r /\ r >= Max(H) /\ Max(H) \in Nat /\ r \in Nat
        BY <2>5, <2>6, <2>7
      <3> QED
        BY <3>1
    <2> QED
      BY <1>3, <2>3, <2>7, <2>8
  <1> QED
    BY <1>2, <1>3

(* The bindings of the open scopes, outermost first. *)
LEMMA ScopesAre ==
  ASSUME BoundInv
  PROVE  /\ OpenNodes \in SUBSET Nat /\ IsFiniteSet(OpenNodes)
         /\ DOMAIN Scopes = 1 .. Cardinality(OpenNodes)
         /\ \A k \in 1 .. Cardinality(OpenNodes) :
              /\ Scopes[k] = [vars |-> VarsOf(Ascending(OpenNodes)[k]),
                              tags |-> TagsOf(Ascending(OpenNodes)[k])]
              /\ \A name \in Names :
                   Scopes[k].vars[name] = BoundAt(declarationMap[name], Ascending(OpenNodes)[k])
              /\ \A tag \in Tags :
                   Scopes[k].tags[tag] = BoundAt(TagStack(tag), Ascending(OpenNodes)[k])
  <1>1. OpenNodes \in SUBSET Nat /\ IsFiniteSet(OpenNodes)
    BY OpenNodesTyped DEF BoundInv, ScopeInv
  <1>2. DOMAIN ScopeNodes = 1 .. Cardinality(OpenNodes) /\ ScopeNodes = Ascending(OpenNodes)
    BY <1>1, ScopesAscend, AscendingIs
  <1>3. /\ DOMAIN Scopes = 1 .. Cardinality(OpenNodes)
        /\ \A k \in 1 .. Cardinality(OpenNodes) :
             Scopes[k] = [vars |-> VarsOf(Ascending(OpenNodes)[k]),
                          tags |-> TagsOf(Ascending(OpenNodes)[k])]
    BY <1>2 DEF Scopes
  <1>4. \A tag \in Tags : HangIn(structMap[tag])
    BY DEF BoundInv, TagsHang
  <1>5. \A p : \A tag \in Tags : TagsOf(p)[tag] = BoundAt(TagStack(tag), p)
    BY <1>4, TagsBound DEF BoundInv, ScopeInv
  <1> QED
    BY <1>1, <1>3, <1>5, VarsBound

(* So a name is looked up lexically ... *)
LEMMA LooksUpName ==
  ASSUME BoundInv, NEW name \in Names,
         NEW H, H = {k \in DOMAIN Scopes : Scopes[k].vars[name] # None}
  PROVE  IF H = {} THEN Declared(name) = <<>>
         ELSE Declared(name) # <<>> /\ Top(Declared(name)).decl = Scopes[Max(H)].vars[name]
  <1> DEFINE A == OpenNodes
             n == Cardinality(A)
             d == Declared(name)
             f == [k \in 1 .. n |-> Scopes[k].vars[name]]
  <1>1. /\ A \in SUBSET Nat /\ IsFiniteSet(A) /\ DOMAIN Scopes = 1 .. n
        /\ None \notin Objects
        /\ \A k \in 1 .. n : f[k] = BoundAt(declarationMap[name], Ascending(A)[k])
    BY ScopesAre, Bounds
  <1>2. \A k \in 1 .. n : Ascending(A)[k] \in A
    BY <1>1, AscendingIs
  <1>3. d \in Seq(Bindings(Objects))
    BY DeclaredStack DEF BoundInv, ScopeInv
  <1>4. /\ Sorted(d, A) /\ (d = <<>> \/ d[1].pos \in A)
        /\ \A p \in A : BoundAt(d, p) = BoundAt(declarationMap[name], p)
    BY DeclaredKept DEF BoundInv
  <1>5. \A k \in 1 .. n : f[k] = BoundAt(d, Ascending(A)[k])
    BY <1>1, <1>2, <1>4
  <1>6. TellsOf(f, d, A) /\ H = Holders(f, A) /\ H = {k \in 1 .. n : f[k] # None}
    BY <1>1, <1>5 DEF TellsOf, Holders
  <1>7. \A k \in H : f[k] = Scopes[k].vars[name]
    BY <1>6
  <1> HIDE DEF d, f, A, n
  <1>8. Finds(d, f, H)
    <2>1. A \in SUBSET Nat /\ IsFiniteSet(A) /\ None \notin Objects
      BY <1>1
    <2>2. Sorted(d, A) /\ (d = <<>> \/ d[1].pos \in A)
      BY <1>4
    <2>3. TellsOf(f, d, A) /\ H = Holders(f, A)
      BY <1>6
    <2>4. Finds(d, f, Holders(f, A))
      BY <1>3, <2>1, <2>2, <2>3, TopIsInnermost
    <2> QED
      BY <2>3, <2>4
  <1> QED
    BY <1>7, <1>8 DEF Finds, Top, d

(* ... and so is a tag. *)
LEMMA LooksUpTag ==
  ASSUME BoundInv, NEW tag \in Tags,
         NEW H, H = {k \in DOMAIN Scopes : Scopes[k].tags[tag] # None}
  PROVE  IF H = {} THEN Structs(tag) = <<>>
         ELSE Structs(tag) # <<>> /\ Top(Structs(tag)).node = Scopes[Max(H)].tags[tag]
  <1> DEFINE A == OpenNodes
             n == Cardinality(A)
             r == Structs(tag)
             d == AsBindings(r, nodes)
             f == [k \in 1 .. n |-> Scopes[k].tags[tag]]
  <1>1. /\ A \in SUBSET Nat /\ IsFiniteSet(A) /\ DOMAIN Scopes = 1 .. n
        /\ None \notin NodeIndex
        /\ \A k \in 1 .. n : f[k] = BoundAt(TagStack(tag), Ascending(A)[k])
    BY ScopesAre, Bounds
  <1>2. \A k \in 1 .. n : Ascending(A)[k] \in A
    BY <1>1, AscendingIs
  <1>3. HangIn(structMap[tag])
    BY DEF BoundInv, TagsHang
  <1>4. d \in Seq(Bindings(NodeIndex)) /\ HangIn(r)
    BY <1>3, StructsStack DEF BoundInv, ScopeInv
  <1>5. /\ Sorted(d, A) /\ (d = <<>> \/ d[1].pos \in A)
        /\ \A p \in A : BoundAt(d, p) = BoundAt(TagStack(tag), p)
    BY <1>3, StructsKept DEF BoundInv
  <1>6. \A k \in 1 .. n : f[k] = BoundAt(d, Ascending(A)[k])
    BY <1>1, <1>2, <1>5
  <1>7. TellsOf(f, d, A) /\ H = Holders(f, A) /\ H = {k \in 1 .. n : f[k] # None}
    BY <1>1, <1>6 DEF TellsOf, Holders
  <1>8. \A k \in H : f[k] = Scopes[k].tags[tag]
    BY <1>7
  <1>9. /\ d = <<>> <=> r = <<>>
        /\ d # <<>> => d[1].decl = r[1].node
    <2>1. Tree(nodes) /\ r \in Seq(Tagged(DOMAIN nodes))
      BY TypeParts, StructsIs DEF BoundInv, ScopeInv, TypeInv
    <2>2. /\ DOMAIN d = DOMAIN r /\ (d = <<>> <=> r = <<>>)
          /\ \A k \in DOMAIN r : d[k].decl = r[k].node
      BY <1>4, <2>1, AsBindingsIs
    <2>3. r # <<>> => 1 \in DOMAIN r
      <3> HIDE DEF r
      <3> QED
        BY <2>1
    <2> QED
      BY <2>2, <2>3
  <1> HIDE DEF d, f, A, n, r
  <1>10. Finds(d, f, H)
    <2>1. A \in SUBSET Nat /\ IsFiniteSet(A) /\ None \notin NodeIndex
      BY <1>1
    <2>2. Sorted(d, A) /\ (d = <<>> \/ d[1].pos \in A)
      BY <1>5
    <2>3. TellsOf(f, d, A) /\ H = Holders(f, A)
      BY <1>7
    <2>4. Finds(d, f, Holders(f, A))
      BY <1>4, <2>1, <2>2, <2>3, TopIsInnermost
    <2> QED
      BY <2>3, <2>4
  <1> QED
    BY <1>8, <1>9, <1>10 DEF Finds, Top, r

(***************************************************************************)
(* A look-up of an identifier or of a struct's tag finds what the          *)
(* innermost open scope binds it to, although the stacks keep the entries  *)
(* of scopes that were left until somebody looks (semantic.cc:151, :285).  *)
(***************************************************************************)
THEOREM LookUpFindsInnermost == ASSUME ~DefineForward PROVE Spec => []LookUpIsLexical
  <1>1. BoundInv /\ [Next]_vars => BoundInv'
    BY BoundNext
  <1>2. BoundInv => LookUpIsLexical
    BY LooksUpName, LooksUpTag DEF LookUpIsLexical
  <1> QED
    BY <1>1, <1>2, BoundInit, PTL DEF Spec

-----------------------------------------------------------------------------
(* The open scopes as a stack of bindings, and how it changes.             *)

InOrder(A, f) == [k \in 1 .. Cardinality(A) |-> f[Ascending(A)[k]]]
ScopeAt(p) == [vars |-> [name \in Names |-> BoundAt(declarationMap[name], p)],
               tags |-> [tag \in Tags |-> BoundAt(TagStack(tag), p)]]
ScopesOf == [p \in OpenNodes |-> ScopeAt(p)]

(* s is the sequence of the values f has on A, in the order of A. *)
Lists(s, A, f) == /\ Len(s) = Cardinality(A) /\ s \in Seq({f[p] : p \in A})
                  /\ \A k \in 1 .. Cardinality(A) : s[k] = f[Ascending(A)[k]]

(* The list in ascending order. *)
LEMMA InOrderIs ==
  ASSUME NEW A \in SUBSET Nat, IsFiniteSet(A), NEW f
  PROVE  Lists(InOrder(A, f), A, f)
  <1> DEFINE s == InOrder(A, f)
             n == Cardinality(A)
             S == {f[p] : p \in A}
  <1>1. n \in Nat /\ \A k \in 1 .. n : Ascending(A)[k] \in A
    BY AscendingIs
  <1>2. /\ DOMAIN s = 1 .. n /\ \A k \in 1 .. n : s[k] = f[Ascending(A)[k]]
        /\ s = [k \in 1 .. n |-> s[k]]
    BY DEF InOrder
  <1>3. \A k \in 1 .. n : s[k] \in S
    BY <1>1, <1>2
  <1> HIDE DEF n, S, s
  <1>4. s \in [1 .. n -> S]
    BY <1>2, <1>3
  <1>5. s \in Seq(S) /\ Len(s) = n
    BY <1>1, <1>4
  <1> QED
    BY <1>2, <1>5 DEF Lists, n, S, s

(* The innermost scope is the last. *)
LEMMA LastIs ==
  ASSUME NEW A \in SUBSET Nat, IsFiniteSet(A), NEW c \in A, \A p \in A : p <= c
  PROVE  /\ Ascending(A)[Cardinality(A)] = c /\ Cardinality(A) \in Nat \ {0}
         /\ \A k \in 1 .. Cardinality(A) - 1 :
              k \in 1 .. Cardinality(A) /\ Ascending(A)[k] \in A /\ Ascending(A)[k] # c
  <1>1. {q \in A : q <= c} = A
    OBVIOUS
  <1>2. Rank(A, c) = Cardinality(A)
    BY <1>1 DEF Rank
  <1>3. Cardinality(A) \in 1 .. Cardinality(A) /\ Ascending(A)[Cardinality(A)] = c
    BY <1>2, AscendingIs
  <1>4. Cardinality(A) \in Nat \ {0}
    BY <1>3, AscendingIs
  <1>5. ASSUME NEW k \in 1 .. Cardinality(A) - 1
        PROVE  k \in 1 .. Cardinality(A) /\ Ascending(A)[k] \in A /\ Ascending(A)[k] # c
    <2>1. k \in 1 .. Cardinality(A) /\ k # Cardinality(A)
      BY <1>4
    <2>2. Ascending(A)[k] \in A /\ Rank(A, Ascending(A)[k]) = k
      BY <2>1, AscendingIs
    <2> QED
      BY <1>2, <2>1, <2>2
  <1> QED
    BY <1>3, <1>4, <1>5

(* How the scopes f of the places A may become the scopes g. *)
Gained(A, c, f, g) == /\ \A p \in A : p # c => g[p] = f[p]
                      /\ c \in A => Lexical!Extends(f[c], g[c])

(* Gaining bindings in the innermost scope is what LexicalScopes allows. *)
LEMMA BoundIsBound ==
  ASSUME NEW A \in SUBSET Nat, IsFiniteSet(A), NEW c \in A, \A p \in A : p <= c,
         NEW f, NEW g, Gained(A, c, f, g), NEW s, Lists(s, A, f),
         NEW t, \A k \in 1 .. Cardinality(A) : t[k] = g[Ascending(A)[k]]
  PROVE  Lexical!Bound(s, t)
  <1> DEFINE n == Cardinality(A)
  <1>1. Len(s) = n /\ \A k \in 1 .. n : s[k] = f[Ascending(A)[k]]
    BY DEF Lists
  <1>2. /\ Ascending(A)[n] = c /\ n \in Nat \ {0}
        /\ \A k \in 1 .. n - 1 : k \in 1 .. n /\ Ascending(A)[k] \in A /\ Ascending(A)[k] # c
    BY LastIs
  <1>3. n \in 1 .. n
    BY <1>2
  <1>4. \A k \in 1 .. n - 1 : t[k] = s[k]
    <2>1. ASSUME NEW k \in 1 .. n - 1 PROVE t[k] = s[k]
      <3>1. k \in 1 .. n /\ Ascending(A)[k] \in A /\ Ascending(A)[k] # c
        BY <1>2
      <3>2. s[k] = f[Ascending(A)[k]] /\ t[k] = g[Ascending(A)[k]]
        BY <1>1, <3>1
      <3> QED
        BY <3>1, <3>2 DEF Gained
    <2> QED
      BY <2>1
  <1> HIDE DEF n
  <1>5. Lexical!Extends(s[n], t[n])
    BY <1>1, <1>2, <1>3 DEF Gained, n
  <1> QED
    BY <1>1, <1>4, <1>5 DEF Lexical!Bound

(* A step that opens and closes no scope is a Bind ... *)
LEMMA SettledBinds ==
  ASSUME NEW A \in SUBSET Nat, IsFiniteSet(A), NEW c \in A, \A p \in A : p <= c,
         NEW f, NEW g, Gained(A, c, f, g),
         NEW s, Lists(s, A, f), NEW t, Lists(t, A, g)
  PROVE  Lexical!Bind(s, t)
  <1>1. /\ Len(s) = Cardinality(A) /\ Len(t) = Cardinality(A)
        /\ \A k \in 1 .. Cardinality(A) : t[k] = g[Ascending(A)[k]]
    BY DEF Lists
  <1>2. Lexical!Bound(s, t)
    BY <1>1, BoundIsBound
  <1> QED
    BY <1>1, <1>2 DEF Lexical!Bind

(* ... one that opens a scope an Enter ... *)
LEMMA GrownEnters ==
  ASSUME NEW A \in SUBSET Nat, IsFiniteSet(A), NEW c \in A, \A p \in A : p <= c,
         NEW f, NEW g, Gained(A, c, f, g), NEW m \in Nat, \A p \in A : p < m,
         NEW B, B = A \union {m},
         NEW s, Lists(s, A, f), NEW t, Lists(t, B, g)
  PROVE  Lexical!Enter(s, t)
  <1>1. /\ Cardinality(B) = Cardinality(A) + 1
        /\ \A k \in 1 .. Cardinality(A) : Ascending(B)[k] = Ascending(A)[k]
    BY AscendingAdd
  <1>3. /\ Len(s) = Cardinality(A) /\ Cardinality(A) \in Nat
        /\ Len(t) = Cardinality(B)
        /\ \A k \in 1 .. Cardinality(B) : t[k] = g[Ascending(B)[k]]
    BY FS_CardinalityType DEF Lists
  <1>4. \A k \in 1 .. Cardinality(A) : t[k] = g[Ascending(A)[k]]
    <2>1. \A k \in 1 .. Cardinality(A) : k \in 1 .. Cardinality(B)
      BY <1>1, <1>3
    <2> QED
      BY <1>1, <1>3, <2>1
  <1>5. Lexical!Bound(s, t)
    BY <1>4, BoundIsBound
  <1> QED
    BY <1>1, <1>3, <1>5 DEF Lexical!Enter

(* ... and one that closes it a Leave. *)
LEMMA ShrunkLeaves ==
  ASSUME NEW B \in SUBSET Nat, IsFiniteSet(B), B # {}, NEW c \in Nat, \A p \in B : p < c,
         NEW A, A = B \union {c}, NEW f, NEW g, Gained(B, c, f, g),
         NEW s, Lists(s, A, f), NEW t, Lists(t, B, g)
  PROVE  Lexical!Leave(s, t)
  <1> DEFINE S == {f[p] : p \in A}
             n == Cardinality(B)
             u == SubSeq(s, 1, Len(s) - 1)
  <1>3. /\ Cardinality(A) = n + 1
        /\ \A k \in 1 .. n : Ascending(A)[k] = Ascending(B)[k] /\ Ascending(B)[k] \in B
    <2>1. /\ Cardinality(A) = Cardinality(B) + 1
          /\ \A k \in 1 .. Cardinality(B) : Ascending(A)[k] = Ascending(B)[k]
      BY AscendingAdd
    <2>2. \A k \in 1 .. Cardinality(B) : Ascending(B)[k] \in B
      BY AscendingIs
    <2> QED
      BY <2>1, <2>2
  <1>4. n \in Nat /\ n # 0
    BY FS_CardinalityType, FS_EmptySet
  <1> HIDE DEF n
  <1>5. /\ Len(s) = n + 1 /\ s \in Seq(S)
        /\ \A k \in 1 .. n + 1 : s[k] = f[Ascending(A)[k]]
    BY <1>3 DEF Lists, n
  <1>6. /\ Len(t) = n /\ t \in Seq({g[p] : p \in B})
        /\ \A k \in 1 .. n : t[k] = g[Ascending(B)[k]]
    BY DEF Lists, n
  <1>7. \A k \in 1 .. n : t[k] = s[k]
    <2>1. \A p \in B : g[p] = f[p]
      BY DEF Gained
    <2>2. \A k \in 1 .. n : k \in 1 .. n + 1
      BY <1>4
    <2>3. ASSUME NEW k \in 1 .. n PROVE t[k] = s[k]
      <3>1. t[k] = g[Ascending(B)[k]] /\ Ascending(B)[k] \in B
        BY <1>3, <1>6
      <3>2. s[k] = f[Ascending(B)[k]]
        BY <1>3, <1>5, <2>2
      <3> QED
        BY <2>1, <3>1, <3>2
    <2> QED
      BY <2>3
  <1>8. /\ Len(u) = n /\ u \in Seq(S) /\ \A k \in 1 .. n : u[k] = s[k]
    <2> HIDE DEF S
    <2>1. Len(s) - 1 = n
      BY <1>4, <1>5
    <2>2. u = SubSeq(s, 1, n)
      BY <2>1
    <2>3. n <= Len(s)
      BY <1>4, <1>5
    <2> HIDE DEF u
    <2> QED
      BY <1>4, <1>5, <2>2, <2>3
  <1>9. t = u
    <2> HIDE DEF u, S
    <2>1. \A k \in 1 .. n : t[k] = u[k]
      BY <1>7, <1>8
    <2> QED
      BY <1>6, <1>8, <2>1, SeqEqual
  <1>10. Len(s) > 1
    BY <1>4, <1>5
  <1> QED
    BY <1>9, <1>10 DEF Lexical!Leave

(* The refinement mapping lists the open scopes ... *)
LEMMA ScopesInOrder == BoundInv => Scopes = InOrder(OpenNodes, ScopesOf)
  <1> SUFFICES ASSUME BoundInv PROVE Scopes = InOrder(OpenNodes, ScopesOf)
    OBVIOUS
  <1>1. OpenNodes \in SUBSET Nat /\ IsFiniteSet(OpenNodes)
    BY ScopesAre
  <1>2. /\ DOMAIN ScopeNodes = 1 .. Cardinality(OpenNodes) /\ ScopeNodes = Ascending(OpenNodes)
        /\ \A k \in 1 .. Cardinality(OpenNodes) : Ascending(OpenNodes)[k] \in OpenNodes
    BY <1>1, ScopesAscend, AscendingIs
  <1>3. ASSUME NEW p PROVE [vars |-> VarsOf(p), tags |-> TagsOf(p)] = ScopeAt(p)
    <2>1. VarsOf(p) = [name \in Names |-> BoundAt(declarationMap[name], p)]
      BY DEF VarsOf, BoundAt, Here
    <2>2. \A tag \in Tags : HangIn(structMap[tag])
      BY DEF BoundInv, TagsHang
    <2>3. \A tag \in Tags : TagsOf(p)[tag] = BoundAt(TagStack(tag), p)
      BY <2>2, TagsBound DEF BoundInv, ScopeInv
    <2>4. TagsOf(p) = [tag \in Tags |-> BoundAt(TagStack(tag), p)]
      <3>1. TagsOf(p) = [tag \in Tags |-> TagsOf(p)[tag]]
        BY DEF TagsOf
      <3> QED
        BY <2>3, <3>1
    <2> QED
      BY <2>1, <2>4 DEF ScopeAt
  <1>4. Scopes = [k \in 1 .. Cardinality(OpenNodes) |-> ScopeAt(Ascending(OpenNodes)[k])]
    BY <1>2, <1>3 DEF Scopes
  <1>5. \A k \in 1 .. Cardinality(OpenNodes) :
          ScopesOf[Ascending(OpenNodes)[k]] = ScopeAt(Ascending(OpenNodes)[k])
    BY <1>2 DEF ScopesOf
  <1> QED
    BY <1>4, <1>5 DEF InOrder

(* ... with what each binds. *)
LEMMA ScopesListed == BoundInv => Lists(Scopes, OpenNodes, ScopesOf)
  <1> SUFFICES ASSUME BoundInv PROVE Lists(Scopes, OpenNodes, ScopesOf)
    OBVIOUS
  <1>1. OpenNodes \in SUBSET Nat /\ IsFiniteSet(OpenNodes)
    BY ScopesAre
  <1>2. Lists(InOrder(OpenNodes, ScopesOf), OpenNodes, ScopesOf)
    BY <1>1, InOrderIs
  <1> QED
    BY <1>2, ScopesInOrder

(* The scopes that stay open. *)
LEMMA StepGains ==
  ASSUME BoundStep
  PROVE  Gained(OpenNodes \cap OpenNodes', currentPos, ScopesOf, ScopesOf')
  <1> DEFINE B == OpenNodes \cap OpenNodes'
  <1>1. \A p \in B : ScopesOf[p] = ScopeAt(p) /\ ScopesOf'[p] = ScopeAt(p)'
    BY DEF ScopesOf
  <1>2. ASSUME NEW p \in B, p # currentPos PROVE ScopeAt(p)' = ScopeAt(p)
    <2>1. /\ \A name \in Names : BoundAt(declarationMap'[name], p) = BoundAt(declarationMap[name], p)
          /\ \A tag \in Tags : BoundAt(TagStack(tag)', p) = BoundAt(TagStack(tag), p)
      BY <1>2 DEF BoundStep, Extended
    <2> QED
      BY <2>1 DEF ScopeAt
  <1>3. ASSUME NEW p \in B PROVE Lexical!Extends(ScopeAt(p), ScopeAt(p)')
    <2>1. /\ \A name \in Names : BoundAt(declarationMap[name], p) # None =>
               BoundAt(declarationMap'[name], p) = BoundAt(declarationMap[name], p)
          /\ \A tag \in Tags : BoundAt(TagStack(tag), p) # None =>
               BoundAt(TagStack(tag)', p) = BoundAt(TagStack(tag), p)
      BY <1>3 DEF BoundStep, Extended
    <2> QED
      BY <2>1 DEF Lexical!Extends, ScopeAt
  <1> QED
    BY <1>1, <1>2, <1>3 DEF Gained

(* Every step is one of LexicalScopes. *)
LEMMA StepsImplement ==
  BoundInv /\ ~DefineForward /\ [Next]_vars => Lexical!Next
  <1> SUFFICES ASSUME BoundInv, ~DefineForward, [Next]_vars PROVE Lexical!Next
    OBVIOUS
  <1> DEFINE A == OpenNodes
             B == OpenNodes'
             c == currentPos
             f == ScopesOf
             g == ScopesOf'
             s == Scopes
             t == Scopes'
  <1>1. /\ BoundInv' /\ BoundStep /\ TypeInv /\ TypeInv' /\ Falling /\ (Grown \/ Shrunk \/ Settled)
    BY BoundNext, ScopeNext DEF BoundInv, ScopeInv
  <1>2. Lists(s, A, f) /\ Lists(t, B, g)
    <2>1. (Lists(Scopes, OpenNodes, ScopesOf))'
      BY <1>1, ScopesListed, PTL
    <2> QED
      BY <2>1, ScopesListed
  <1>3. Gained(A \cap B, c, f, g)
    BY <1>1, StepGains
  <1>4. /\ A \in SUBSET Nat /\ IsFiniteSet(A) /\ c \in A /\ Root \in A
        /\ \A p \in A : p <= c /\ p \in DOMAIN nodes
        /\ DOMAIN nodes = 1 .. Len(nodes) /\ Len(nodes) \in Nat
    BY <1>1, OpenNodesTyped, CurrentIsLast
  <1>5. Lexical!Bind(s, t) \/ Lexical!Enter(s, t) \/ Lexical!Leave(s, t)
    <2>1. CASE Settled
      <3>1. B = A /\ A \cap B = A
        BY <2>1 DEF Settled
      <3>2. Lists(t, A, g) /\ Gained(A, c, f, g)
        BY <1>2, <1>3, <3>1
      <3> HIDE DEF A, B, c, f, g, s, t
      <3>3. Lexical!Bind(s, t)
        BY <1>2, <1>4, <3>2, SettledBinds
      <3> QED
        BY <3>3
    <2>2. CASE Grown
      <3> DEFINE m == Len(nodes) + 1
      <3>1. B = A \union {m} /\ A \cap B = A
        BY <2>2 DEF Grown
      <3>2. m \in Nat /\ \A p \in A : p < m
        BY <1>4
      <3>3. Gained(A, c, f, g)
        BY <1>3, <3>1
      <3> HIDE DEF A, B, c, f, g, s, t, m
      <3>4. Lexical!Enter(s, t)
        BY <1>2, <1>4, <3>1, <3>2, <3>3, GrownEnters
      <3> QED
        BY <3>4
    <2>3. CASE Shrunk
      <3>1. B = A \ {c} /\ A \cap B = B /\ Root \in B
        BY <1>4, <2>3 DEF Shrunk
      <3>2. Gained(B, c, f, g) /\ B # {}
        BY <1>3, <3>1
      <3> HIDE DEF A, B, c, f, g, s, t
      <3>3. B \in SUBSET Nat /\ c \in Nat /\ A = B \union {c} /\ IsFiniteSet(B)
        BY <1>4, <3>1, FS_RemoveElement
      <3>4. \A p \in B : p < c
        <4>1. \A p \in B : p \in Nat /\ p <= c /\ p # c
          BY <1>4, <3>1, <3>3
        <4> QED
          BY <3>3, <4>1
      <3>5. Lists(s, A, f) /\ Lists(t, B, g)
        BY <1>2
      <3>6. Lexical!Leave(s, t)
        BY <3>2, <3>3, <3>4, <3>5, ShrunkLeaves
      <3> QED
        BY <3>6
    <2> QED
      BY <1>1, <2>1, <2>2, <2>3
  <1> QED
    BY <1>5 DEF Lexical!Next, Lexical!Step

(* At first there is one scope that binds nothing. *)
LEMMA InitImplements == Init => Lexical!Init
  <1> SUFFICES ASSUME Init PROVE Lexical!Init
    OBVIOUS
  <1>1. BoundInv
    BY BoundInit
  <1>2. OpenNodes = {Root} /\ Root \in Nat
    BY DEF Init, OpenNodes, Root
  <1>3. ScopeAt(Root) = Lexical!Unbound
    <2>1. /\ \A name \in Names : BoundAt(declarationMap[name], Root) = None
          /\ \A tag \in Tags : BoundAt(TagStack(tag), Root) = None
      <3>1. DOMAIN <<>> = {}
        OBVIOUS
      <3>2. /\ \A name \in Names : DOMAIN declarationMap[name] = {}
            /\ \A tag \in Tags : DOMAIN TagStack(tag) = {}
        BY <3>1 DEF Init, TagStack, AsBindings
      <3> QED
        BY <3>2 DEF BoundAt, Here
    <2> QED
      BY <2>1 DEF ScopeAt, Lexical!Unbound
  <1> DEFINE A == {Root}
             u == Lexical!Unbound
             s == Scopes
  <1>4. /\ A \in SUBSET Nat /\ IsFiniteSet(A) /\ Cardinality(A) = 1
        /\ Root \in A /\ \A p \in A : p <= Root
    <2>1. IsFiniteSet(A) /\ Cardinality(A) = 1
      BY FS_Singleton
    <2>2. \A p \in A : p = Root /\ Root <= Root
      BY <1>2
    <2> QED
      BY <1>2, <2>1, <2>2
  <1>5. Ascending(A)[1] = Root
    <2> HIDE DEF A
    <2>1. Ascending(A)[Cardinality(A)] = Root
      BY <1>4, LastIs
    <2> QED
      BY <1>4, <2>1
  <1>6. Lists(s, A, ScopesOf) /\ ScopesOf[Root] = u
    BY <1>1, <1>2, <1>3, ScopesListed DEF ScopesOf
  <1> HIDE DEF A, s, u
  <1>7. Len(s) = 1 /\ s[1] = u /\ s \in Seq({ScopesOf[p] : p \in A})
    <2>1. 1 \in 1 .. Cardinality(A)
      BY <1>4
    <2> QED
      BY <1>4, <1>5, <1>6, <2>1 DEF Lists
  <1>8. s = <<u>>
    <2> DEFINE w == <<u>>
    <2>1. w \in Seq({u}) /\ Len(w) = 1 /\ w[1] = u
      OBVIOUS
    <2> HIDE DEF w
    <2>2. \A k \in 1 .. Len(s) : s[k] = w[k]
      BY <1>7, <2>1
    <2>3. s = w
      BY <1>7, <2>1, <2>2, SeqEqual
    <2> QED
      BY <2>3 DEF w
  <1> QED
    BY <1>8 DEF Lexical!Init, s, u

(***************************************************************************)
(* The tree implements C's scopes: what the stacks say of the open scopes  *)
(* changes as LexicalScopes allows, whenever stale entries are dropped     *)
(* (semantic.cc:151, :214, :285).                                          *)
(***************************************************************************)
THEOREM TreeImplementsScopes == ASSUME ~DefineForward PROVE Spec => ImplementsScopes
  <1>1. BoundInv /\ [Next]_vars => BoundInv'
    BY BoundNext
  <1>2. BoundInv /\ [Next]_vars => [Lexical!Next]_Scopes
    BY StepsImplement
  <1> QED
    BY <1>1, <1>2, BoundInit, InitImplements, PTL DEF Spec, ImplementsScopes, Lexical!Spec
=============================================================================
