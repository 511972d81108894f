------------------------- MODULE ExpressionsProofs -------------------------
(***************************************************************************)
(* Expressions of any size, over declarations of any types: what the       *)
(* checks of ast.cc let pass is emitted with the types the checks go by.   *)
(***************************************************************************)
EXTENDS Expressions, WellFoundedInduction, TLAPS

(* A set of numbers has a least member. *)
LEMMA LeastNumber ==
  ASSUME NEW S \in SUBSET Nat, S # {}
  PROVE  \E m \in S : \A k \in S : m <= k
<1>1. PICK m \in S : \A k \in S : ~(<<k, m>> \in OpToRel(<, Nat))
  BY WFMin, NatLessThanWellFounded
<1>2. OpToRel(<, Nat) = {p \in Nat \X Nat : p[1] < p[2]}
  BY DEF OpToRel
<1>3. ASSUME NEW k \in S, k < m PROVE FALSE
  <2> DEFINE p == <<k, m>>
  <2>1. p \in Nat \X Nat /\ p[1] < p[2]
    BY <1>3
  <2> HIDE DEF p
  <2>2. p \in OpToRel(<, Nat)
    BY <1>2, <2>1
  <2> QED
    BY <1>1, <2>2 DEF p
<1> QED
  BY <1>3

(* Of any types there is one that is nested least. *)
LEMMA LeastType ==
  ASSUME NEW S \in SUBSET Types, S # {}
  PROVE  \E d \in S : \A e \in Types : Nesting[e] < Nesting[d] => e \notin S
<1>1. Nesting \in [Types -> Nat]
  BY TypesAssumption
<1> DEFINE N == {Nesting[d] : d \in S}
<1>2. N \in SUBSET Nat /\ N # {}
  BY <1>1
<1>3. PICK m \in N : \A k \in N : m <= k
  BY <1>2, LeastNumber
<1>4. PICK d \in S : Nesting[d] = m
  BY <1>3
<1>5. \A e \in S : Nesting[d] <= Nesting[e]
  BY <1>3, <1>4
<1>6. ASSUME NEW e \in Types, Nesting[e] < Nesting[d], e \in S PROVE FALSE
  BY <1>1, <1>5, <1>6
<1> QED
  BY <1>4, <1>6

(* What a type of each kind is made of. *)
LEMMA Kinds ==
  ASSUME NEW d \in Types
  PROVE  \/ d.kind \in {"int", "null", "char", "void", "struct"}
         \/ /\ d.kind \in {"pointer", "array"}
            /\ d.to \in Types /\ Nesting[d.to] < Nesting[d]
         \/ /\ d.kind = "function"
            /\ PointerTo(d) \in Types
            /\ d.returns \in Types /\ Nesting[d.returns] < Nesting[d]
            /\ d.returns.kind # "function"
            /\ d.params \in Seq(Types)
            /\ \A k \in DOMAIN d.params :
                 /\ d.params[k] \in Types /\ Nesting[d.params[k]] < Nesting[d]
                 /\ d.params[k].kind # "void"
<1>1. CASE d.kind = "function"
  <2>1. /\ PointerTo(d) \in Types
        /\ d.returns \in Types /\ Nesting[d.returns] < Nesting[d]
        /\ ~IsFunctionType(d.returns)
        /\ d.params \in Seq(Types)
        /\ \A k \in DOMAIN d.params : /\ Nesting[d.params[k]] < Nesting[d]
                                      /\ d.params[k].kind # "void"
    BY <1>1, TypesAssumption DEF IntDeclaration, NullDeclaration, CharDeclaration,
       VoidDeclaration
  <2>2. d.returns.kind # "function"
    BY <2>1 DEF IsFunctionType, TypeOf
  <2>3. \A k \in DOMAIN d.params : d.params[k] \in Types
    BY <2>1
  <2> QED
    BY <1>1, <2>1, <2>2, <2>3
<1>2. CASE d.kind # "function"
  BY <1>2, TypesAssumption DEF IntDeclaration, NullDeclaration, CharDeclaration,
     VoidDeclaration
<1> QED
  BY <1>1, <1>2

-----------------------------------------------------------------------------
(* The recursion of semantic_type2llvm_type ends, as types are nested only  *)
(* so deep: LlvmTypeOf is what its definition says.                         *)
Emit(f, d) ==
  CASE TypeOf(d) = "int"    -> I32
    [] d.kind = "char"      -> I8
    [] d.kind = "void"      -> VoidTy
    [] IsPointerToVoid(d)   -> Ptr(I8)
    [] d.kind = "struct"    -> StructTy(d.tag)
    [] IsFunctionType(d)    ->
         FunctionTy(f[d.returns],
           [k \in DOMAIN d.params |->
              IF IsFunctionType(d.params[k]) THEN Ptr(f[d.params[k]])
              ELSE f[d.params[k]]])
    [] OTHER -> Ptr(f[d.to])

(* What is emitted for a type depends on what is emitted for its parts. *)
LEMMA EmitLocal ==
  ASSUME NEW d \in Types, NEW f, NEW g,
         \A e \in Types : Nesting[e] < Nesting[d] => f[e] = g[e]
  PROVE  Emit(f, d) = Emit(g, d)
<1>1. CASE d.kind \in {"int", "null", "char", "void", "struct"}
  BY <1>1 DEF Emit, TypeOf, IsPointerToVoid, IsPointer, IsFunctionType
<1>2. CASE d.kind \in {"pointer", "array"}
  <2>1. f[d.to] = g[d.to]
    BY <1>2, Kinds
  <2> QED
    BY <1>2, <2>1 DEF Emit, TypeOf, IsPointerToVoid, IsPointer, IsFunctionType
<1>3. CASE d.kind = "function"
  <2> DEFINE P(h) == [k \in DOMAIN d.params |->
                        IF IsFunctionType(d.params[k]) THEN Ptr(h[d.params[k]])
                        ELSE h[d.params[k]]]
  <2>1. f[d.returns] = g[d.returns]
    BY <1>3, Kinds
  <2>2. \A k \in DOMAIN d.params : f[d.params[k]] = g[d.params[k]]
    BY <1>3, Kinds
  <2>3. P(f) = P(g)
    BY <2>2
  <2>4. Emit(f, d) = FunctionTy(f[d.returns], P(f)) /\ Emit(g, d) = FunctionTy(g[d.returns], P(g))
    BY <1>3 DEF Emit, TypeOf, IsPointerToVoid, IsPointer, IsFunctionType
  <2> HIDE DEF P
  <2> QED
    BY <2>1, <2>3, <2>4
<1> QED
  BY <1>1, <1>2, <1>3, Kinds

EmitsBelow(f, n) == \A d \in Types : Nesting[d] < n => f[d] = Emit(f, d)

(* Two functions that emit types up to a depth agree on these. *)
LEMMA EmitUnique ==
  ASSUME NEW n \in Nat, NEW f, NEW g, EmitsBelow(f, n), EmitsBelow(g, n)
  PROVE  \A d \in Types : Nesting[d] < n => f[d] = g[d]
<1> DEFINE S == {d \in Types : Nesting[d] < n /\ f[d] # g[d]}
<1>1. SUFFICES ASSUME S # {} PROVE FALSE
  OBVIOUS
<1>2. PICK d \in S : \A e \in Types : Nesting[e] < Nesting[d] => e \notin S
  <2>1. S \in SUBSET Types
    OBVIOUS
  <2> HIDE DEF S
  <2> QED
    BY <1>1, <2>1, LeastType
<1>3. \A e \in Types : Nesting[e] < Nesting[d] => f[e] = g[e]
  BY <1>2, TypesAssumption
<1>4. Emit(f, d) = Emit(g, d)
  BY <1>3, EmitLocal
<1> QED
  BY <1>4 DEF EmitsBelow

(* There is one for every depth. *)
LEMMA EmitExists == \A n \in Nat : \E f : EmitsBelow(f, n)
<1> DEFINE S == {n \in Nat : ~\E f : EmitsBelow(f, n)}
<1>1. SUFFICES ASSUME S # {} PROVE FALSE
  OBVIOUS
<1>2. PICK n \in S : \A k \in S : n <= k
  <2>1. S \in SUBSET Nat
    OBVIOUS
  <2> HIDE DEF S
  <2> QED
    BY <1>1, <2>1, LeastNumber
<1>3. n # 0
  <2>1. EmitsBelow(<<>>, 0)
    BY TypesAssumption DEF EmitsBelow
  <2> QED
    BY <2>1
<1>4. n \in Nat /\ n - 1 \in Nat /\ n - 1 \notin S
  BY <1>2, <1>3
<1>5. PICK f : EmitsBelow(f, n - 1)
  BY <1>4
<1> DEFINE g == [d \in Types |-> IF Nesting[d] < n - 1 THEN f[d] ELSE Emit(f, d)]
<1>6. ASSUME NEW d \in Types, Nesting[d] < n PROVE g[d] = Emit(g, d)
  <2>1. \A e \in Types : Nesting[e] < Nesting[d] => g[e] = f[e]
    BY <1>4, <1>6, TypesAssumption
  <2>2. g[d] = Emit(f, d)
    BY <1>5 DEF EmitsBelow
  <2> HIDE DEF g
  <2> QED
    BY <2>1, <2>2, EmitLocal
<1>7. EmitsBelow(g, n)
  <2> HIDE DEF g
  <2> QED
    BY <1>6 DEF EmitsBelow
<1> QED
  BY <1>2, <1>7

(* So there is one for all types. *)
LEMMA EmitDefined == LlvmTypeOf = [d \in Types |-> Emit(LlvmTypeOf, d)]
<1> DEFINE G(n) == CHOOSE f : EmitsBelow(f, n)
           h    == [d \in Types |-> G(Nesting[d] + 1)[d]]
<1>1. \A n \in Nat : EmitsBelow(G(n), n)
  BY EmitExists
<1>2. ASSUME NEW d \in Types PROVE h[d] = Emit(h, d)
  <2>1. Nesting[d] \in Nat
    BY TypesAssumption
  <2> DEFINE f == G(Nesting[d] + 1)
  <2>2. EmitsBelow(f, Nesting[d] + 1)
    BY <1>1, <2>1
  <2>3. h[d] = f[d]
    OBVIOUS
  <2>4. ASSUME NEW e \in Types, Nesting[e] < Nesting[d] PROVE h[e] = f[e]
    <3>1. Nesting[e] \in Nat /\ Nesting[e] + 1 \in Nat
      BY TypesAssumption
    <3> DEFINE g == G(Nesting[e] + 1)
    <3>2. EmitsBelow(g, Nesting[e] + 1)
      BY <1>1, <3>1
    <3>3. h[e] = g[e]
      OBVIOUS
    <3> HIDE DEF f, g, h
    <3>4. EmitsBelow(f, Nesting[e] + 1)
      BY <2>1, <2>2, <2>4, <3>1, TypesAssumption DEF EmitsBelow
    <3> QED
      BY <3>1, <3>2, <3>3, <3>4, EmitUnique
  <2> HIDE DEF f, h
  <2>5. f[d] = Emit(f, d)
    BY <2>1, <2>2 DEF EmitsBelow
  <2> QED
    BY <2>3, <2>4, <2>5, EmitLocal
<1>3. h = [d \in Types |-> Emit(h, d)]
  <2> DEFINE H == h
  <2>1. H = [d \in Types |-> H[d]]
    OBVIOUS
  <2>2. \A d \in Types : H[d] = Emit(H, d)
    BY <1>2
  <2> HIDE DEF H
  <2>3. H = [d \in Types |-> Emit(H, d)]
    BY <2>1, <2>2
  <2> QED
    BY <2>3 DEF H
<1>4. \E f : f = [d \in Types |-> Emit(f, d)]
  BY <1>3
<1>5. LlvmTypeOf = CHOOSE f : f = [d \in Types |-> Emit(f, d)]
  BY DEF LlvmTypeOf, Emit
<1> QED
  BY <1>4, <1>5

-----------------------------------------------------------------------------
(* The recursion of compareTypes ends likewise, along its first type.       *)
Compare(f, p) ==
  /\ TypeOf(p[1]) = TypeOf(p[2])
  /\ p[1].kind = "struct" => p[1].tag = p[2].tag
  /\ IsFunctionType(p[1]) =>
       /\ Len(p[1].params) = Len(p[2].params)
       /\ f[<<p[1].returns, p[2].returns>>]
       /\ \A k \in DOMAIN p[1].params : f[<<p[1].params[k], p[2].params[k]>>]
  /\ IsPointer(p[1]) => f[<<p[1].to, p[2].to>>]

Pairs    == Types \X Types
Depth(p) == Nesting[p[1]]

(* Of any pairs there is one whose first type is nested least. *)
LEMMA LeastPair ==
  ASSUME NEW S \in SUBSET Pairs, S # {}
  PROVE  \E p \in S : \A q \in Pairs : Depth(q) < Depth(p) => q \notin S
<1> DEFINE D == {d \in Types : \E p \in S : p[1] = d}
<1>1. D \in SUBSET Types
  OBVIOUS
<1>2. D # {}
  BY DEF Pairs
<1>3. PICK d \in D : \A e \in Types : Nesting[e] < Nesting[d] => e \notin D
  <2> HIDE DEF D
  <2> QED
    BY <1>1, <1>2, LeastType
<1>4. PICK p \in S : p[1] = d
  BY <1>3
<1>5. ASSUME NEW q \in Pairs, Depth(q) < Depth(p) PROVE q \notin S
  <2>1. q[1] \in Types /\ Nesting[q[1]] < Nesting[d]
    BY <1>4, <1>5 DEF Pairs, Depth
  <2> QED
    BY <1>3, <2>1
<1> QED
  BY <1>5

(* Whether types are the same depends on whether their parts are. *)
LEMMA CompareLocal ==
  ASSUME NEW p \in Pairs, NEW f, NEW g,
         \A q \in Pairs : Depth(q) < Depth(p) => f[q] = g[q]
  PROVE  Compare(f, p) = Compare(g, p)
<1> DEFINE s == p[1]
           t == p[2]
<1>1. s \in Types /\ t \in Types
  BY DEF Pairs
<1>2. ASSUME NEW a \in Types, NEW b \in Types, Nesting[a] < Nesting[s]
      PROVE  f[<<a, b>>] = g[<<a, b>>]
  BY <1>2 DEF Pairs, Depth
<1> HIDE DEF s, t
<1>3. CASE s.kind \in {"int", "null", "char", "void", "struct"}
  BY <1>3 DEF Compare, TypeOf, IsPointer, IsFunctionType, s, t
<1>4. CASE s.kind \in {"pointer", "array"}
  <2>1. CASE TypeOf(s) # TypeOf(t)
    BY <2>1 DEF Compare, s, t
  <2>2. CASE TypeOf(s) = TypeOf(t)
    <3>1. t.kind \in {"pointer", "array"}
      BY <1>1, <1>4, <2>2, Kinds DEF TypeOf
    <3>2. s.to \in Types /\ t.to \in Types /\ Nesting[s.to] < Nesting[s]
      BY <1>1, <1>4, <3>1, Kinds
    <3>3. f[<<s.to, t.to>>] = g[<<s.to, t.to>>]
      BY <1>2, <3>2
    <3> QED
      BY <1>4, <3>3 DEF Compare, TypeOf, IsPointer, IsFunctionType, s, t
  <2> QED
    BY <2>1, <2>2
<1>5. CASE s.kind = "function"
  <2>1. CASE TypeOf(s) # TypeOf(t) \/ Len(s.params) # Len(t.params)
    BY <1>5, <2>1 DEF Compare, TypeOf, IsFunctionType, s, t
  <2>2. CASE TypeOf(s) = TypeOf(t) /\ Len(s.params) = Len(t.params)
    <3>1. t.kind = "function"
      BY <1>1, <1>5, <2>2, Kinds DEF TypeOf
    <3>2. /\ s.returns \in Types /\ t.returns \in Types
          /\ Nesting[s.returns] < Nesting[s]
          /\ s.params \in Seq(Types) /\ t.params \in Seq(Types)
          /\ \A k \in DOMAIN s.params :
               s.params[k] \in Types /\ Nesting[s.params[k]] < Nesting[s]
      BY <1>1, <1>5, <3>1, Kinds
    <3>3. f[<<s.returns, t.returns>>] = g[<<s.returns, t.returns>>]
      BY <1>2, <3>2
    <3>4. ASSUME NEW k \in DOMAIN s.params
          PROVE  f[<<s.params[k], t.params[k]>>] = g[<<s.params[k], t.params[k]>>]
      <4>1. k \in DOMAIN t.params
        BY <2>2, <3>2
      <4>2. t.params[k] \in Types
        BY <3>2, <4>1
      <4> QED
        BY <1>2, <3>2, <4>2
    <3> QED
      BY <1>5, <3>3, <3>4 DEF Compare, TypeOf, IsPointer, IsFunctionType, s, t
  <2> QED
    BY <2>1, <2>2
<1> QED
  BY <1>1, <1>3, <1>4, <1>5, Kinds

ComparesBelow(f, n) == \A p \in Pairs : Depth(p) < n => f[p] = Compare(f, p)

(* Two functions that compare types up to a depth agree on these. *)
LEMMA CompareUnique ==
  ASSUME NEW n \in Nat, NEW f, NEW g, ComparesBelow(f, n), ComparesBelow(g, n)
  PROVE  \A p \in Pairs : Depth(p) < n => f[p] = g[p]
<1> DEFINE S == {p \in Pairs : Depth(p) < n /\ f[p] # g[p]}
<1>1. SUFFICES ASSUME S # {} PROVE FALSE
  OBVIOUS
<1>2. PICK p \in S : \A q \in Pairs : Depth(q) < Depth(p) => q \notin S
  <2>1. S \in SUBSET Pairs
    OBVIOUS
  <2> HIDE DEF S
  <2> QED
    BY <1>1, <2>1, LeastPair
<1>3. \A q \in Pairs : Depth(q) \in Nat
  BY TypesAssumption DEF Pairs, Depth
<1>4. \A q \in Pairs : Depth(q) < Depth(p) => f[q] = g[q]
  BY <1>2, <1>3
<1>5. Compare(f, p) = Compare(g, p)
  <2>1. p \in Pairs
    OBVIOUS
  <2> HIDE DEF S
  <2> QED
    BY <1>4, <2>1, CompareLocal
<1>6. f[p] = Compare(f, p) /\ g[p] = Compare(g, p)
  BY DEF ComparesBelow
<1> QED
  BY <1>5, <1>6

(* There is one for every depth. *)
LEMMA CompareExists == \A n \in Nat : \E f : ComparesBelow(f, n)
<1> DEFINE S == {n \in Nat : ~\E f : ComparesBelow(f, n)}
<1>1. SUFFICES ASSUME S # {} PROVE FALSE
  OBVIOUS
<1>2. PICK n \in S : \A k \in S : n <= k
  <2>1. S \in SUBSET Nat
    OBVIOUS
  <2> HIDE DEF S
  <2> QED
    BY <1>1, <2>1, LeastNumber
<1>3. \A q \in Pairs : Depth(q) \in Nat
  BY TypesAssumption DEF Pairs, Depth
<1>4. n # 0
  <2>1. ComparesBelow(<<>>, 0)
    BY <1>3 DEF ComparesBelow
  <2> QED
    BY <2>1
<1>5. n \in Nat /\ n - 1 \in Nat /\ n - 1 \notin S
  BY <1>2, <1>4
<1>6. PICK f : ComparesBelow(f, n - 1)
  BY <1>5
<1> DEFINE g == [p \in Pairs |-> IF Depth(p) < n - 1 THEN f[p] ELSE Compare(f, p)]
<1>7. ASSUME NEW p \in Pairs, Depth(p) < n PROVE g[p] = Compare(g, p)
  <2>1. \A q \in Pairs : Depth(q) < Depth(p) => g[q] = f[q]
    BY <1>3, <1>5, <1>7
  <2>2. g[p] = Compare(f, p)
    BY <1>6 DEF ComparesBelow
  <2> HIDE DEF g
  <2>3. Compare(g, p) = Compare(f, p)
    BY <2>1, CompareLocal
  <2> QED
    BY <2>2, <2>3
<1>8. ComparesBelow(g, n)
  <2> HIDE DEF g
  <2> QED
    BY <1>7 DEF ComparesBelow
<1> QED
  BY <1>2, <1>8

(* So there is one for all types. *)
LEMMA CompareDefined == Same = [p \in Pairs |-> Compare(Same, p)]
<1> DEFINE G(n) == CHOOSE f : ComparesBelow(f, n)
           h    == [p \in Pairs |-> G(Depth(p) + 1)[p]]
<1>1. \A n \in Nat : ComparesBelow(G(n), n)
  BY CompareExists
<1>2. \A q \in Pairs : Depth(q) \in Nat /\ Depth(q) + 1 \in Nat
  BY TypesAssumption DEF Pairs, Depth
<1>3. ASSUME NEW p \in Pairs PROVE h[p] = Compare(h, p)
  <2> DEFINE f == G(Depth(p) + 1)
  <2>1. ComparesBelow(f, Depth(p) + 1)
    BY <1>1, <1>2
  <2>2. h[p] = f[p]
    OBVIOUS
  <2>3. ASSUME NEW q \in Pairs, Depth(q) < Depth(p) PROVE h[q] = f[q]
    <3> DEFINE g == G(Depth(q) + 1)
    <3>1. ComparesBelow(g, Depth(q) + 1)
      BY <1>1, <1>2
    <3>2. h[q] = g[q]
      OBVIOUS
    <3> HIDE DEF f, g, h
    <3>3. ComparesBelow(f, Depth(q) + 1)
      BY <1>2, <2>1, <2>3 DEF ComparesBelow
    <3>4. Depth(q) < Depth(q) + 1 /\ Depth(q) + 1 \in Nat
      BY <1>2
    <3> QED
      BY <3>1, <3>2, <3>3, <3>4, CompareUnique
  <2> HIDE DEF f, h
  <2>4. f[p] = Compare(f, p)
    BY <1>2, <2>1 DEF ComparesBelow
  <2>5. Compare(h, p) = Compare(f, p)
    BY <2>3, CompareLocal
  <2> QED
    BY <2>2, <2>4, <2>5
<1>4. h = [p \in Pairs |-> Compare(h, p)]
  <2> DEFINE H == h
  <2>1. H = [p \in Pairs |-> H[p]]
    OBVIOUS
  <2>2. \A p \in Pairs : H[p] = Compare(H, p)
    BY <1>3
  <2> HIDE DEF H
  <2>3. H = [p \in Pairs |-> Compare(H, p)]
    BY <2>1, <2>2
  <2> QED
    BY <2>3 DEF H
<1>5. \E f : f = [p \in Pairs |-> Compare(f, p)]
  BY <1>4
<1>6. Same = CHOOSE f : f = [p \in Pairs |-> Compare(f, p)]
  BY DEF Same, Compare, Pairs
<1> QED
  BY <1>5, <1>6

-----------------------------------------------------------------------------
(* What semantic_type2llvm_type makes of each kind of type. *)
LEMMA LlvmTypes ==
  ASSUME NEW d \in Types
  PROVE  /\ d.kind \in {"int", "null"} => LlvmType(d) = I32
         /\ d.kind = "char" => LlvmType(d) = I8
         /\ d.kind = "void" => LlvmType(d) = VoidTy
         /\ d.kind = "struct" => LlvmType(d) = StructTy(d.tag)
         /\ IsPointer(d) /\ d.to.kind = "void" => LlvmType(d) = Ptr(I8)
         /\ IsPointer(d) /\ d.to.kind # "void" => LlvmType(d) = Ptr(LlvmType(d.to))
         /\ d.kind = "function" =>
              LlvmType(d) = FunctionTy(LlvmType(d.returns),
                [k \in DOMAIN d.params |->
                   IF d.params[k].kind = "function" THEN Ptr(LlvmType(d.params[k]))
                   ELSE LlvmType(d.params[k])])
<1>1. LlvmType(d) = Emit(LlvmTypeOf, d)
  BY EmitDefined DEF LlvmType
<1>2. CASE d.kind \in {"int", "null", "char", "void", "struct"}
  BY <1>1, <1>2 DEF Emit, TypeOf, IsPointer, IsPointerToVoid, IsFunctionType
<1>3. CASE d.kind \in {"pointer", "array"}
  BY <1>1, <1>3 DEF Emit, TypeOf, IsPointer, IsPointerToVoid, IsFunctionType, LlvmType
<1>4. CASE d.kind = "function"
  <2> DEFINE ps(f) == [k \in DOMAIN d.params |->
                         IF IsFunctionType(d.params[k]) THEN Ptr(f[d.params[k]])
                         ELSE f[d.params[k]]]
             qs    == [k \in DOMAIN d.params |->
                         IF d.params[k].kind = "function" THEN Ptr(LlvmType(d.params[k]))
                         ELSE LlvmType(d.params[k])]
  <2>1. LlvmType(d) = FunctionTy(LlvmTypeOf[d.returns], ps(LlvmTypeOf))
    BY <1>1, <1>4 DEF Emit, TypeOf, IsPointer, IsPointerToVoid, IsFunctionType
  <2>2. \A k \in DOMAIN d.params :
          IsFunctionType(d.params[k]) <=> d.params[k].kind = "function"
    BY <1>4, Kinds DEF IsFunctionType, TypeOf
  <2>3. ps(LlvmTypeOf) = qs
    BY <2>2 DEF LlvmType
  <2>4. LlvmTypeOf[d.returns] = LlvmType(d.returns)
    BY DEF LlvmType
  <2> HIDE DEF ps, qs
  <2>5. LlvmType(d) = FunctionTy(LlvmType(d.returns), qs)
    BY <2>1, <2>3, <2>4
  <2>6. ~IsPointer(d)
    BY <1>4 DEF IsPointer, TypeOf
  <2> QED
    BY <1>4, <2>5, <2>6 DEF qs
<1> QED
  BY <1>2, <1>3, <1>4, Kinds

(* What compareTypes asks of two types. *)
LEMMA Compared ==
  ASSUME NEW s \in Types, NEW t \in Types
  PROVE  CompareTypes(s, t) <=>
           /\ TypeOf(s) = TypeOf(t)
           /\ s.kind = "struct" => s.tag = t.tag
           /\ IsFunctionType(s) =>
                /\ Len(s.params) = Len(t.params)
                /\ CompareTypes(s.returns, t.returns)
                /\ \A k \in DOMAIN s.params : CompareTypes(s.params[k], t.params[k])
           /\ IsPointer(s) => CompareTypes(s.to, t.to)
<1> DEFINE p == <<s, t>>
<1>1. p \in Pairs /\ p[1] = s /\ p[2] = t
  BY DEF Pairs
<1> HIDE DEF p
<1>2. Same[p] = Compare(Same, p)
  BY <1>1, CompareDefined
<1>3. CompareTypes(s, t) = Same[p]
  BY DEF CompareTypes, p
<1> QED
  BY <1>1, <1>2, <1>3 DEF Compare, CompareTypes

(* Same kinds of types. *)
LEMMA SameKind ==
  ASSUME NEW s \in Types, NEW t \in Types, TypeOf(s) = TypeOf(t)
  PROVE  /\ s.kind = "char" <=> t.kind = "char"
         /\ s.kind = "void" <=> t.kind = "void"
         /\ s.kind = "struct" <=> t.kind = "struct"
         /\ s.kind = "function" <=> t.kind = "function"
         /\ s.kind \in {"int", "null"} <=> t.kind \in {"int", "null"}
         /\ IsPointer(s) <=> IsPointer(t)
         /\ IsPointer(s) <=> s.kind \in {"pointer", "array"}
BY Kinds DEF TypeOf, IsPointer

(* compareTypes is symmetric, and types that it takes for equal are one to  *)
(* LLVM.                                                                    *)
LEMMA EqualTypes ==
  ASSUME NEW s0 \in Types, NEW t0 \in Types, CompareTypes(s0, t0)
  PROVE  LlvmType(s0) = LlvmType(t0) /\ CompareTypes(t0, s0)
<1> DEFINE S == {p \in Pairs : /\ CompareTypes(p[1], p[2])
                               /\ ~(/\ LlvmType(p[1]) = LlvmType(p[2])
                                    /\ CompareTypes(p[2], p[1]))}
<1>1. SUFFICES ASSUME S # {} PROVE FALSE
  <2> DEFINE q == <<s0, t0>>
  <2>1. q \in Pairs /\ q[1] = s0 /\ q[2] = t0
    BY DEF Pairs
  <2> HIDE DEF q
  <2> QED
    BY <2>1
<1>2. PICK p \in S : \A q \in Pairs : Depth(q) < Depth(p) => q \notin S
  <2>1. S \in SUBSET Pairs
    OBVIOUS
  <2> HIDE DEF S
  <2> QED
    BY <1>1, <2>1, LeastPair
<1> DEFINE s == p[1]
           t == p[2]
<1>3. s \in Types /\ t \in Types /\ CompareTypes(s, t)
  BY DEF Pairs
<1>4. ASSUME NEW a \in Types, NEW b \in Types, Nesting[a] < Nesting[s], CompareTypes(a, b)
      PROVE  LlvmType(a) = LlvmType(b) /\ CompareTypes(b, a)
  <2> DEFINE q == <<a, b>>
  <2>1. q \in Pairs /\ Depth(q) < Depth(p) /\ q[1] = a /\ q[2] = b
    BY <1>4 DEF Pairs, Depth
  <2> HIDE DEF q
  <2>2. q \notin S
    BY <1>2, <2>1
  <2> QED
    BY <1>4, <2>1, <2>2
<1>5. ~(LlvmType(s) = LlvmType(t) /\ CompareTypes(t, s))
  OBVIOUS
<1> HIDE DEF S, s, t
<1>6. /\ TypeOf(s) = TypeOf(t)
      /\ s.kind = "struct" => s.tag = t.tag
      /\ IsFunctionType(s) =>
           /\ Len(s.params) = Len(t.params)
           /\ CompareTypes(s.returns, t.returns)
           /\ \A k \in DOMAIN s.params : CompareTypes(s.params[k], t.params[k])
      /\ IsPointer(s) => CompareTypes(s.to, t.to)
  BY <1>3, Compared
<1>7. CASE s.kind \in {"int", "null", "char", "void", "struct"}
  <2>1. LlvmType(s) = LlvmType(t)
    BY <1>3, <1>6, <1>7, SameKind, LlvmTypes
  <2>2. ~IsFunctionType(t) /\ ~IsPointer(t) /\ (t.kind = "struct" => t.tag = s.tag)
    BY <1>3, <1>6, <1>7, SameKind DEF IsFunctionType, IsPointer, TypeOf
  <2>3. CompareTypes(t, s)
    BY <1>3, <1>6, <2>2, Compared
  <2> QED
    BY <1>5, <2>1, <2>3
<1>8. CASE s.kind \in {"pointer", "array"}
  <2>1. /\ IsPointer(s) /\ IsPointer(t) /\ t.kind \in {"pointer", "array"}
        /\ ~IsFunctionType(t)
    BY <1>3, <1>6, <1>8, SameKind DEF IsPointer, IsFunctionType, TypeOf
  <2>2. s.to \in Types /\ t.to \in Types /\ Nesting[s.to] < Nesting[s]
    BY <1>3, <1>8, <2>1, Kinds
  <2>3. CompareTypes(s.to, t.to)
    BY <1>6, <2>1
  <2>4. LlvmType(s.to) = LlvmType(t.to) /\ CompareTypes(t.to, s.to)
    BY <1>4, <2>2, <2>3
  <2>5. TypeOf(s.to) = TypeOf(t.to)
    BY <2>2, <2>3, Compared
  <2>6. s.to.kind = "void" <=> t.to.kind = "void"
    BY <2>2, <2>5, SameKind
  <2>7. LlvmType(s) = LlvmType(t)
    BY <1>3, <2>1, <2>4, <2>6, LlvmTypes
  <2>8. CompareTypes(t, s)
    BY <1>3, <1>6, <2>1, <2>4, Compared
  <2> QED
    BY <1>5, <2>7, <2>8
<1>9. CASE s.kind = "function"
  <2>1. /\ t.kind = "function" /\ IsFunctionType(s) /\ IsFunctionType(t)
        /\ ~IsPointer(t)
    BY <1>3, <1>6, <1>9, SameKind DEF IsPointer, IsFunctionType, TypeOf
  <2>2. /\ s.returns \in Types /\ t.returns \in Types
        /\ Nesting[s.returns] < Nesting[s]
        /\ s.params \in Seq(Types) /\ t.params \in Seq(Types)
        /\ \A k \in DOMAIN s.params :
             s.params[k] \in Types /\ Nesting[s.params[k]] < Nesting[s]
    BY <1>3, <1>9, <2>1, Kinds
  <2>3. DOMAIN s.params = DOMAIN t.params
    BY <1>6, <2>1, <2>2
  <2>4. LlvmType(s.returns) = LlvmType(t.returns) /\ CompareTypes(t.returns, s.returns)
    BY <1>4, <1>6, <2>1, <2>2
  <2>5. ASSUME NEW k \in DOMAIN s.params
        PROVE  /\ LlvmType(s.params[k]) = LlvmType(t.params[k])
               /\ CompareTypes(t.params[k], s.params[k])
               /\ s.params[k].kind = "function" <=> t.params[k].kind = "function"
    <3>1. s.params[k] \in Types /\ t.params[k] \in Types
      BY <2>2, <2>3
    <3>2. CompareTypes(s.params[k], t.params[k]) /\ Nesting[s.params[k]] < Nesting[s]
      BY <1>6, <2>1, <2>2
    <3>3. TypeOf(s.params[k]) = TypeOf(t.params[k])
      BY <3>1, <3>2, Compared
    <3> QED
      BY <1>4, <3>1, <3>2, <3>3, SameKind
  <2> DEFINE ps(d) == [k \in DOMAIN d.params |->
                        IF d.params[k].kind = "function" THEN Ptr(LlvmType(d.params[k]))
                        ELSE LlvmType(d.params[k])]
  <2>6. ps(s) = ps(t)
    BY <2>3, <2>5
  <2>7. /\ LlvmType(s) = FunctionTy(LlvmType(s.returns), ps(s))
        /\ LlvmType(t) = FunctionTy(LlvmType(t.returns), ps(t))
    BY <1>3, <1>9, <2>1, LlvmTypes
  <2> HIDE DEF ps
  <2>8. LlvmType(s) = LlvmType(t)
    BY <2>4, <2>6, <2>7
  <2>9. CompareTypes(t, s)
    BY <1>3, <1>6, <2>1, <2>3, <2>4, <2>5, Compared
  <2> QED
    BY <1>5, <2>8, <2>9
<1> QED
  BY <1>3, <1>7, <1>8, <1>9, Kinds

(* No type is what it points to. *)
LEMMA SelfPointer ==
  ASSUME NEW d0 \in Types
  PROVE  LlvmType(d0) # Ptr(LlvmType(d0))
<1> DEFINE S == {d \in Types : LlvmType(d) = Ptr(LlvmType(d))}
<1>1. SUFFICES ASSUME S # {} PROVE FALSE
  OBVIOUS
<1>2. PICK d \in S : \A e \in Types : Nesting[e] < Nesting[d] => e \notin S
  <2>1. S \in SUBSET Types
    OBVIOUS
  <2> HIDE DEF S
  <2> QED
    BY <1>1, <2>1, LeastType
<1>3. d \in Types /\ LlvmType(d) = Ptr(LlvmType(d))
  OBVIOUS
<1>4. IsPtr(LlvmType(d)) /\ LlvmType(d).to = LlvmType(d)
  BY <1>3 DEF IsPtr, Ptr
<1>5. d.kind \in {"pointer", "array"}
  BY <1>3, <1>4, LlvmTypes, Kinds DEF IsPtr, I32, I8, I, VoidTy, StructTy, FunctionTy
<1>6. IsPointer(d) /\ d.to \in Types /\ Nesting[d.to] < Nesting[d]
  BY <1>3, <1>5, Kinds DEF IsPointer, TypeOf
<1>7. CASE d.to.kind = "void"
  <2>1. LlvmType(d) = Ptr(I8)
    BY <1>3, <1>6, <1>7, LlvmTypes
  <2> QED
    BY <1>4, <2>1 DEF IsPtr, Ptr, I8, I
<1>8. CASE d.to.kind # "void"
  <2>1. LlvmType(d) = Ptr(LlvmType(d.to))
    BY <1>3, <1>6, <1>8, LlvmTypes
  <2>2. LlvmType(d.to) = Ptr(LlvmType(d.to))
    BY <1>4, <2>1 DEF Ptr
  <2> QED
    BY <1>2, <1>6, <2>2
<1> QED
  BY <1>7, <1>8

-----------------------------------------------------------------------------
(* A value of the type t, as the checks of the next operator expect it. *)
Fits(t, v) ==
  CASE IsArithmeticType(t) -> v \in {I8, I32}
    [] IsPointerToVoid(t)  -> IsPtr(v)
    [] t.kind = "void"     -> v = NoValue
    [] IsFunctionType(t)   -> v \in {Ptr(LlvmType(t)), NoCode}
    [] OTHER               -> v = LlvmType(t)

(* Every type is of one of five sorts. *)
LEMMA Sorts ==
  ASSUME NEW d \in Types
  PROVE  /\ \/ IsArithmeticType(d) \/ IsPointer(d) \/ d.kind = "struct"
            \/ d.kind = "void" \/ IsFunctionType(d)
         /\ IsArithmeticType(d) =>
              ~IsPointer(d) /\ ~IsFunctionType(d) /\ d.kind \notin {"struct", "void"}
         /\ IsPointer(d) =>
              /\ ~IsFunctionType(d) /\ d.kind \notin {"struct", "void"}
              /\ d.to \in Types
         /\ IsFunctionType(d) => d.kind \notin {"struct", "void"}
         /\ IsFunctionType(d) <=> d.kind = "function"
         /\ IsIntegerType(d) <=> IsArithmeticType(d)
         /\ IsScalarType(d) <=> IsArithmeticType(d) \/ IsPointer(d) \/ IsFunctionType(d)
         /\ IsPointerToVoid(d) <=> IsPointer(d) /\ d.to.kind = "void"
         /\ d.kind = "null" => IsArithmeticType(d)
BY Kinds DEF TypeOf, IsArithmeticType, IsPointer, IsFunctionType, IsIntegerType,
   IsScalarType, IsPointerToVoid

(* What fits a type of each sort. *)
LEMMA FitsSorts ==
  ASSUME NEW d \in Types, NEW v
  PROVE  /\ IsArithmeticType(d) => (Fits(d, v) <=> v \in {I8, I32})
         /\ IsPointer(d) =>
              (Fits(d, v) <=> IF d.to.kind = "void" THEN IsPtr(v) ELSE v = LlvmType(d))
         /\ d.kind = "void" => (Fits(d, v) <=> v = NoValue)
         /\ IsFunctionType(d) => (Fits(d, v) <=> v \in {Ptr(LlvmType(d)), NoCode})
         /\ d.kind = "struct" => (Fits(d, v) <=> v = LlvmType(d))
BY Sorts DEF Fits

(* What LLVM's types look like. *)
LEMMA Shapes ==
  ASSUME NEW d \in Types
  PROVE  /\ IsArithmeticType(d) => LlvmType(d) \in {I8, I32}
         /\ IsPointer(d) => IsPtr(LlvmType(d))
         /\ IsPointer(d) => LlvmType(d) = Ptr(LlvmType(d).to)
         /\ IsPointer(d) /\ d.to.kind # "void" => LlvmType(d).to = LlvmType(d.to)
         /\ d.kind = "void" => LlvmType(d) = VoidTy
         /\ d.kind = "struct" => LlvmType(d) = StructTy(d.tag)
         /\ IsFunctionType(d) => LlvmType(d).kind = "fn"
         /\ IsArithmeticType(d) => IsI(LlvmType(d))
         /\ LlvmType(d).kind # "nocode" /\ LlvmType(d).kind # "none"
<1>1. CASE IsArithmeticType(d)
  <2>1. d.kind \in {"int", "null", "char"}
    BY <1>1, Kinds DEF IsArithmeticType, TypeOf
  <2>2. LlvmType(d) \in {I8, I32}
    BY <2>1, LlvmTypes
  <2>3. IsI(LlvmType(d)) /\ LlvmType(d).kind = "i"
    BY <2>2 DEF I32, I8, I, IsI
  <2> QED
    BY <1>1, <2>2, <2>3, Sorts
<1>2. CASE IsPointer(d)
  <2>1. LlvmType(d) = Ptr(IF d.to.kind = "void" THEN I8 ELSE LlvmType(d.to))
    BY <1>2, LlvmTypes
  <2>2. \A t : IsPtr(Ptr(t)) /\ Ptr(t).to = t /\ Ptr(t).kind = "ptr"
    BY DEF IsPtr, Ptr
  <2> QED
    BY <1>2, <2>1, <2>2, Sorts
<1>3. CASE d.kind \in {"struct", "void"}
  <2>1. LlvmType(d) = IF d.kind = "void" THEN VoidTy ELSE StructTy(d.tag)
    BY <1>3, LlvmTypes
  <2>2. VoidTy.kind = "voidty" /\ \A tag : StructTy(tag).kind = "structty"
    BY DEF StructTy, VoidTy
  <2> QED
    BY <1>3, <2>1, <2>2, Sorts
<1>4. CASE IsFunctionType(d)
  <2>1. d.kind = "function"
    BY <1>4, Sorts
  <2>2. \A r, ps : FunctionTy(r, ps).kind = "fn"
    BY DEF FunctionTy
  <2>3. LlvmType(d).kind = "fn"
    BY <2>1, <2>2, LlvmTypes
  <2> QED
    BY <1>4, <2>3, Sorts
<1> QED
  BY <1>1, <1>2, <1>3, <1>4, Sorts

(* Objects that can be stored: the value has exactly the type. *)
LEMMA FitsItself ==
  ASSUME NEW d \in Types, d.kind # "void", ~IsFunctionType(d)
  PROVE  Fits(d, LlvmType(d))
BY FitsSorts, Shapes, Sorts

(* Objects of complete type have a size, functions and void have none. *)
LEMMA Sizes ==
  ASSUME NEW d \in Types
  PROVE  /\ IsCompleteObjectType(d) => IsSized(LlvmType(d))
         /\ IsCompleteObjectType(d) => d.kind # "void" /\ ~IsFunctionType(d)
         /\ IsFunctionType(d) \/ d.kind = "void" => ~IsSized(LlvmType(d))
         /\ IsPointer(d) \/ IsArithmeticType(d) => IsSized(LlvmType(d))
<1>1. IsPointer(d) \/ IsArithmeticType(d) => IsSized(LlvmType(d))
  BY Shapes DEF IsSized, IsPtr, IsI
<1>2. CASE d.kind = "struct"
  BY <1>1, <1>2, Shapes, Sorts DEF IsSized, StructTy, IsCompleteObjectType, IsIncompleteType
<1>3. CASE d.kind # "struct"
  BY <1>1, <1>3, Shapes, Sorts DEF IsSized, VoidTy, IsCompleteObjectType, IsIncompleteType
<1> QED
  BY <1>2, <1>3

(* Numbers. *)
LEMMA Numbers ==
  ASSUME NEW a \in {I8, I32}
  PROVE  /\ a.kind = "i" /\ IsI(a) /\ ~IsPtr(a) /\ a # NoCode /\ a # NoValue
         /\ \A t \in {I8, I32} : Convert(a, t) = t /\ SExtOrTrunc(a, t) = t
         /\ CreateNegation(a) = a
         /\ ~IsVoidP(a)
BY DEF I8, I32, I, IsI, IsPtr, NoCode, NoValue, Convert, SExtOrTrunc, CreateNegation, IsVoidP

(* Pointers. *)
LEMMA Pointers ==
  ASSUME NEW p, IsPtr(p)
  PROVE  /\ ~IsI(p) /\ p # NoCode /\ p # NoValue /\ p # VoidTy /\ p \notin {I8, I32}
         /\ PtrToInt(p) = I32
         /\ \A t : IsPtr(t) => BitCast(p, t) = t
         /\ \A t : p # t => Convert(p, t) = NoCode
BY DEF I8, I32, I, IsI, IsPtr, NoCode, NoValue, VoidTy, PtrToInt, BitCast, Convert,
   SExtOrTrunc

(* Comparison gives an int. *)
LEMMA Comparisons ==
  ASSUME NEW a, NEW b,
         (a \in {I8, I32} /\ b \in {I8, I32}) \/ (IsPtr(a) /\ IsPtr(b))
  PROVE  CreateComparison(a, b) = I32
<1>1. \A c : IsI(c) \/ IsPtr(c) => SExtOrTrunc(ICmp(BitCast(c, c), c), I32) = I32
  BY DEF SExtOrTrunc, ICmp, BitCast, IsI, IsPtr, I, I32
<1>2. CASE a \in {I8, I32} /\ b \in {I8, I32}
  <2>1. ~IsVoidP(a) /\ ~IsVoidP(b) /\ ~IsPtr(a) /\ ~IsPtr(b)
    BY <1>2, Numbers
  <2>2. Convert(a, I32) = I32 /\ Convert(b, I32) = I32 /\ IsI(I32)
    BY <1>2, Numbers
  <2> QED
    BY <1>1, <2>1, <2>2 DEF CreateComparison
<1>3. CASE IsPtr(a) /\ IsPtr(b)
  <2>1. /\ a # I32 /\ b # I32
        /\ \A c, d : IsPtr(c) /\ IsPtr(d) => BitCast(c, d) = d
    BY <1>3, Pointers
  <2>2. \A c, d : IsPtr(c) /\ IsPtr(d) =>
          SExtOrTrunc(ICmp(BitCast(c, d), d), I32) = I32
    BY <1>1, <2>1
  <2> HIDE DEF IsPtr
  <2>3. CASE IsVoidP(a) /\ IsVoidP(b)
    BY <1>3, <2>2, <2>3 DEF CreateComparison
  <2>4. CASE IsVoidP(a) /\ ~IsVoidP(b)
    BY <1>3, <2>1, <2>2, <2>4 DEF CreateComparison
  <2>5. CASE ~IsVoidP(a) /\ IsVoidP(b)
    BY <1>3, <2>1, <2>2, <2>5 DEF CreateComparison
  <2>6. CASE ~IsVoidP(a) /\ ~IsVoidP(b)
    BY <1>3, <2>1, <2>2, <2>6 DEF CreateComparison
  <2> QED
    BY <2>3, <2>4, <2>5, <2>6
<1> QED
  BY <1>2, <1>3

(* Arithmetic gives an int. *)
LEMMA Arithmetic ==
  ASSUME NEW a \in {I8, I32}, NEW b \in {I8, I32}
  PROVE  CreateArithmetic(a, b) = I32
BY Numbers DEF CreateArithmetic, Operation

(* So do && and ||, of two numbers and of a number and a pointer. *)
LEMMA Logicals ==
  ASSUME NEW a, NEW b, a \in {I8, I32} \/ IsPtr(a), b \in {I8, I32} \/ IsPtr(b),
         ~(IsPtr(a) /\ IsPtr(b))
  PROVE  CreateLogical(a, b) = I32
<1>1. \A c : c \in {I8, I32} \/ IsPtr(c) =>
        (IF IsPtr(c) THEN PtrToInt(c) ELSE Convert(c, I32)) = I32
  BY Numbers, Pointers
<1>2. IsI(I32)
  BY DEF IsI, I32, I
<1> QED
  BY <1>1, <1>2 DEF CreateLogical, Operation

(* The element that a pointer points at, and its address. *)
LEMMA Subscripts ==
  ASSUME NEW p, NEW index \in {I8, I32}, IsPtr(p), IsSized(p.to)
  PROVE  /\ Gep(p, index) = p /\ CreatePAdd(p, index) = p
         /\ CreateArrayAccess(p, index) = p.to
         /\ Load(p) = p.to
BY Numbers DEF Gep, CreatePAdd, CreateArrayAccess, Load

-----------------------------------------------------------------------------
(* What holds of every expression that is built.  The value fits the type.  *)
(* Lvalues and functions have an address, which points to the type, but     *)
(* computed elements have none; of the others only a string literal, the    *)
(* address of a function and what ?: makes of these carry their value       *)
(* there, which is of no use as the address of a pointer.  Behind & there   *)
(* is the value of the operand, behind * its address.                       *)
Placed(e) ==
  \/ e.lv = NoCode /\ (e.lvalue => e.form = "computed")
  \/ /\ e.lvalue \/ IsFunctionType(e.type)
     /\ e.lv = Ptr(LlvmType(e.type)) /\ e.form # "computed"
  \/ /\ ~e.lvalue /\ IsPointer(e.type)
     /\ e.lv = LlvmType(e.type) /\ ~IsPtr(e.lv.to)

Sound(e) ==
  /\ e.type \in Types
  /\ Fits(e.type, e.rv)
  /\ Placed(e)
  /\ e.lvalue => e.type.kind # "void"
  /\ IsFunctionType(e.type) => e.lv = Ptr(LlvmType(e.type))
  /\ e.form = "&" => IsPointer(e.type) /\ Fits(e.type.to, e.inner)
  /\ e.form = "*" => e.inner = Ptr(LlvmType(e.type)) /\ e.type.kind # "void"

(* An expression that is only a value. *)
LEMMA ResultSound ==
  ASSUME NEW t \in Types, ~IsFunctionType(t), NEW v, Fits(t, v)
  PROVE  Sound(Result(t, v))
BY DEF Sound, Placed, Result, Expression

(* An int. *)
LEMMA IntSound ==
  ASSUME NEW v, v \in {I8, I32}
  PROVE  Sound(Result(IntDeclaration, v))
<1>1. IntDeclaration \in Types
  BY TypesAssumption
<1>2. IsArithmeticType(IntDeclaration)
  BY DEF IsArithmeticType, IntDeclaration, TypeOf
<1> QED
  BY <1>1, <1>2, ResultSound, FitsSorts, Sorts

(* An object in memory, with its address. *)
LEMMA ObjectSound ==
  ASSUME NEW t \in Types, NEW form \in {"other", "computed"}, NEW lv,
         t.kind # "void", ~IsFunctionType(t),
         lv = IF form = "computed" THEN NoCode ELSE Ptr(LlvmType(t))
  PROVE  Sound(Expression(t, TRUE, form, NoCode, LlvmType(t), lv))
<1>1. Fits(t, LlvmType(t))
  BY FitsItself
<1> QED
  BY <1>1 DEF Sound, Placed, Expression

(* A null pointer constant has the type it is given. *)
LEMMA NullSound ==
  ASSUME NEW t \in Types, IsPointer(t) \/ t.kind = "null"
  PROVE  /\ Sound(NullConstant(t)) /\ NullConstant(t).type = t
         /\ NullConstant(t).lv = NoCode
         /\ NullConstant(t).rv = LlvmType(t)
<1>1. ~IsFunctionType(t)
  BY Sorts
<1>2. AllocNullptr(LlvmType(t)) = LlvmType(t)
  <2>1. CASE IsPointer(t)
    BY <2>1, Shapes DEF AllocNullptr
  <2>2. CASE t.kind = "null"
    <3>1. LlvmType(t) = I32
      BY <2>2, LlvmTypes
    <3>2. ~IsPtr(I32) /\ IsI(I32)
      BY DEF I32, I, IsI, IsPtr
    <3> QED
      BY <3>1, <3>2 DEF AllocNullptr
  <2> QED
    BY <2>1, <2>2
<1>3. Fits(t, LlvmType(t))
  BY FitsItself, Sorts
<1> QED
  BY <1>1, <1>2, <1>3 DEF Sound, Placed, NullConstant, Expression

(* The leaves. *)
LEMMA LeafSound ==
  ASSUME NEW e \in Leaves
  PROVE  Sound(e)
<1>1. ASSUME NEW t \in Variables PROVE Sound(VariableUsage(t))
  <2>1. t \in Types /\ (IsCompleteObjectType(t) \/ IsFunctionType(t))
    BY ExpressionsAssumption
  <2> DEFINE a == Ptr(LlvmType(t))
  <2>2. IsPtr(a) /\ a.to = LlvmType(t)
    BY DEF IsPtr, Ptr
  <2>3. CASE IsFunctionType(t)
    <3>1. Fits(t, a)
      BY <2>1, <2>3, FitsSorts
    <3>2. t.kind # "void"
      BY <2>1, <2>3, Sorts
    <3> HIDE DEF a
    <3>3. VariableUsage(t) = Expression(t, TRUE, "variable", NoCode, a, a)
      BY <2>3 DEF VariableUsage, a
    <3> QED
      BY <2>1, <2>3, <3>1, <3>2, <3>3 DEF Sound, Placed, Expression, a
  <2>4. CASE IsCompleteObjectType(t)
    <3>1. IsSized(LlvmType(t)) /\ t.kind # "void" /\ ~IsFunctionType(t)
      BY <2>1, <2>4, Sizes
    <3>2. Load(a) = LlvmType(t) /\ Fits(t, LlvmType(t))
      BY <2>1, <2>2, <3>1, FitsItself DEF Load
    <3> HIDE DEF a
    <3>3. VariableUsage(t) = Expression(t, TRUE, "variable", NoCode, LlvmType(t), a)
      BY <3>1, <3>2 DEF VariableUsage, a
    <3> QED
      BY <2>1, <3>1, <3>2, <3>3 DEF Sound, Placed, Expression, a
  <2> QED
    BY <2>1, <2>3, <2>4
<1>2. Sound(Literal)
  <2> DEFINE t == ArrayOf(CharDeclaration)
  <2>1. t \in Types /\ CharDeclaration \in Types
    BY TypesAssumption
  <2>2. IsPointer(t) /\ t.to = CharDeclaration /\ CharDeclaration.kind = "char"
    BY DEF IsPointer, TypeOf, ArrayOf, CharDeclaration
  <2>3. ~IsFunctionType(t)
    BY <2>1, <2>2, Sorts
  <2> HIDE DEF t
  <2>4. LlvmType(t) = Ptr(I8)
    <3>1. LlvmType(CharDeclaration) = I8
      BY <2>1, <2>2, LlvmTypes
    <3>2. t.to.kind # "void"
      BY <2>2
    <3> QED
      BY <2>1, <2>2, <3>1, <3>2, LlvmTypes
  <2>5. Fits(t, Ptr(I8))
    BY <2>1, <2>2, <2>4, FitsSorts
  <2>6. ~IsPtr(Ptr(I8).to)
    BY DEF IsPtr, Ptr, I8, I
  <2>7. Literal = Expression(t, FALSE, "literal", NoCode, Ptr(I8), Ptr(I8))
    BY DEF Literal, t
  <2> QED
    BY <2>1, <2>2, <2>3, <2>4, <2>5, <2>6, <2>7 DEF Sound, Placed, Expression
<1>3. Sound(CharConstant) /\ Sound(IntConstant)
  BY IntSound DEF CharConstant, IntConstant
<1>4. Sound(NullConstant(NullDeclaration))
  BY NullSound, TypesAssumption DEF NullDeclaration
<1>5. ASSUME NEW t \in SizeofTypes PROVE Sound(SizeOfType(t))
  <2>1. t \in Types /\ IsCompleteObjectType(t)
    BY ExpressionsAssumption
  <2>2. SizeOf(LlvmType(t)) = I32
    BY <2>1, Sizes DEF SizeOf
  <2> QED
    BY <2>2, IntSound DEF SizeOfType
<1> QED
  BY <1>1, <1>2, <1>3, <1>4, <1>5 DEF Leaves

-----------------------------------------------------------------------------
(* What the cases that are known to be emitted wrongly leave to binary      *)
(* operators.                                                               *)
LEMMA BinaryBarred ==
  ASSUME Allowed = {}, NEW op, NEW l, NEW r, BinaryAllowed(op, l, r)
  PROVE  /\ op = "&&" => ~(IsPtr(l.rv) /\ IsPtr(r.rv))
         /\ op \in {"+", "[]"} => ~Unsized(l.type) /\ ~Unsized(r.type)
         /\ op = "[]" => IsPointer(l.type) /\ ~IsPointerToVoid(l.type)
         /\ op = "=" => ~IsFunctionType(l.type) /\ l.lv # NoCode
         /\ op # "=" => l.rv # NoCode
         /\ r.rv # NoCode
         /\ op \in {"+", "-", "[]"} => ~Misled(l) /\ ~Misled(r)
         /\ op = "=" /\ ~IsPointerToVoid(l.type) => ~Misled(r)
<1>1. \A c, h : Barred(c, h) => ~h
  BY Zenon DEF Barred
<1> QED
  BY <1>1 DEF BinaryAllowed

(* The value of an expression of each sort. *)
LEMMA Values ==
  ASSUME NEW e, Sound(e)
  PROVE  /\ e.type \in Types
         /\ IsArithmeticType(e.type) => e.rv \in {I8, I32}
         /\ IsPointer(e.type) => IsPtr(e.rv)
         /\ IsPointer(e.type) /\ ~Misled(e) => e.rv = LlvmType(e.type)
         /\ IsPointer(e.type) /\ ~IsPointerToVoid(e.type) => e.rv = LlvmType(e.type)
         /\ IsFunctionType(e.type) => e.rv \in {Ptr(LlvmType(e.type)), NoCode}
         /\ e.type.kind = "struct" => e.rv = LlvmType(e.type)
         /\ e.type.kind = "void" => e.rv = NoValue
<1>1. e.type \in Types /\ Fits(e.type, e.rv)
  BY DEF Sound
<1>2. IsPointer(e.type) => IsPtr(e.rv)
  BY <1>1, FitsSorts, Shapes
<1>3. IsPointer(e.type) /\ ~Misled(e) => e.rv = LlvmType(e.type)
  BY <1>2 DEF Misled
<1>4. IsPointer(e.type) /\ ~IsPointerToVoid(e.type) => e.rv = LlvmType(e.type)
  BY <1>1, FitsSorts, Sorts
<1> QED
  BY <1>1, <1>2, <1>3, <1>4, FitsSorts

(* A pointer that is not misled, at something that has a size, as an        *)
(* operand of + or - and of a subscript.                                    *)
LEMMA Pointing ==
  ASSUME NEW e, Sound(e), IsPointer(e.type), ~Misled(e), ~Unsized(e.type)
  PROVE  /\ e.rv = LlvmType(e.type) /\ IsPtr(e.rv) /\ IsSized(e.rv.to)
         /\ Fits(e.type, e.rv)
         /\ e.type.to \in Types
         /\ ~IsPointerToVoid(e.type) =>
              /\ e.rv = Ptr(LlvmType(e.type.to)) /\ e.rv.to = LlvmType(e.type.to)
              /\ e.type.to.kind # "void" /\ ~IsFunctionType(e.type.to)
<1>1. /\ e.rv = LlvmType(e.type) /\ IsPtr(e.rv) /\ IsSized(e.rv.to)
      /\ e.type.to \in Types /\ e.type \in Types /\ Fits(e.type, e.rv)
  BY Values, Sorts DEF Unsized, Sound
<1>2. ASSUME ~IsPointerToVoid(e.type)
      PROVE  /\ e.rv = Ptr(LlvmType(e.type.to)) /\ e.rv.to = LlvmType(e.type.to)
             /\ e.type.to.kind # "void" /\ ~IsFunctionType(e.type.to)
  <2>1. e.type.to.kind # "void"
    BY <1>1, <1>2, Sorts
  <2>2. e.rv = Ptr(LlvmType(e.type.to)) /\ e.rv.to = LlvmType(e.type.to)
    BY <1>1, <2>1, Shapes
  <2> QED
    BY <1>1, <2>1, <2>2, Sizes
<1> QED
  BY <1>1, <1>2

(* An element, and its address if the pointer itself is stored. *)
LEMMA ArrayAccessSound ==
  ASSUME Allowed = {}, NEW l, NEW r, Sound(l), Sound(r),
         ArrayAccessAccepts(l, r), BinaryAllowed("[]", l, r)
  PROVE  Sound(ArrayAccess(l, r))
<1>1. /\ IsPointer(l.type) /\ ~IsPointerToVoid(l.type)
      /\ ~Unsized(l.type) /\ ~Misled(l)
  BY BinaryBarred
<1>2. IsIntegerType(r.type) /\ r.rv \in {I8, I32}
  BY <1>1, Values, Sorts DEF ArrayAccessAccepts
<1> DEFINE to == l.type.to
<1>3. /\ l.rv = LlvmType(l.type) /\ IsPtr(l.rv) /\ IsSized(l.rv.to)
      /\ to \in Types /\ l.rv = Ptr(LlvmType(to)) /\ l.rv.to = LlvmType(to)
      /\ to.kind # "void" /\ ~IsFunctionType(to)
  BY <1>1, Pointing
<1>4. CreateArrayAccess(l.rv, r.rv) = LlvmType(to)
  BY <1>2, <1>3, Subscripts
<1> DEFINE form == IF Computed(l) THEN "computed" ELSE "other"
<1>5. GetArrayPosition(l.lv, r.rv) = IF form = "computed" THEN NoCode ELSE Ptr(LlvmType(to))
  <2>1. CASE l.lv = NoCode /\ (l.lvalue => l.form = "computed")
    BY <2>1 DEF GetArrayPosition, Gep, Load, NoCode, IsPtr, Computed
  <2>2. CASE l.lvalue /\ l.lv = Ptr(LlvmType(l.type)) /\ l.form # "computed"
    <3>1. IsPtr(l.lv) /\ l.lv.to = l.rv
      <4>1. \A u : IsPtr(Ptr(u)) /\ Ptr(u).to = u
        BY DEF IsPtr, Ptr
      <4> QED
        BY <1>3, <2>2, <4>1
    <3>2. IsSized(l.rv)
      BY <1>1, <1>3, Values, Sizes
    <3>3. Load(l.lv) = l.rv
      BY <3>1, <3>2 DEF Load
    <3>4. Gep(l.rv, r.rv) = l.rv
      BY <1>2, <1>3, Subscripts
    <3>5. form = "other"
      BY <2>2 DEF Computed
    <3> QED
      BY <1>3, <3>3, <3>4, <3>5 DEF GetArrayPosition
  <2>3. CASE ~l.lvalue /\ ~IsPtr(l.lv.to)
    BY <2>3 DEF GetArrayPosition, Gep, Load, NoCode, IsPtr, Computed
  <2>4. ~IsFunctionType(l.type)
    BY <1>1, Values, Sorts
  <2> QED
    BY <2>1, <2>2, <2>3, <2>4 DEF Sound, Placed
<1> HIDE DEF to
<1>6. ArrayAccess(l, r) = Expression(to, TRUE, form, NoCode, LlvmType(to),
                                     GetArrayPosition(l.lv, r.rv))
  BY <1>1, <1>2, <1>4 DEF ArrayAccess, to
<1>7. form \in {"other", "computed"}
  OBVIOUS
<1> HIDE DEF form
<1> QED
  BY <1>3, <1>5, <1>6, <1>7, ObjectSound

(* Two numbers. *)
LEMMA BothNumbers ==
  ASSUME NEW l, NEW r, Sound(l), Sound(r), BothArithmetic(l, r)
  PROVE  /\ l.rv \in {I8, I32} /\ r.rv \in {I8, I32}
         /\ l.type \in Types /\ r.type \in Types
         /\ ~IsPointer(l.type) /\ ~IsPointer(r.type)
         /\ CreateArithmetic(l.rv, r.rv) = I32
<1>1. l.rv \in {I8, I32} /\ r.rv \in {I8, I32}
  BY Values DEF BothArithmetic
<1> QED
  BY <1>1, Values, Sorts, Arithmetic DEF BothArithmetic

(* A product. *)
LEMMA TimesSound ==
  ASSUME NEW l, NEW r, Sound(l), Sound(r), BothArithmetic(l, r)
  PROVE  Sound(Times(l, r))
BY BothNumbers, IntSound DEF Times

(* The usual conversions leave numbers. *)
LEMMA UsualConversions ==
  ASSUME NEW s \in Types, NEW t \in Types, IsArithmeticType(s), IsArithmeticType(t)
  PROVE  /\ ApplyUsualConversions(s, t)[1] \in Types
         /\ IsArithmeticType(ApplyUsualConversions(s, t)[1])
<1>1. IntDeclaration \in Types /\ IsArithmeticType(IntDeclaration)
  BY TypesAssumption DEF IsArithmeticType, IntDeclaration, TypeOf
<1>2. ApplyUsualConversions(s, t)[1] \in {s, IntDeclaration}
  <2> HIDE DEF CompareTypes
  <2> QED
    BY DEF ApplyUsualConversions
<1> QED
  BY <1>1, <1>2

(* The value of a number has any arithmetic type. *)
LEMMA NumberSound ==
  ASSUME NEW t \in Types, IsArithmeticType(t), NEW v, v \in {I8, I32}
  PROVE  Sound(Result(t, v))
BY ResultSound, FitsSorts, Sorts

(* A pointer that was moved. *)
LEMMA MovedSound ==
  ASSUME NEW e, Sound(e), IsPointer(e.type), ~Misled(e), ~Unsized(e.type),
         NEW index, index \in {I8, I32}
  PROVE  Sound(Result(e.type, CreatePAdd(e.rv, index)))
<1>1. CreatePAdd(e.rv, index) = e.rv
  BY Pointing, Subscripts
<1>2. e.type \in Types /\ ~IsFunctionType(e.type) /\ Fits(e.type, e.rv)
  BY Pointing, Values, Sorts
<1> QED
  BY <1>1, <1>2, ResultSound

(* A sum. *)
LEMMA PlusSound ==
  ASSUME Allowed = {}, NEW l, NEW r, Sound(l), Sound(r),
         PlusAccepts(l, r), BinaryAllowed("+", l, r)
  PROVE  Sound(Plus(l, r))
<1>1. ~Unsized(l.type) /\ ~Unsized(r.type) /\ ~Misled(l) /\ ~Misled(r)
  BY BinaryBarred
<1>2. l.type \in Types /\ r.type \in Types
  BY Values
<1>3. CASE IsPointer(l.type)
  <2>1. r.rv \in {I8, I32}
    BY <1>2, <1>3, Values, Sorts DEF PlusAccepts, BothArithmetic
  <2> QED
    BY <1>1, <1>3, <2>1, MovedSound DEF Plus
<1>4. CASE ~IsPointer(l.type) /\ IsPointer(r.type)
  <2>1. l.rv \in {I8, I32}
    BY <1>2, <1>4, Values, Sorts DEF PlusAccepts, BothArithmetic
  <2> QED
    BY <1>1, <1>4, <2>1, MovedSound DEF Plus
<1>5. CASE ~IsPointer(l.type) /\ ~IsPointer(r.type)
  BY <1>5, BothNumbers, IntSound DEF Plus, PlusAccepts
<1> QED
  BY <1>3, <1>4, <1>5

(* A difference. *)
LEMMA MinusSound ==
  ASSUME Allowed = {}, NEW l, NEW r, Sound(l), Sound(r),
         MinusAccepts(l, r), BinaryAllowed("-", l, r)
  PROVE  Sound(Minus(l, r))
<1>1. ~Misled(l) /\ ~Misled(r)
  BY BinaryBarred
<1>2. l.type \in Types /\ r.type \in Types
  BY Values
<1>3. CASE ~IsPointer(l.type)
  <2>1. BothArithmetic(l, r)
    BY <1>3 DEF MinusAccepts
  <2>2. /\ ApplyUsualConversions(l.type, r.type)[1] \in Types
        /\ IsArithmeticType(ApplyUsualConversions(l.type, r.type)[1])
    BY <1>2, <2>1, UsualConversions DEF BothArithmetic
  <2> QED
    BY <1>3, <2>1, <2>2, BothNumbers, NumberSound DEF Minus
<1>4. CASE IsPointer(l.type)
  <2>1. ~BothArithmetic(l, r)
    BY <1>2, <1>4, Sorts DEF BothArithmetic
  <2>2. l.type.to \in Types /\ IsCompleteObjectType(l.type.to)
    BY <1>2, <1>4, <2>1, Sorts DEF MinusAccepts
  <2>3. l.type.to.kind # "void" /\ IsSized(LlvmType(l.type.to))
    BY <2>2, Sizes
  <2>4. LlvmType(l.type).to = LlvmType(l.type.to)
    BY <1>2, <1>4, <2>3, Shapes
  <2>5. ~Unsized(l.type)
    BY <2>3, <2>4 DEF Unsized
  <2>6. /\ l.rv = LlvmType(l.type) /\ IsPtr(l.rv) /\ IsSized(l.rv.to)
        /\ l.rv = Ptr(LlvmType(l.type.to))
    BY <1>1, <1>2, <1>4, <2>3, <2>5, Pointing, Sorts
  <2>7. CASE IsPointer(r.type)
    <3>1. CompareTypes(l.type.to, r.type.to) /\ r.type.to \in Types
      BY <1>2, <2>1, <2>7, Sorts DEF MinusAccepts
    <3>2. LlvmType(r.type.to) = LlvmType(l.type.to) /\ TypeOf(r.type.to) = TypeOf(l.type.to)
      BY <2>2, <3>1, EqualTypes, Compared
    <3>3. r.type.to.kind # "void"
      BY <2>2, <2>3, <3>1, <3>2, SameKind
    <3>4. r.rv = LlvmType(r.type) /\ LlvmType(r.type) = Ptr(LlvmType(r.type.to))
      BY <1>1, <1>2, <2>7, <3>3, Values, LlvmTypes
    <3>5. l.rv = r.rv
      BY <2>6, <3>2, <3>4
    <3>6. Convert(I(64), I32) = I32
      <4>1. IsI(I(64)) /\ IsI(I32)
        BY DEF IsI, I32, I
      <4> QED
        BY <4>1 DEF Convert, SExtOrTrunc
    <3>7. CreatePPMinus(l.rv, r.rv) = I32
      BY <2>6, <3>5, <3>6 DEF CreatePPMinus
    <3> QED
      BY <1>4, <2>7, <3>7, IntSound DEF Minus
  <2>8. CASE ~IsPointer(r.type)
    <3>1. r.rv \in {I8, I32}
      BY <1>2, <2>1, <2>8, Values, Sorts DEF MinusAccepts
    <3> QED
      BY <1>1, <1>4, <2>5, <2>8, <3>1, MovedSound DEF Minus
  <2> QED
    BY <2>7, <2>8
<1> QED
  BY <1>3, <1>4

(* A null pointer constant is an int by its type. *)
LEMMA NullIsArithmetic ==
  ASSUME NEW e, Sound(e), IsNullPtrConstant(e)
  PROVE  IsArithmeticType(e.type) /\ ~IsPointer(e.type) /\ e.type.kind = "null"
BY Values, Sorts DEF IsNullPtrConstant

(* What the null pointer constant is made of that meets a pointer. *)
LEMMA RetypedSound ==
  ASSUME NEW t \in Types, NEW e, Sound(e)
  PROVE  /\ Sound(Retyped(t, e))
         /\ IsPointer(t) /\ IsNullPtrConstant(e) =>
              Retyped(t, e).rv = LlvmType(t) /\ Retyped(t, e).type = t
         /\ ~(IsPointer(t) /\ IsNullPtrConstant(e)) => Retyped(t, e) = e
BY NullSound DEF Retyped

(* A comparison. *)
LEMMA ComparisonSound ==
  ASSUME NEW l, NEW r, Sound(l), Sound(r), LessAccepts(l, r) \/ EqualAccepts(l, r)
  PROVE  Sound(Comparison(l, r))
<1>1. l.type \in Types /\ r.type \in Types
  BY Values
<1> DEFINE a == Retyped(r.type, l).rv
           b == Retyped(l.type, r).rv
<1>2. CASE BothArithmetic(l, r)
  <2>1. a \in {I8, I32} /\ b \in {I8, I32}
    BY <1>1, <1>2, BothNumbers, RetypedSound
  <2> QED
    BY <2>1, Comparisons, IntSound, Numbers DEF Comparison
<1>3. CASE ~BothArithmetic(l, r)
  <2>1. \/ IsPointer(l.type) /\ IsPointer(r.type)
        \/ IsPointer(l.type) /\ IsNullPtrConstant(r)
        \/ IsPointer(r.type) /\ IsNullPtrConstant(l)
    BY <1>3 DEF LessAccepts, EqualAccepts
  <2>2. \A e : Sound(e) /\ IsPointer(e.type) => ~IsNullPtrConstant(e) /\ IsPtr(e.rv)
    BY NullIsArithmetic, Values
  <2>3. \A e, t : Sound(e) /\ t \in Types /\ IsPointer(t) /\ IsNullPtrConstant(e) =>
          IsPtr(Retyped(t, e).rv)
    BY RetypedSound, Shapes
  <2>4. IsPtr(a) /\ IsPtr(b)
    BY <1>1, <2>1, <2>2, <2>3, RetypedSound
  <2> HIDE DEF a, b
  <2>5. CreateComparison(a, b) = I32
    BY <2>4, Comparisons
  <2> QED
    BY <2>5, IntSound DEF Comparison, a, b
<1> QED
  BY <1>2, <1>3

(* A value that has a truth value is a number or a pointer. *)
LEMMA Truths ==
  ASSUME NEW e, Sound(e), IsScalarType(e.type), e.rv # NoCode
  PROVE  e.rv \in {I8, I32} \/ IsPtr(e.rv)
<1>1. \A t : IsPtr(Ptr(t))
  BY DEF IsPtr, Ptr
<1> QED
  BY <1>1, Values, Sorts

(* A conjunction or disjunction. *)
LEMMA LogicalSound ==
  ASSUME Allowed = {}, NEW l, NEW r, Sound(l), Sound(r),
         LogicalAccepts(l, r), BinaryAllowed("&&", l, r)
  PROVE  Sound(Logical(l, r))
<1>1. l.rv # NoCode /\ r.rv # NoCode /\ ~(IsPtr(l.rv) /\ IsPtr(r.rv))
  BY BinaryBarred
<1>2. /\ l.rv \in {I8, I32} \/ IsPtr(l.rv)
      /\ r.rv \in {I8, I32} \/ IsPtr(r.rv)
  BY <1>1, Truths DEF LogicalAccepts
<1>3. CreateLogical(l.rv, r.rv) = I32
  BY <1>1, <1>2, Logicals
<1> QED
  BY <1>3, IntSound DEF Logical

-----------------------------------------------------------------------------
(* What validAssignment lets pass, for each sort of target. *)
LEMMA Assigned ==
  ASSUME NEW t \in Types, ~IsFunctionType(t), NEW e, Sound(e), ValidAssignment(t, e),
         NEW v, v = Retyped(t, e).rv, e.rv # NoCode
  PROVE  /\ IsArithmeticType(t) => v \in {I8, I32}
         /\ IsPointer(t) => IsPtr(v)
         /\ IsPointer(t) /\ ~IsPointerToVoid(t) =>
              \/ v = LlvmType(t)
              \/ IsPointerToVoid(e.type) /\ v = e.rv
         /\ t.kind = "struct" => v = LlvmType(t)
         /\ t.kind = "void" => v = NoValue
<1>1. e.type \in Types
  BY Values
<1>2. CASE IsPointer(t) /\ IsNullPtrConstant(e)
  BY <1>2, RetypedSound, Shapes, Sorts
<1>3. CASE ~(IsPointer(t) /\ IsNullPtrConstant(e)) /\ CompareTypes(t, e.type)
  <2>1. v = e.rv
    BY <1>3, RetypedSound
  <2>2. TypeOf(t) = TypeOf(e.type) /\ LlvmType(t) = LlvmType(e.type)
    BY <1>1, <1>3, EqualTypes, Compared
  <2>3. /\ IsArithmeticType(t) => IsArithmeticType(e.type)
        /\ IsPointer(t) => IsPointer(e.type)
        /\ t.kind = "struct" => e.type.kind = "struct"
        /\ t.kind = "void" => e.type.kind = "void"
    BY <1>1, <2>2, SameKind DEF IsArithmeticType
  <2> QED
    BY <2>1, <2>2, <2>3, Values
<1>4. CASE IsArithmeticType(t) /\ IsArithmeticType(e.type)
  <2>1. v = e.rv /\ v \in {I8, I32}
    BY <1>4, RetypedSound, Values, Sorts
  <2> QED
    BY <1>4, <2>1, Sorts
<1>5. CASE IsPointer(t) /\ ~IsNullPtrConstant(e) /\ IsPointerToVoid(e.type)
  <2>1. v = e.rv /\ IsPtr(v)
    BY <1>1, <1>5, RetypedSound, Values, Sorts
  <2> QED
    BY <1>5, <2>1, Sorts
<1>6. CASE /\ IsPointer(t) /\ ~IsNullPtrConstant(e)
           /\ IsFunctionType(e.type) /\ CompareTypes(t, PointerTo(e.type))
  <2> DEFINE p == PointerTo(e.type)
  <2>1. p \in Types /\ IsPointer(p) /\ p.to = e.type /\ p.to.kind # "void"
    BY <1>1, <1>6, Kinds, Sorts DEF PointerTo, IsPointer, TypeOf
  <2> HIDE DEF p
  <2>2. LlvmType(t) = LlvmType(p)
    BY <1>6, <2>1, EqualTypes DEF p
  <2>3. LlvmType(p) = Ptr(LlvmType(e.type))
    BY <2>1, LlvmTypes
  <2>4. v = e.rv /\ e.rv = Ptr(LlvmType(e.type))
    BY <1>6, RetypedSound, Values
  <2>5. v = LlvmType(t) /\ IsPtr(v)
    BY <1>6, <2>2, <2>3, <2>4, Shapes
  <2> QED
    BY <1>6, <2>5, Sorts
<1>7. CASE IsPointerToVoid(t) /\ ~IsNullPtrConstant(e) /\ IsPointer(e.type)
  <2>1. v = e.rv /\ IsPtr(v)
    BY <1>7, RetypedSound, Values
  <2> QED
    BY <1>7, <2>1, Sorts
<1> QED
  BY <1>2, <1>3, <1>4, <1>5, <1>6, <1>7 DEF ValidAssignment

(* What createAssign makes of a value of each sort. *)
LEMMA Stored ==
  ASSUME NEW t, NEW v
  PROVE  /\ v \in {I8, I32} /\ t \in {I8, I32} => CreateAssign(Ptr(t), v, t) = t
         /\ v = t => CreateAssign(Ptr(t), v, t) = t
         /\ IsPtr(v) /\ t = Ptr(I8) => IsPtr(CreateAssign(Ptr(t), v, t))
         /\ IsPtr(t) /\ v = Ptr(I8) => CreateAssign(Ptr(t), v, t) = t
<1>1. /\ \A u : IsPtr(Ptr(u)) /\ Ptr(u).to = u
      /\ IsVoidP(Ptr(I8)) /\ ~IsPtr(I8) /\ ~IsPtr(I32)
  BY DEF IsVoidP, IsPtr, Ptr, I8, I32, I
<1>2. IsVoidPP(Ptr(t)) <=> IsVoidP(t)
  BY <1>1 DEF IsVoidPP
<1>3. CASE v \in {I8, I32} /\ t \in {I8, I32}
  <2>1. ~IsVoidP(v) /\ ~IsVoidP(t) /\ Convert(v, t) = t /\ ~IsPtr(v) /\ ~IsPtr(t)
    BY <1>3, Numbers
  <2>2. CreateAssign(Ptr(t), v, t) = t
    BY <1>2, <2>1 DEF CreateAssign
  <2> QED
    BY <1>1, <2>1, <2>2
<1>4. ASSUME v = t PROVE CreateAssign(Ptr(t), v, t) = t
  BY <1>2, <1>4 DEF CreateAssign, Convert, BitCast
<1>5. ASSUME IsPtr(v), t = Ptr(I8) PROVE IsPtr(CreateAssign(Ptr(t), v, t))
  <2>1. IsVoidPP(Ptr(t)) /\ IsPtr(t)
    BY <1>1, <1>2, <1>5
  <2>2. CASE IsVoidP(v)
    <3>1. BitCast(v, t) = t
      BY <1>5, <2>1, Pointers
    <3>2. CreateAssign(Ptr(t), v, t) = t
      BY <2>2, <3>1 DEF CreateAssign
    <3> QED
      BY <2>1, <3>2
  <2>3. CASE ~IsVoidP(v)
    <3>1. CreateAssign(Ptr(t), v, t) = v
      BY <2>1, <2>3 DEF CreateAssign
    <3> QED
      BY <1>5, <3>1
  <2> QED
    BY <2>2, <2>3
<1>6. ASSUME IsPtr(t), v = Ptr(I8) PROVE CreateAssign(Ptr(t), v, t) = t
  <2>1. IsVoidP(v) /\ IsPtr(v)
    BY <1>1, <1>6
  <2>2. BitCast(v, t) = t
    BY <1>6, <2>1, Pointers
  <2> QED
    BY <2>1, <2>2 DEF CreateAssign
<1> QED
  BY <1>3, <1>4, <1>5, <1>6

(* An assignment: the value has the type of what it is stored in. *)
LEMMA AssignSound ==
  ASSUME Allowed = {}, NEW l, NEW r, Sound(l), Sound(r),
         AssignAccepts(l, r), BinaryAllowed("=", l, r)
  PROVE  Sound(Assign(l, r))
<1> DEFINE t == l.type
           v == Retyped(t, r).rv
           w == CreateAssign(Ptr(LlvmType(t)), v, LlvmType(t))
<1>1. /\ ~IsFunctionType(t) /\ l.lv # NoCode /\ r.rv # NoCode
      /\ ~IsPointerToVoid(t) => ~Misled(r)
  BY BinaryBarred
<1>2. t \in Types /\ t.kind # "void" /\ l.lv = Ptr(LlvmType(t)) /\ ValidAssignment(t, r)
  BY <1>1 DEF Sound, Placed, AssignAccepts
<1>3. /\ IsArithmeticType(t) => v \in {I8, I32}
      /\ IsPointer(t) => IsPtr(v)
      /\ IsPointer(t) /\ ~IsPointerToVoid(t) =>
           \/ v = LlvmType(t)
           \/ IsPointerToVoid(r.type) /\ v = r.rv
      /\ t.kind = "struct" => v = LlvmType(t)
  BY <1>1, <1>2, Assigned
<1> HIDE DEF v
<1>4. ASSUME IsArithmeticType(t) PROVE Fits(t, w)
  <2>1. LlvmType(t) \in {I8, I32}
    BY <1>2, <1>4, Shapes
  <2>2. w = LlvmType(t)
    BY <1>3, <1>4, <2>1, Stored
  <2> QED
    BY <1>1, <1>2, <2>2, FitsItself
<1>5. ASSUME t.kind = "struct" PROVE Fits(t, w)
  BY <1>1, <1>2, <1>3, <1>5, Stored, FitsItself
<1>6. ASSUME IsPointerToVoid(t) PROVE Fits(t, w)
  <2>1. LlvmType(t) = Ptr(I8) /\ IsPointer(t) /\ t.to.kind = "void"
    BY <1>2, <1>6, LlvmTypes, Sorts
  <2>2. IsPtr(w)
    BY <1>3, <2>1, Stored
  <2> HIDE DEF w
  <2> QED
    BY <1>2, <2>1, <2>2, FitsSorts
<1>7. ASSUME IsPointer(t) /\ ~IsPointerToVoid(t) PROVE Fits(t, w)
  <2>1. IsPtr(LlvmType(t)) /\ t.to.kind # "void"
    BY <1>2, <1>7, Shapes, Sorts
  <2>2. CASE v = LlvmType(t)
    BY <1>1, <1>2, <2>2, Stored, FitsItself
  <2>3. CASE IsPointerToVoid(r.type) /\ v = r.rv
    <3>1. r.type \in Types /\ IsPointer(r.type) /\ r.type.to.kind = "void"
      BY <2>3, Values, Sorts
    <3>2. r.rv = LlvmType(r.type) /\ LlvmType(r.type) = Ptr(I8)
      BY <1>1, <1>7, <3>1, Values, LlvmTypes
    <3>3. w = LlvmType(t)
      BY <2>1, <2>3, <3>2, Stored
    <3> QED
      BY <1>1, <1>2, <3>3, FitsItself
  <2> QED
    BY <1>3, <1>7, <2>2, <2>3
<1>8. Fits(t, w)
  BY <1>1, <1>2, <1>4, <1>5, <1>6, <1>7, Sorts
<1>9. Assign(l, r) = Result(t, w)
  BY <1>2 DEF Assign, v
<1> HIDE DEF w, t
<1> QED
  BY <1>1, <1>2, <1>8, <1>9, ResultSound

(* The binary operators. *)
LEMMA BinarySound ==
  ASSUME Allowed = {}, NEW l, NEW r, Sound(l), Sound(r), NEW op \in BinaryOperators,
         BinaryAccepts(op, l, r), BinaryAllowed(op, l, r)
  PROVE  Sound(Binary(op, l, r))
<1>1. CASE op = "[]"
  BY <1>1, ArrayAccessSound DEF BinaryAccepts, Binary
<1>2. CASE op = "*"
  BY <1>2, TimesSound DEF BinaryAccepts, Binary
<1>3. CASE op = "+"
  BY <1>3, PlusSound DEF BinaryAccepts, Binary
<1>4. CASE op = "-"
  BY <1>4, MinusSound DEF BinaryAccepts, Binary
<1>5. CASE op \in {"<", "=="}
  BY <1>5, ComparisonSound DEF BinaryAccepts, Binary
<1>6. CASE op = "&&"
  BY <1>6, LogicalSound DEF BinaryAccepts, Binary
<1>7. CASE op = "="
  BY <1>7, AssignSound DEF BinaryAccepts, Binary
<1> QED
  BY <1>1, <1>2, <1>3, <1>4, <1>5, <1>6, <1>7 DEF BinaryOperators

-----------------------------------------------------------------------------
(* computeIndex finds a member of the same type as the one that is named. *)
LEMMA IndexedType ==
  ASSUME NEW tag \in DOMAIN Members, NEW k \in DOMAIN Members[tag]
  PROVE  /\ ComputeIndex(Members[tag], k) \in DOMAIN Members[tag]
         /\ Members[tag][k].type \in Types
         /\ IsCompleteObjectType(Members[tag][k].type)
         /\ LlvmType(Members[tag][ComputeIndex(Members[tag], k)].type)
              = LlvmType(Members[tag][k].type)
<1> DEFINE ms   == Members[tag]
           hits == {i \in DOMAIN ms : \/ ms[i].name = ms[k].name
                                      \/ CompareTypes(ms[i].type, ms[k].type)}
           i    == ComputeIndex(ms, k)
<1>1. /\ ms \in Seq([name : STRING, type : Types])
      /\ \A j \in DOMAIN ms : IsCompleteObjectType(ms[j].type)
      /\ \A j \in DOMAIN ms : ms[j].name = ms[k].name => j = k
  BY ExpressionsAssumption
<1>2. \A j \in DOMAIN ms : ms[j].type \in Types
  <2> DEFINE R == [name : STRING, type : Types]
  <2>1. \A x \in R : x.type \in Types
    OBVIOUS
  <2>2. ms \in Seq(R)
    BY <1>1
  <2> HIDE DEF R, ms
  <2>3. \A j \in DOMAIN ms : ms[j] \in R
    BY <2>2
  <2> QED
    BY <2>1, <2>3
<1>3. hits \in SUBSET Nat /\ k \in hits
  BY <1>1
<1>4. \E j \in hits : \A m \in hits : j <= m
  <2> HIDE DEF hits
  <2> QED
    BY <1>3, LeastNumber
<1>5. i \in hits
  BY <1>4 DEF ComputeIndex
<1>6. i = k \/ CompareTypes(ms[i].type, ms[k].type)
  BY <1>1, <1>5
<1>7. i \in DOMAIN ms
  BY <1>5
<1> HIDE DEF ms, i
<1>8. LlvmType(ms[i].type) = LlvmType(ms[k].type)
  <2>1. CASE i = k
    BY <2>1
  <2>2. CASE CompareTypes(ms[i].type, ms[k].type)
    <3>1. ms[i].type \in Types /\ ms[k].type \in Types
      BY <1>2, <1>3, <1>7
    <3> QED
      BY <2>2, <3>1, EqualTypes
  <2> QED
    BY <1>6, <2>1, <2>2
<1> QED
  BY <1>1, <1>2, <1>3, <1>7, <1>8 DEF ms, i

(* A member of an object, with its address. *)
LEMMA MemberSound ==
  ASSUME NEW e, Sound(e), ~IsPointer(e.type) => e.lv # NoCode,
         NEW members,
         members = MembersOf(IF IsPointer(e.type) THEN e.type.to ELSE e.type),
         NEW k \in DOMAIN members, NEW lvalue,
         lvalue = (IsPointer(e.type) \/ e.lvalue)
  PROVE  Sound(Member(e, IF IsPointer(e.type) THEN e.rv ELSE e.lv, lvalue, members, k))
<1> DEFINE t == IF IsPointer(e.type) THEN e.type.to ELSE e.type
           a == IF IsPointer(e.type) THEN e.rv ELSE e.lv
           index == ComputeIndex(members, k)
           m == members[k].type
<1>1. e.type \in Types /\ t \in Types
  BY Values, Sorts
<1>2. t.kind = "struct" /\ t.tag \in DOMAIN Members /\ members = Members[t.tag]
  BY DEF MembersOf
<1>3. /\ index \in DOMAIN members /\ m \in Types /\ IsCompleteObjectType(m)
      /\ LlvmType(members[index].type) = LlvmType(m)
  BY <1>2, IndexedType
<1>4. IsPtr(a) /\ a.to = StructTy(t.tag)
  <2>1. \A u : IsPtr(Ptr(u)) /\ Ptr(u).to = u
    BY DEF IsPtr, Ptr
  <2>2. LlvmType(t) = StructTy(t.tag) /\ t.kind # "void"
    BY <1>1, <1>2, Shapes
  <2>3. CASE IsPointer(e.type)
    <3>1. e.type.to.kind # "void" /\ e.type.to = t
      BY <2>2, <2>3
    <3>2. e.rv = LlvmType(e.type) /\ LlvmType(e.type) = Ptr(LlvmType(t))
      BY <1>1, <2>3, <3>1, Values, LlvmTypes, Sorts
    <3>3. a = Ptr(StructTy(t.tag))
      BY <2>2, <2>3, <3>2
    <3> QED
      BY <2>1, <3>3
  <2>4. CASE ~IsPointer(e.type)
    <3>1. e.lv = Ptr(LlvmType(e.type))
      BY <2>4 DEF Sound, Placed
    <3> QED
      BY <2>1, <2>2, <2>4, <3>1
  <2> QED
    BY <2>3, <2>4
<1> HIDE DEF a, m, index
<1>5. IsSized(a.to) /\ a.to.kind = "structty" /\ a.to.tag = t.tag
  BY <1>2, <1>4 DEF IsSized, StructTy
<1> HIDE DEF t
<1>6. GetMemberAddress(a, index) = Ptr(LlvmType(m))
  BY <1>2, <1>3, <1>4, <1>5 DEF GetMemberAddress
<1>7. IsSized(LlvmType(m)) /\ m.kind # "void" /\ ~IsFunctionType(m)
  BY <1>3, Sizes
<1>8. CreateAccess(a, index) = LlvmType(m)
  <2>1. \A u : IsPtr(Ptr(u)) /\ Ptr(u).to = u
    BY DEF IsPtr, Ptr
  <2> QED
    BY <1>6, <1>7, <2>1 DEF CreateAccess, Load
<1>9. lvalue = TRUE
  <2>1. CASE ~IsPointer(e.type)
    <3>1. ~IsFunctionType(e.type)
      BY <1>1, <1>2, <2>1, Sorts DEF t
    <3> QED
      BY <2>1, <3>1 DEF Sound, Placed
  <2> QED
    BY <2>1
<1>10. Member(e, a, lvalue, members, k)
        = Expression(m, TRUE, "other", NoCode, LlvmType(m), Ptr(LlvmType(m)))
  BY <1>6, <1>8, <1>9 DEF Member, m, index
<1>11. Sound(Expression(m, TRUE, "other", NoCode, LlvmType(m), Ptr(LlvmType(m))))
  BY <1>3, <1>7, ObjectSound
<1> QED
  BY <1>10, <1>11 DEF a

-----------------------------------------------------------------------------
(* What the cases that are known to be emitted wrongly leave to unary       *)
(* operators.                                                               *)
LEMMA UnaryBarred ==
  ASSUME Allowed = {}, NEW op, NEW e, UnaryAllowed(op, e)
  PROVE  /\ op = "!" => ~IsPtr(e.rv)
         /\ op = "&" => e.lv # NoCode \/ e.form = "*"
         /\ op = "sizeof" => e.type.kind # "void" /\ ~IsIncompleteType(e.type)
         /\ op \notin {"&", "sizeof"} => e.rv # NoCode
<1>1. \A c, h : Barred(c, h) => ~h
  BY Zenon DEF Barred
<1> QED
  BY <1>1 DEF UnaryAllowed

(* What a pointer points at. *)
LEMMA DereferenceSound ==
  ASSUME Allowed = {}, NEW e, Sound(e), DereferenceAccepts(e), UnaryAllowed("*", e)
  PROVE  Sound(Dereference(e))
<1>1. e.rv # NoCode /\ e.type \in Types
  BY UnaryBarred, Values
<1> DEFINE t == IF IsPointer(e.type) THEN e.type.to ELSE e.type
           rv == IF e.form = "&" THEN e.inner
                 ELSE IF IsFunctionType(e.type) THEN e.rv ELSE Load(e.rv)
           lvalue == IsPointer(e.type) /\ IsCompleteObjectType(e.type.to)
<1>2. t \in Types /\ t.kind # "void"
  BY <1>1, Sorts, Sizes DEF DereferenceAccepts
<1>3. e.rv = Ptr(LlvmType(t))
  <2>1. CASE IsPointer(e.type)
    <3>1. e.type.to.kind # "void" /\ t = e.type.to
      BY <1>2, <2>1
    <3>2. e.rv = LlvmType(e.type)
      BY <1>1, <2>1, <3>1, Values, Sorts
    <3> QED
      BY <1>1, <2>1, <3>1, <3>2, LlvmTypes
  <2>2. CASE ~IsPointer(e.type)
    BY <1>1, <2>2, Values DEF DereferenceAccepts
  <2> QED
    BY <2>1, <2>2
<1>4. Fits(t, rv)
  <2>1. CASE e.form = "&"
    BY <2>1 DEF Sound
  <2>2. CASE e.form # "&" /\ IsFunctionType(e.type)
    <3>1. t = e.type /\ rv = e.rv
      BY <1>1, <2>2, Sorts
    <3> QED
      BY <3>1 DEF Sound
  <2>3. CASE e.form # "&" /\ ~IsFunctionType(e.type)
    <3>1. IsPointer(e.type) /\ (IsCompleteObjectType(t) \/ IsFunctionType(t))
      BY <2>3 DEF DereferenceAccepts
    <3>2. IsPtr(e.rv) /\ e.rv.to = LlvmType(t)
      <4>1. \A u : IsPtr(Ptr(u)) /\ Ptr(u).to = u
        BY DEF IsPtr, Ptr
      <4> QED
        BY <1>3, <4>1
    <3>3. rv = Load(e.rv)
      BY <2>3
    <3>4. CASE IsCompleteObjectType(t)
      <4>1. IsSized(LlvmType(t)) /\ ~IsFunctionType(t)
        BY <1>2, <3>4, Sizes
      <4>2. rv = LlvmType(t)
        BY <3>2, <3>3, <4>1 DEF Load
      <4> QED
        BY <1>2, <4>1, <4>2, FitsItself
    <3>5. CASE IsFunctionType(t)
      <4>1. ~IsSized(LlvmType(t))
        BY <1>2, <3>5, Sizes
      <4>2. rv = NoCode
        BY <3>2, <3>3, <4>1 DEF Load
      <4> QED
        BY <1>2, <3>5, <4>2, FitsSorts
    <3> QED
      BY <3>1, <3>4, <3>5
  <2> QED
    BY <2>1, <2>2, <2>3
<1>5. Dereference(e) = Expression(t, lvalue, "*", e.rv, rv, e.rv)
  BY DEF Dereference
<1>6. lvalue \/ IsFunctionType(t)
  BY <1>1, Sorts DEF DereferenceAccepts
<1> HIDE DEF t, rv, lvalue
<1> QED
  BY <1>2, <1>3, <1>4, <1>5, <1>6 DEF Sound, Placed, Expression

(* The address of something. *)
LEMMA AddressOfSound ==
  ASSUME Allowed = {}, NEW e, Sound(e), AddressOfAccepts(e), UnaryAllowed("&", e),
         PointerTo(e.type) \in Types
  PROVE  Sound(AddressOf(e))
<1> DEFINE t == PointerTo(e.type)
           rv == IF e.form = "*" THEN e.inner ELSE e.lv
           lv == IF IsFunctionType(e.type) THEN e.lv ELSE NoCode
<1>1. e.lv # NoCode \/ e.form = "*"
  BY UnaryBarred
<1>2. t \in Types /\ IsPointer(t) /\ t.to = e.type /\ e.type \in Types
  BY Values DEF PointerTo, IsPointer, TypeOf
<1>3. e.type.kind # "void"
  BY <1>2, Sorts DEF Sound, AddressOfAccepts
<1>4. rv = Ptr(LlvmType(e.type))
  <2>1. CASE e.form = "*"
    BY <2>1 DEF Sound
  <2>2. CASE e.form # "*"
    BY <1>1, <2>2 DEF Sound, Placed, AddressOfAccepts
  <2> QED
    BY <2>1, <2>2
<1> HIDE DEF t
<1>5. LlvmType(t) = Ptr(LlvmType(e.type))
  BY <1>2, <1>3, LlvmTypes
<1>6. Fits(t, rv)
  BY <1>2, <1>3, <1>4, <1>5, FitsSorts
<1>7. lv = NoCode \/ (lv = LlvmType(t) /\ ~IsPtr(lv.to))
  <2>1. CASE IsFunctionType(e.type)
    <3>1. lv = Ptr(LlvmType(e.type))
      BY <2>1 DEF Sound
    <3>2. Ptr(LlvmType(e.type)).to = LlvmType(e.type)
      BY DEF Ptr
    <3>3. ~IsPtr(LlvmType(e.type))
      BY <1>2, <2>1, Shapes DEF IsPtr
    <3> QED
      BY <1>5, <3>1, <3>2, <3>3
  <2> QED
    BY <2>1
<1>8. Fits(t.to, e.rv) /\ ~IsFunctionType(t)
  BY <1>2, Sorts DEF Sound
<1>9. AddressOf(e) = Expression(t, FALSE, "&", e.rv, rv, lv)
  BY DEF AddressOf, t
<1> HIDE DEF rv, lv
<1> QED
  BY <1>2, <1>6, <1>7, <1>8, <1>9 DEF Sound, Placed, Expression

(* The unary operators. *)
LEMMA UnarySound ==
  ASSUME Allowed = {}, NEW e, Sound(e), NEW op \in UnaryOperators,
         UnaryAccepts(op, e), UnaryAllowed(op, e),
         op = "&" => PointerTo(e.type) \in Types
  PROVE  Sound(Unary(op, e))
<1>1. e.type \in Types
  BY Values
<1>2. CASE op = "*"
  BY <1>2, DereferenceSound DEF UnaryAccepts, Unary
<1>3. CASE op = "&"
  BY <1>3, AddressOfSound DEF UnaryAccepts, Unary
<1>4. CASE op = "-"
  <2>1. IsArithmeticType(e.type)
    BY <1>4 DEF UnaryAccepts
  <2>2. PromoteType(e.type) \in Types /\ IsArithmeticType(PromoteType(e.type))
    BY <1>1, <2>1, TypesAssumption DEF PromoteType, IsArithmeticType, IntDeclaration, TypeOf
  <2>3. e.rv \in {I8, I32} /\ CreateNegation(e.rv) = e.rv
    BY <2>1, Values, Numbers
  <2>4. Sound(Negate(e))
    BY <2>2, <2>3, NumberSound DEF Negate
  <2> QED
    BY <1>4, <2>4 DEF Unary
<1>5. CASE op = "!"
  <2>1. e.rv \in {I8, I32}
    BY <1>5, UnaryBarred, Truths DEF UnaryAccepts
  <2>2. Sound(LogicalNot(e))
    BY <2>1, Numbers, IntSound DEF LogicalNot
  <2> QED
    BY <1>5, <2>2 DEF Unary
<1>6. CASE op = "sizeof"
  <2>1. IsCompleteObjectType(e.type)
    BY <1>6, UnaryBarred DEF UnaryAccepts, IsCompleteObjectType
  <2>2. SizeOf(LlvmType(e.type)) = I32
    BY <1>1, <2>1, Sizes DEF SizeOf
  <2>3. Sound(SizeOfExpression(e))
    BY <2>2, IntSound DEF SizeOfExpression
  <2> QED
    BY <1>6, <2>3 DEF Unary
<1> QED
  BY <1>2, <1>3, <1>4, <1>5, <1>6 DEF UnaryOperators

-----------------------------------------------------------------------------
(* What the cases that are known to be emitted wrongly leave to conversions. *)
LEMMA ConversionBarred ==
  ASSUME Allowed = {}, NEW t, NEW e, ConversionAllowed(t, e)
  PROVE  /\ IsPtr(e.rv) => e.rv = LlvmType(t)
         /\ e.rv # NoCode
<1>1. \A c, h : Barred(c, h) => ~h
  BY Zenon DEF Barred
<1> QED
  BY <1>1 DEF ConversionAllowed

(* An argument is converted to the type of the parameter, which is no       *)
(* function then.                                                           *)
LEMMA Passed ==
  ASSUME Allowed = {}, NEW t \in Types, t.kind # "void", NEW e, Sound(e),
         ValidAssignment(t, e), ConversionAllowed(t, Retyped(t, e))
  PROVE  ~IsFunctionType(t) /\ Convert(Retyped(t, e).rv, LlvmType(t)) = LlvmType(t)
<1> DEFINE v == Retyped(t, e).rv
<1>1. v # NoCode /\ (IsPtr(v) => v = LlvmType(t))
  BY ConversionBarred
<1>2. e.type \in Types
  BY Values
<1>3. ASSUME IsFunctionType(t) PROVE FALSE
  <2>1. ~IsPointer(t) /\ ~IsArithmeticType(t)
    BY <1>3, Sorts
  <2>2. v = e.rv /\ CompareTypes(t, e.type)
    BY <2>1, RetypedSound DEF ValidAssignment
  <2>3. e.type.kind = "function"
    BY <1>2, <1>3, <2>2, Compared, SameKind, Sorts
  <2>4. v = Ptr(LlvmType(e.type))
    BY <1>1, <1>2, <2>2, <2>3, Values, Sorts
  <2>5. IsPtr(v)
    BY <2>4 DEF IsPtr, Ptr
  <2>6. LlvmType(t).kind = "fn"
    BY <1>3, Shapes
  <2> HIDE DEF v
  <2> QED
    BY <1>1, <2>5, <2>6 DEF IsPtr
<1>4. e.rv # NoCode
  <2>1. CASE IsPointer(t) /\ IsNullPtrConstant(e)
    BY <2>1, NullIsArithmetic, Values, Numbers
  <2>2. CASE ~(IsPointer(t) /\ IsNullPtrConstant(e))
    BY <1>1, <2>2, RetypedSound
  <2> QED
    BY <2>1, <2>2
<1>5. /\ IsArithmeticType(t) => v \in {I8, I32}
      /\ IsPointer(t) => IsPtr(v)
      /\ t.kind = "struct" => v = LlvmType(t)
  BY <1>3, <1>4, Assigned
<1> HIDE DEF v
<1>6. ASSUME IsArithmeticType(t) PROVE Convert(v, LlvmType(t)) = LlvmType(t)
  BY <1>5, <1>6, Shapes, Numbers
<1>7. ASSUME v = LlvmType(t) PROVE Convert(v, LlvmType(t)) = LlvmType(t)
  BY <1>7 DEF Convert
<1>8. Convert(v, LlvmType(t)) = LlvmType(t)
  BY <1>1, <1>3, <1>5, <1>6, <1>7, Sorts
<1> QED
  BY <1>3, <1>8 DEF v

(* A call. *)
LEMMA CallSound ==
  ASSUME Allowed = {}, NEW f, Sound(f), NEW args,
         \A k \in DOMAIN args : Sound(args[k]),
         CallAccepts(f, args), DOMAIN args = DOMAIN CalledType(f).params,
         \A k \in DOMAIN args :
           LET p == CalledType(f).params[k] IN ConversionAllowed(p, Retyped(p, args[k]))
  PROVE  Sound(FunctionCall(f, args))
<1> DEFINE t == CalledType(f)
           a == IF IsPointer(f.type) THEN f.rv ELSE f.lv
           values == [k \in DOMAIN args |-> Retyped(t.params[k], args[k]).rv]
           types  == [k \in DOMAIN args |-> LlvmType(t.params[k])]
           converted == [k \in DOMAIN values |-> Convert(values[k], types[k])]
<1>1. f.type \in Types /\ t \in Types /\ IsFunctionType(t)
  BY Values, Sorts DEF CalledType, CallAccepts
<1>2. /\ t.kind = "function" /\ t.returns \in Types /\ t.returns.kind # "function"
      /\ \A k \in DOMAIN t.params : t.params[k] \in Types /\ t.params[k].kind # "void"
  BY <1>1, Kinds, Sorts
<1>3. \A u : IsPtr(Ptr(u)) /\ Ptr(u).to = u
  BY DEF IsPtr, Ptr
<1>4. a = Ptr(LlvmType(t))
  <2>1. CASE IsPointer(f.type)
    <3>1. f.type.to = t /\ t.kind # "void"
      BY <1>2, <2>1 DEF CalledType
    <3>2. f.rv = LlvmType(f.type)
      BY <1>1, <2>1, <3>1, Values, Sorts
    <3> QED
      BY <1>1, <2>1, <3>1, <3>2, LlvmTypes
  <2>2. CASE ~IsPointer(f.type)
    <3>1. f.type = t
      BY <2>2 DEF CalledType
    <3> QED
      BY <1>1, <2>2, <3>1 DEF Sound
  <2> QED
    BY <2>1, <2>2
<1>5. ASSUME NEW k \in DOMAIN args
      PROVE  converted[k] = IF t.params[k].kind = "function" THEN Ptr(LlvmType(t.params[k]))
                            ELSE LlvmType(t.params[k])
  <2> DEFINE p == t.params[k]
  <2>1. p \in Types /\ p.kind # "void" /\ ValidAssignment(p, args[k])
        /\ ConversionAllowed(p, Retyped(p, args[k]))
    BY <1>2 DEF CallAccepts
  <2> HIDE DEF t
  <2>2. converted[k] = Convert(Retyped(p, args[k]).rv, LlvmType(p))
    OBVIOUS
  <2> HIDE DEF converted, p
  <2>3. ~IsFunctionType(p) /\ Convert(Retyped(p, args[k]).rv, LlvmType(p)) = LlvmType(p)
    BY <2>1, Passed
  <2>4. p.kind # "function" /\ converted[k] = LlvmType(p)
    BY <2>1, <2>2, <2>3, Sorts
  <2> QED
    BY <2>4 DEF p
<1> DEFINE params == [k \in DOMAIN t.params |->
                        IF t.params[k].kind = "function" THEN Ptr(LlvmType(t.params[k]))
                        ELSE LlvmType(t.params[k])]
<1>6. LlvmType(t) = FunctionTy(LlvmType(t.returns), params)
  BY <1>1, <1>2, LlvmTypes
<1>7. converted = params
  <2>1. converted = [k \in DOMAIN args |-> converted[k]]
    OBVIOUS
  <2>2. DOMAIN args = DOMAIN t.params
    OBVIOUS
  <2> HIDE DEF converted, t
  <2> QED
    BY <1>5, <2>1, <2>2
<1>8. FunctionCall(f, args) = Result(t.returns, CreateFCall(a, values, types))
  BY DEF FunctionCall
<1>9. CreateFCall(a, values, types) =
        IF IsPtr(a) /\ a.to.kind = "fn" /\ converted = a.to.params
        THEN IF a.to.returns = VoidTy THEN NoValue ELSE a.to.returns
        ELSE NoCode
  BY DEF CreateFCall
<1> HIDE DEF t, a, values, types, converted, params
<1>10. /\ a.to.kind = "fn" /\ a.to.params = params
       /\ a.to.returns = LlvmType(t.returns) /\ IsPtr(a)
  <2>1. a.to = FunctionTy(LlvmType(t.returns), params) /\ IsPtr(a)
    BY <1>3, <1>4, <1>6
  <2> QED
    BY <2>1 DEF FunctionTy
<1>11. CreateFCall(a, values, types)
         = IF LlvmType(t.returns) = VoidTy THEN NoValue ELSE LlvmType(t.returns)
  BY <1>7, <1>9, <1>10
<1>12. ~IsFunctionType(t.returns)
  BY <1>2, Sorts
<1>13. Fits(t.returns, CreateFCall(a, values, types))
  <2>1. CASE t.returns.kind = "void"
    BY <1>2, <1>11, <2>1, FitsSorts, Shapes
  <2>2. CASE t.returns.kind # "void"
    <3>1. LlvmType(t.returns) # VoidTy
      <4>1. VoidTy.kind \notin {"i", "ptr", "structty"}
        BY DEF VoidTy
      <4>2. LlvmType(t.returns).kind \in {"i", "ptr", "structty"}
        BY <1>2, <1>12, <2>2, Shapes, Sorts DEF IsI, IsPtr, StructTy
      <4> QED
        BY <4>1, <4>2
    <3> QED
      BY <1>2, <1>11, <1>12, <2>2, <3>1, FitsItself
  <2> QED
    BY <2>1, <2>2
<1> QED
  BY <1>2, <1>8, <1>12, <1>13, ResultSound

-----------------------------------------------------------------------------
(* The conditional operator makes no address of an address. *)
LEMMA TernaryAddress ==
  ASSUME NEW t \in Types, ~IsFunctionType(t), t.kind # "void",
         NEW l, NEW r, Sound(l), Sound(r), t \in {l.type, r.type} \/ ~IsPointer(t),
         NEW lv,
         lv = MakePhi(Convert(l.lv, LlvmType(t)), Convert(r.lv, LlvmType(t)))
  PROVE  lv = NoCode \/ (IsPointer(t) /\ lv = LlvmType(t) /\ ~IsPtr(lv.to))
<1> DEFINE u == LlvmType(t)
<1>1. \A x : IsPtr(Ptr(x)) /\ Ptr(x).to = x
  BY DEF IsPtr, Ptr
<1>2. ASSUME NEW e, Sound(e)
      PROVE  e.lv = NoCode \/ IsPtr(e.lv)
  <2>1. e.type \in Types
    BY <1>2, Values
  <2>2. CASE e.lv = Ptr(LlvmType(e.type))
    BY <1>1, <2>2
  <2>3. CASE IsPointer(e.type) /\ e.lv = LlvmType(e.type)
    BY <2>1, <2>3, Shapes
  <2> QED
    BY <1>2, <2>2, <2>3 DEF Sound, Placed
<1>3. ASSUME NEW x, x = NoCode \/ IsPtr(x), x # u
      PROVE  Convert(x, u) = NoCode
  BY <1>3 DEF Convert, SExtOrTrunc, NoCode, IsI, IsPtr
<1>4. Convert(u, u) = u
  BY DEF Convert
<1>5. CASE l.lv # u \/ r.lv # u
  <2> HIDE DEF u
  <2>1. Convert(l.lv, u) = NoCode \/ Convert(r.lv, u) = NoCode
    BY <1>2, <1>3, <1>5
  <2> QED
    BY <2>1 DEF MakePhi, u
<1>6. CASE l.lv = u /\ r.lv = u
  <2>1. lv = u
    BY <1>4, <1>6 DEF MakePhi
  <2>2. u # NoCode /\ IsPtr(u)
    <3>1. u.kind # "nocode"
      BY Shapes
    <3>2. u # NoCode
      BY <3>1 DEF NoCode
    <3> QED
      BY <1>2, <1>6, <3>2
  <2>3. IsPointer(t)
    <3>1. ~IsI(u) /\ u.kind # "structty"
      BY <2>2 DEF IsI, IsPtr
    <3>2. ~IsArithmeticType(t)
      BY <3>1, Shapes
    <3>3. t.kind # "struct"
      BY <3>1, Shapes DEF StructTy
    <3> QED
      BY <3>2, <3>3, Sorts
  <2>4. ~IsPtr(u.to)
    <3>1. PICK e \in {l, r} : e.type = t
      BY <2>3
    <3>2. Sound(e) /\ e.lv = u
      BY <1>6, <3>1
    <3>3. u # Ptr(u)
      BY SelfPointer
    <3> QED
      BY <2>2, <3>1, <3>2, <3>3 DEF Sound, Placed
  <2> QED
    BY <2>1, <2>3, <2>4
<1> QED
  BY <1>5, <1>6

(* The type of the conditional operator is that of an operand, or int.  Of  *)
(* no other type than a pointer or a number are both operands what it is.   *)
LEMMA TernaryTypes ==
  ASSUME NEW l, NEW r, Sound(l), Sound(r), TernaryAccepts(l, r),
         NEW t, t = TernaryType(l, r)
  PROVE  /\ t \in Types /\ ~IsFunctionType(t)
         /\ ~IsPointer(t) \/ t \in {l.type, r.type}
         /\ \/ IsArithmeticType(t) /\ BothArithmetic(l, r)
            \/ /\ t.kind \in {"struct", "void"} /\ t = l.type
               /\ CompareTypes(l.type, r.type)
            \/ /\ IsPointer(t)
               /\ IsPointer(l.type) \/ IsNullPtrConstant(l)
               /\ IsPointer(r.type) \/ IsNullPtrConstant(r)
<1>1. l.type \in Types /\ r.type \in Types
  BY Values
<1>2. CASE BothArithmetic(l, r)
  <2>1. t = ApplyUsualConversions(l.type, r.type)[1]
    BY <1>2 DEF TernaryType
  <2>2. t \in Types /\ IsArithmeticType(t)
    BY <1>1, <1>2, <2>1, UsualConversions DEF BothArithmetic
  <2> QED
    BY <1>2, <2>2, Sorts
<1>3. CASE /\ ~BothArithmetic(l, r) /\ l.type.kind \in {"struct", "void"}
           /\ CompareTypes(l.type, r.type)
  <2>1. TypeOf(l.type) = TypeOf(r.type)
    BY <1>1, <1>3, Compared
  <2>2. ~IsPointer(l.type) /\ ~IsPointer(r.type)
    BY <1>1, <1>3, <2>1, SameKind, Sorts
  <2>3. t = l.type
    BY <1>3, <2>2 DEF TernaryType
  <2> QED
    BY <1>1, <1>3, <2>2, <2>3, Sorts
<1>4. CASE /\ ~BothArithmetic(l, r)
           /\ \/ IsPointer(l.type) /\ IsPointer(r.type)
              \/ IsPointer(l.type) /\ IsNullPtrConstant(r)
              \/ IsPointer(r.type) /\ IsNullPtrConstant(l)
  <2>1. /\ IsPointer(l.type) \/ IsNullPtrConstant(l)
        /\ IsPointer(r.type) \/ IsNullPtrConstant(r)
    BY <1>4
  <2>2. IsPointer(t) /\ t \in {l.type, r.type}
    BY <1>4 DEF TernaryType
  <2> QED
    BY <1>1, <2>1, <2>2, Sorts
<1> QED
  BY <1>2, <1>3, <1>4 DEF TernaryAccepts

(* The conditional operator: both values are converted to its type. *)
LEMMA TernarySound ==
  ASSUME Allowed = {}, NEW l, NEW r, Sound(l), Sound(r), TernaryAccepts(l, r),
         LET t == TernaryType(l, r) IN
         ConversionAllowed(t, Retyped(t, l)) /\ ConversionAllowed(t, Retyped(t, r))
  PROVE  Sound(Ternary(l, r))
<1> DEFINE t == TernaryType(l, r)
           u == LlvmType(t)
           a == Retyped(t, l).rv
           b == Retyped(t, r).rv
           lv == MakePhi(Convert(l.lv, u), Convert(r.lv, u))
           rv == MakePhi(Convert(a, u), Convert(b, u))
<1>1. /\ t \in Types /\ ~IsFunctionType(t)
      /\ ~IsPointer(t) \/ t \in {l.type, r.type}
      /\ \/ IsArithmeticType(t) /\ BothArithmetic(l, r)
         \/ /\ t.kind \in {"struct", "void"} /\ t = l.type
            /\ CompareTypes(l.type, r.type)
         \/ /\ IsPointer(t)
            /\ IsPointer(l.type) \/ IsNullPtrConstant(l)
            /\ IsPointer(r.type) \/ IsNullPtrConstant(r)
  BY TernaryTypes
<1>2. /\ IsPtr(a) => a = u
      /\ IsPtr(b) => b = u
  BY ConversionBarred
<1>3. l.type \in Types /\ r.type \in Types
  BY Values
<1>4. Ternary(l, r) = IF t.kind = "void" THEN Result(t, NoValue)
                      ELSE Expression(t, FALSE, "other", NoCode, rv, lv)
  BY DEF Ternary
<1> HIDE DEF t
<1>5. CASE t.kind = "void"
  <2>1. Fits(t, NoValue)
    BY <1>1, <1>5, FitsSorts
  <2> QED
    BY <1>1, <1>4, <1>5, <2>1, ResultSound
<1>6. CASE t.kind # "void"
  <2>1. Convert(a, u) = u /\ Convert(b, u) = u
    <3>1. Convert(u, u) = u
      BY DEF Convert
    <3>2. CASE IsArithmeticType(t) /\ BothArithmetic(l, r)
      <4>1. a \in {I8, I32} /\ b \in {I8, I32}
        BY <1>1, <3>2, BothNumbers, RetypedSound, Sorts
      <4>2. u \in {I8, I32}
        BY <1>1, <3>2, Shapes
      <4> HIDE DEF a, b, u
      <4> QED
        BY <4>1, <4>2, Numbers
    <3>3. CASE t.kind = "struct" /\ t = l.type /\ CompareTypes(l.type, r.type)
      <4>1. TypeOf(l.type) = TypeOf(r.type) /\ LlvmType(r.type) = u
        BY <1>3, <3>3, Compared, EqualTypes
      <4>2. r.type.kind = "struct"
        BY <1>3, <3>3, <4>1, SameKind
      <4>3. a = l.rv /\ b = r.rv
        BY <1>1, <3>3, RetypedSound, Sorts
      <4>4. a = u /\ b = u
        BY <3>3, <4>1, <4>2, <4>3, Values
      <4> QED
        BY <3>1, <4>4
    <3>4. CASE /\ IsPointer(t)
               /\ IsPointer(l.type) \/ IsNullPtrConstant(l)
               /\ IsPointer(r.type) \/ IsNullPtrConstant(r)
      <4>1. \A e : Sound(e) /\ (IsPointer(e.type) \/ IsNullPtrConstant(e)) =>
              IsPtr(Retyped(t, e).rv)
        BY <1>1, <3>4, RetypedSound, Values, Shapes
      <4>2. a = u /\ b = u
        BY <1>2, <3>4, <4>1
      <4> QED
        BY <3>1, <4>2
    <3> QED
      BY <1>1, <1>6, <3>2, <3>3, <3>4
  <2>2. rv = u /\ Fits(t, rv)
    BY <1>1, <1>6, <2>1, FitsItself DEF MakePhi
  <2>3. lv = NoCode \/ (IsPointer(t) /\ lv = u /\ ~IsPtr(lv.to))
    BY <1>1, <1>6, TernaryAddress
  <2> HIDE DEF rv, lv
  <2>4. Ternary(l, r) = Expression(t, FALSE, "other", NoCode, rv, lv)
    BY <1>4, <1>6
  <2> QED
    BY <1>1, <2>2, <2>3, <2>4 DEF Sound, Placed, Expression
<1> QED
  BY <1>5, <1>6

-----------------------------------------------------------------------------
(* What is returned has the type of the function. *)
LEMMA ReturnFits ==
  ASSUME NEW t \in ReturnTypes, NEW e, Sound(e), ValidAssignment(t, e),
         Retyped(t, e).rv # NoCode
  PROVE  MakeReturn(Retyped(t, e).rv, LlvmType(t)) = LlvmType(t)
<1> DEFINE v == Retyped(t, e).rv
           u == LlvmType(t)
<1>1. t \in Types /\ ~IsFunctionType(t)
  BY ExpressionsAssumption
<1>2. e.rv # NoCode
  <2>1. CASE IsPointer(t) /\ IsNullPtrConstant(e)
    BY <2>1, NullIsArithmetic, Values, Numbers
  <2>2. CASE ~(IsPointer(t) /\ IsNullPtrConstant(e))
    BY <1>1, <2>2, RetypedSound
  <2> QED
    BY <2>1, <2>2
<1>3. /\ IsArithmeticType(t) => v \in {I8, I32}
      /\ IsPointer(t) => IsPtr(v)
      /\ t.kind = "struct" => v = u
      /\ t.kind = "void" => v = NoValue
  BY <1>1, <1>2, Assigned
<1>4. /\ IsArithmeticType(t) => u \in {I8, I32}
      /\ IsPointer(t) => IsPtr(u)
      /\ t.kind = "struct" => u = StructTy(t.tag)
      /\ t.kind = "void" => u = VoidTy
  BY <1>1, Shapes
<1> HIDE DEF v, u
<1>5. CASE IsArithmeticType(t)
  <2>1. v # NoValue /\ IsI(v) /\ IsI(u) /\ SExtOrTrunc(v, u) = u
    BY <1>3, <1>4, <1>5, Numbers
  <2> QED
    BY <2>1 DEF MakeReturn, v, u
<1>6. CASE IsPointer(t)
  <2>1. v # NoValue /\ ~IsI(v) /\ ~IsI(u) /\ BitCast(v, u) = u
    BY <1>3, <1>4, <1>6, Pointers
  <2> QED
    BY <2>1 DEF MakeReturn, v, u
<1>7. CASE t.kind = "struct"
  <2>1. v = u /\ u # NoValue /\ ~IsI(u) /\ BitCast(v, u) = u
    BY <1>3, <1>4, <1>7 DEF StructTy, NoValue, IsI, BitCast
  <2> QED
    BY <2>1 DEF MakeReturn, v, u
<1>8. CASE t.kind = "void"
  BY <1>3, <1>4, <1>8 DEF MakeReturn, v, u
<1> QED
  BY <1>1, <1>5, <1>6, <1>7, <1>8, Sorts

(* A condition is a single bit. *)
LEMMA ConditionFits ==
  ASSUME NEW e, Sound(e), IsScalarType(e.type), e.rv # NoCode
  PROVE  MakeConditionalBranch(e.rv) = I(1)
<1> DEFINE c == IF IsPtr(e.rv) THEN PtrToInt(e.rv) ELSE SExtOrTrunc(e.rv, I32)
<1>1. c = I32
  BY Truths, Numbers, Pointers
<1>2. IsI(I32)
  BY DEF IsI, I32, I
<1> HIDE DEF c
<1>3. ICmp(c, I32) = I(1)
  BY <1>1, <1>2 DEF ICmp
<1> QED
  BY <1>3 DEF MakeConditionalBranch, c

-----------------------------------------------------------------------------
(* The inductive invariant: every expression on the stack is sound, and the *)
(* last statement fits.                                                     *)
StackSound == \A k \in DOMAIN stack : Sound(stack[k])
IsSequence == \E S : stack \in Seq(S)
SoundInv   == IsSequence /\ StackSound /\ StatementFits

(* The operands of the next operator. *)
LEMMA TopSound ==
  ASSUME SoundInv, NEW n \in Nat, Len(stack) >= n
  PROVE  /\ Len(Top(n)) = n /\ DOMAIN Top(n) = 1 .. n
         /\ \A k \in 1 .. n : Sound(Top(n)[k])
         /\ n > 0 => Len(Tail(Top(n))) = n - 1 /\ DOMAIN Tail(Top(n)) = 1 .. n - 1
         /\ n > 0 => \A k \in 1 .. n - 1 : Tail(Top(n))[k] = Top(n)[k + 1]
<1>1. PICK S : stack \in Seq(S)
  BY DEF SoundInv, IsSequence
<1> DEFINE m == Len(stack) - n + 1
           top == SubSeq(stack, m, Len(stack))
<1>2. Len(stack) \in Nat /\ DOMAIN stack = 1 .. Len(stack) /\ m \in 1 .. Len(stack) + 1
  BY <1>1
<1>3. /\ top \in Seq(S) /\ Len(top) = n
      /\ \A k \in 1 .. n : top[k] = stack[m + k - 1]
  BY <1>1, <1>2
<1>4. \A k \in 1 .. n : m + k - 1 \in DOMAIN stack
  BY <1>2
<1>5. \A k \in 1 .. n : Sound(top[k])
  BY <1>3, <1>4 DEF SoundInv, StackSound
<1> HIDE DEF top, m
<1>6. DOMAIN top = 1 .. n
  BY <1>3
<1>7. ASSUME n > 0
      PROVE  /\ Len(Tail(top)) = n - 1 /\ DOMAIN Tail(top) = 1 .. n - 1
             /\ \A k \in 1 .. n - 1 : Tail(top)[k] = top[k + 1]
  <2>1. top # <<>>
    BY <1>3, <1>7
  <2>2. Tail(top) \in Seq(S) /\ Len(Tail(top)) = n - 1
    BY <1>3, <2>1
  <2> QED
    BY <1>3, <2>1, <2>2
<1>8. Top(n) = top
  BY DEF Top, top, m
<1> QED
  BY <1>3, <1>5, <1>6, <1>7, <1>8

(* What is put on the stack. *)
LEMMA PushSound ==
  ASSUME SoundInv, NEW n \in Nat, Len(stack) >= n, NEW e, Sound(e),
         stack' = Append(SubSeq(stack, 1, Len(stack) - n), e)
  PROVE  (IsSequence /\ StackSound)'
<1>1. PICK S : stack \in Seq(S)
  BY DEF SoundInv, IsSequence
<1> DEFINE m == Len(stack) - n
           rest == SubSeq(stack, 1, m)
           T == S \union {e}
<1>2. Len(stack) \in Nat /\ DOMAIN stack = 1 .. Len(stack) /\ m \in 0 .. Len(stack)
  BY <1>1
<1>3. /\ rest \in Seq(S) /\ Len(rest) = m
      /\ \A k \in 1 .. m : rest[k] = stack[k]
  <2> HIDE DEF m
  <2>1. /\ 1 \in 1 .. Len(stack) + 1 /\ m \in 0 .. Len(stack) /\ m \in Nat
        /\ Len(stack) \in Nat
    BY <1>2
  <2>2. \A k \in 1 .. m : k \in DOMAIN stack /\ stack[k] \in S
    BY <1>1, <2>1
  <2>3. rest = [k \in 1 .. m |-> stack[1 + k - 1]]
    BY <2>1
  <2>4. rest = [k \in 1 .. m |-> stack[k]]
    BY <2>3
  <2> HIDE DEF rest
  <2> QED
    BY <2>1, <2>2, <2>4
<1>4. \A k \in 1 .. m : Sound(rest[k])
  <2> HIDE DEF rest, m
  <2>1. \A k \in 1 .. m : k \in DOMAIN stack
    BY <1>2
  <2> QED
    BY <1>3, <2>1 DEF SoundInv, StackSound
<1>5. stack' = Append(rest, e)
  OBVIOUS
<1> HIDE DEF rest, m
<1>6. rest \in Seq(T) /\ e \in T /\ m \in Nat
  BY <1>2, <1>3
<1> HIDE DEF T
<1>7. /\ stack' \in Seq(T) /\ Len(stack') = m + 1
      /\ \A k \in 1 .. m : stack'[k] = rest[k]
      /\ stack'[m + 1] = e
  BY <1>3, <1>5, <1>6
<1>8. \A k \in DOMAIN stack' : Sound(stack'[k])
  <2>1. DOMAIN stack' = 1 .. m + 1
    BY <1>7
  <2> QED
    BY <1>4, <1>6, <1>7, <2>1
<1> QED
  BY <1>7, <1>8 DEF IsSequence, StackSound

(* The last operands become one expression. *)
LEMMA ReduceSound ==
  ASSUME SoundInv, NEW n \in Nat, Len(stack) >= n, NEW e, Sound(e), Reduce(n, e)
  PROVE  SoundInv'
<1>1. (IsSequence /\ StackSound)'
  BY PushSound DEF Reduce
<1>2. statement' = statement
  BY DEF Reduce
<1> QED
  BY <1>1, <1>2 DEF SoundInv, StatementFits

(* A statement ends with an empty stack. *)
LEMMA FinishSound ==
  ASSUME NEW v, Finish(v, v)
  PROVE  SoundInv'
BY DEF Finish, SoundInv, IsSequence, StackSound, StatementFits

(* At first there is no expression. *)
LEMMA InitSound == Init => SoundInv
BY DEF Init, SoundInv, IsSequence, StackSound, StatementFits, NoStatement

(* Every step keeps the expressions sound. *)
LEMMA NextSound ==
  ASSUME Allowed = {}, SoundInv, [Next]_vars
  PROVE  SoundInv'
<1>1. CASE PushLeaf
  <2>1. PICK e \in Leaves : stack' = Append(stack, e)
    BY <1>1 DEF PushLeaf
  <2>2. Sound(e)
    BY LeafSound
  <2>3. PICK S : stack \in Seq(S)
    BY DEF SoundInv, IsSequence
  <2>4. Len(stack) \in Nat /\ stack = SubSeq(stack, 1, Len(stack) - 0)
    BY <2>3
  <2>5. (IsSequence /\ StackSound)'
    BY <2>1, <2>2, <2>4, PushSound
  <2>6. statement' = NoStatement
    BY <1>1 DEF PushLeaf
  <2> QED
    BY <2>5, <2>6 DEF SoundInv, StatementFits, NoStatement
<1>2. CASE ApplyUnary
  <2> DEFINE e == Top(1)[1]
  <2>1. Len(stack) >= 1
    BY <1>2 DEF ApplyUnary, Ready
  <2>2. PICK op \in UnaryOperators :
          /\ UnaryAccepts(op, e) /\ UnaryAllowed(op, e)
          /\ op = "&" => PointerTo(e.type) \in Types
          /\ Reduce(1, Unary(op, e))
    BY <1>2 DEF ApplyUnary
  <2>3. Sound(e)
    BY <2>1, TopSound
  <2> HIDE DEF e
  <2>4. Sound(Unary(op, e))
    BY <2>2, <2>3, UnarySound
  <2> QED
    BY <2>1, <2>2, <2>4, ReduceSound
<1>3. CASE ApplyBinary
  <2> DEFINE l == Top(2)[1]
             r == Top(2)[2]
  <2>1. Len(stack) >= 2
    BY <1>3 DEF ApplyBinary, Ready
  <2>2. PICK op \in BinaryOperators :
          /\ BinaryAccepts(op, l, r) /\ BinaryAllowed(op, l, r)
          /\ Reduce(2, Binary(op, l, r))
    BY <1>3 DEF ApplyBinary
  <2>3. Sound(l) /\ Sound(r)
    BY <2>1, TopSound
  <2> HIDE DEF l, r
  <2>4. Sound(Binary(op, l, r))
    BY <2>2, <2>3, BinarySound
  <2> QED
    BY <2>1, <2>2, <2>4, ReduceSound
<1>4. CASE ApplyMember
  <2> DEFINE e == Top(1)[1]
             members == MembersOf(IF IsPointer(e.type) THEN e.type.to ELSE e.type)
             a == IF IsPointer(e.type) THEN e.rv ELSE e.lv
             lvalue == IsPointer(e.type) \/ e.lvalue
  <2>1. /\ Len(stack) >= 1
        /\ Barred("ComputedAddress", ~IsPointer(e.type) /\ e.lv = NoCode)
    BY <1>4 DEF ApplyMember, Ready
  <2>2. PICK k \in DOMAIN members : Reduce(1, Member(e, a, lvalue, members, k))
    BY <1>4 DEF ApplyMember
  <2>3. Sound(e)
    BY <2>1, TopSound
  <2>4. ~IsPointer(e.type) => e.lv # NoCode
    BY <2>1 DEF Barred
  <2>5. lvalue = (IsPointer(e.type) \/ e.lvalue)
    OBVIOUS
  <2> HIDE DEF e, lvalue
  <2>6. Sound(Member(e, a, lvalue, members, k))
    BY <2>3, <2>4, <2>5, MemberSound
  <2> HIDE DEF members, a
  <2> QED
    BY <2>1, <2>2, <2>6, ReduceSound
<1>5. CASE ApplyCall
  <2>1. PICK n \in 0 .. MaxOperands - 1 :
          /\ Ready(n + 1)
          /\ LET f == Top(n + 1)[1]
                 args == Tail(Top(n + 1))
             IN
             /\ CallAccepts(f, args)
             /\ \A k \in DOMAIN args :
                  LET p == CalledType(f).params[k] IN ConversionAllowed(p, Retyped(p, args[k]))
             /\ Reduce(n + 1, FunctionCall(f, args))
    BY <1>5 DEF ApplyCall
  <2>2. n \in Nat /\ n + 1 \in Nat /\ n + 1 > 0 /\ Len(stack) >= n + 1 /\ n + 1 - 1 = n
    BY <2>1, ExpressionsAssumption DEF Ready
  <2> DEFINE f == Top(n + 1)[1]
             args == Tail(Top(n + 1))
             t == CalledType(f)
  <2>3. /\ Sound(f) /\ DOMAIN args = 1 .. n /\ Len(args) = n
        /\ \A k \in DOMAIN args : Sound(args[k])
    BY <2>2, TopSound
  <2>4. /\ CallAccepts(f, args)
        /\ \A k \in DOMAIN args :
             LET p == CalledType(f).params[k] IN ConversionAllowed(p, Retyped(p, args[k]))
        /\ Reduce(n + 1, FunctionCall(f, args))
    BY <2>1
  <2> HIDE DEF f, args
  <2>5. DOMAIN args = DOMAIN CalledType(f).params
    <3>1. f.type \in Types
      BY <2>3, Values
    <3>2. t \in Types /\ IsFunctionType(t) /\ Len(t.params) = n
      BY <2>3, <2>4, <3>1, Sorts DEF CalledType, CallAccepts
    <3>3. t.params \in Seq(Types)
      BY <3>2, Kinds, Sorts
    <3> QED
      BY <2>3, <3>2, <3>3
  <2>6. Sound(FunctionCall(f, args))
    BY <2>3, <2>4, <2>5, CallSound
  <2> QED
    BY <2>2, <2>4, <2>6, ReduceSound
<1>6. CASE ApplyTernary
  <2> DEFINE l == Top(3)[2]
             r == Top(3)[3]
  <2>1. Len(stack) >= 3
    BY <1>6 DEF ApplyTernary, Ready
  <2>2. /\ TernaryAccepts(l, r)
        /\ LET t == TernaryType(l, r) IN
           ConversionAllowed(t, Retyped(t, l)) /\ ConversionAllowed(t, Retyped(t, r))
        /\ Reduce(3, Ternary(l, r))
    BY <1>6 DEF ApplyTernary
  <2>3. Sound(l) /\ Sound(r)
    BY <2>1, TopSound
  <2> HIDE DEF l, r
  <2>4. Sound(Ternary(l, r))
    BY <2>2, <2>3, TernarySound
  <2> QED
    BY <2>1, <2>2, <2>4, ReduceSound
<1>7. CASE ReturnStatement
  <2> DEFINE e == stack[1]
  <2>1. PICK t \in ReturnTypes :
          /\ ValidAssignment(t, e)
          /\ Barred("LoadedFunction", Retyped(t, e).rv = NoCode)
          /\ Finish(MakeReturn(Retyped(t, e).rv, LlvmType(t)), LlvmType(t))
    BY <1>7 DEF ReturnStatement
  <2>2. Sound(e)
    <3>1. PICK S : stack \in Seq(S)
      BY DEF SoundInv, IsSequence
    <3>2. 1 \in DOMAIN stack
      BY <1>7, <3>1 DEF ReturnStatement
    <3> QED
      BY <3>2 DEF SoundInv, StackSound
  <2>3. Retyped(t, e).rv # NoCode
    BY <2>1 DEF Barred
  <2> HIDE DEF e
  <2>4. MakeReturn(Retyped(t, e).rv, LlvmType(t)) = LlvmType(t)
    BY <2>1, <2>2, <2>3, ReturnFits
  <2> QED
    BY <2>1, <2>4, FinishSound
<1>8. CASE ExpressionStatement
  BY <1>8, FinishSound DEF ExpressionStatement
<1>9. CASE ControllingExpression
  <2> DEFINE e == stack[1]
  <2>1. /\ IsScalarType(e.type) /\ Barred("LoadedFunction", e.rv = NoCode)
        /\ Finish(MakeConditionalBranch(e.rv), I(1))
    BY <1>9 DEF ControllingExpression
  <2>2. Sound(e)
    <3>1. PICK S : stack \in Seq(S)
      BY DEF SoundInv, IsSequence
    <3>2. 1 \in DOMAIN stack
      BY <1>9, <3>1 DEF ControllingExpression
    <3> QED
      BY <3>2 DEF SoundInv, StackSound
  <2>3. e.rv # NoCode
    BY <2>1 DEF Barred
  <2> HIDE DEF e
  <2>4. MakeConditionalBranch(e.rv) = I(1)
    BY <2>1, <2>2, <2>3, ConditionFits
  <2> QED
    BY <2>1, <2>4, FinishSound
<1>10. CASE UNCHANGED vars
  BY <1>10 DEF vars, SoundInv, IsSequence, StackSound, StatementFits
<1> QED
  BY <1>1, <1>2, <1>3, <1>4, <1>5, <1>6, <1>7, <1>8, <1>9, <1>10 DEF Next

(* All that is said of the expressions follows. *)
LEMMA SoundImplies ==
  SoundInv => ValueHasItsType /\ AddressPointsToIt /\ EqualTypesEmitAlike /\ StatementFits
<1> SUFFICES ASSUME SoundInv
             PROVE  ValueHasItsType /\ AddressPointsToIt /\ EqualTypesEmitAlike /\ StatementFits
  OBVIOUS
<1>1. ASSUME NEW k \in DOMAIN stack PROVE Sound(stack[k])
  BY DEF SoundInv, StackSound
<1>2. ValueHasItsType
  BY <1>1 DEF ValueHasItsType, Sound, Fits
<1>3. AddressPointsToIt
  BY <1>1 DEF AddressPointsToIt, Sound, Placed
<1>4. EqualTypesEmitAlike
  BY <1>1, EqualTypes DEF EqualTypesEmitAlike, Sound
<1> QED
  BY <1>2, <1>3, <1>4 DEF SoundInv

(* With no case allowed that is known to be emitted wrongly, the invariant  *)
(* holds of every expression, however large and of whatever declarations.   *)
LEMMA ExpressionsSound ==
  ASSUME Allowed = {}
  PROVE  Spec => []SoundInv
<1>1. SoundInv /\ [Next]_vars => SoundInv'
  BY NextSound
<1> QED
  BY <1>1, InitSound, PTL DEF Spec

(* Whatever the checks of ast.cc let pass is emitted without an operand     *)
(* that LLVM refuses, and the value has the type that the checks of the     *)
(* next operator go by: for expressions of any size, over declarations of   *)
(* any types, outside the cases of README, section 4.                       *)
THEOREM CheckedValuesHaveTheirTypes == Allowed = {} => (Spec => []ValueHasItsType)
<1> SUFFICES ASSUME Allowed = {} PROVE Spec => []ValueHasItsType
  OBVIOUS
<1> QED
  BY ExpressionsSound, SoundImplies, PTL

(* An lvalue is stored where emit_lvalue says it is, and points to its      *)
(* type, but for the elements of computed pointers, which have no address:  *)
(* for expressions of any size, over declarations of any types.             *)
THEOREM AddressesPointToObjects == Allowed = {} => (Spec => []AddressPointsToIt)
<1> SUFFICES ASSUME Allowed = {} PROVE Spec => []AddressPointsToIt
  OBVIOUS
<1> QED
  BY ExpressionsSound, SoundImplies, PTL

(* compareTypes takes only types for equal that are one to LLVM, whichever  *)
(* of the two comes first.                                                  *)
THEOREM EqualTypesAreOneType == Allowed = {} => (Spec => []EqualTypesEmitAlike)
<1> SUFFICES ASSUME Allowed = {} PROVE Spec => []EqualTypesEmitAlike
  OBVIOUS
<1> QED
  BY ExpressionsSound, SoundImplies, PTL

(* What makeReturn and makeConditonalBranch hand to LLVM has the type that  *)
(* LLVM asks for.                                                           *)
THEOREM StatementsFitTheirFunction == Allowed = {} => (Spec => []StatementFits)
<1> SUFFICES ASSUME Allowed = {} PROVE Spec => []StatementFits
  OBVIOUS
<1> QED
  BY ExpressionsSound, SoundImplies, PTL
=============================================================================
