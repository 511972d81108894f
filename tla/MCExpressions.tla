--------------------------- MODULE MCExpressions ---------------------------
(***************************************************************************)
(* The declarations in scope: an int, a char, pointers of each kind, two   *)
(* structs (one only declared forward), functions and a pointer to one.    *)
(***************************************************************************)
EXTENDS Expressions, FiniteSetsExt, TLC

CONSTANTS S, F

IntPointer  == PointerTo(IntDeclaration)
VoidPointer == PointerTo(VoidDeclaration)
Unary1      == FunctionDeclaration(IntDeclaration, <<IntPointer>>)
Unary2      == FunctionDeclaration(IntDeclaration, <<CharDeclaration>>)

(* struct S { int a; char b; struct S *c; }, struct F; *)
MCMembers ==
  S :> <<[name |-> "a", type |-> IntDeclaration],
         [name |-> "b", type |-> CharDeclaration],
         [name |-> "c", type |-> PointerTo(StructDeclaration(S))]>>

(* struct S { int a; int b; } *)
TwoIntMembers ==
  S :> <<[name |-> "a", type |-> IntDeclaration], [name |-> "b", type |-> IntDeclaration]>>

MCVariables ==
  {IntDeclaration, CharDeclaration, IntPointer, VoidPointer, PointerTo(IntPointer),
   PointerTo(CharDeclaration), StructDeclaration(S), PointerTo(StructDeclaration(S)),
   PointerTo(StructDeclaration(F)), Unary1, Unary2, PointerTo(Unary1),
   FunctionDeclaration(VoidDeclaration, <<VoidDeclaration>>),
   FunctionDeclaration(StructDeclaration(S), <<VoidPointer, PointerTo(Unary2)>>)}

StructVariables == {IntDeclaration, StructDeclaration(S)}

MCSizeofTypes == {IntPointer, StructDeclaration(S)}
MCReturnTypes == {IntDeclaration, CharDeclaration, VoidDeclaration, IntPointer, VoidPointer,
                  StructDeclaration(S), PointerTo(Unary1)}

(* The types that these are made of, and the addresses that two operators   *)
(* may take of them.                                                        *)
RECURSIVE PartsOf(_)
PartsOf(d) ==
  {d} \union CASE d.kind \in {"pointer", "array"} -> PartsOf(d.to)
              [] d.kind = "function" ->
                   PartsOf(d.returns) \union UNION {PartsOf(d.params[k]) : k \in DOMAIN d.params}
              [] OTHER -> {}

RECURSIVE Depth(_)
Depth(d) == IF PartsOf(d) = {d} THEN 0 ELSE 1 + Max({Depth(p) : p \in PartsOf(d) \ {d}})

WithAddresses(T) == T \union {PointerTo(t) : t \in T}

MCTypes ==
  LET named == MCVariables \union MCSizeofTypes \union MCReturnTypes
                 \union {NullDeclaration, ArrayOf(CharDeclaration)}
      parts == UNION {PartsOf(t) : t \in named}
  IN  WithAddresses(WithAddresses(parts))
MCNesting == [d \in MCTypes |-> Depth(d)]
=============================================================================
