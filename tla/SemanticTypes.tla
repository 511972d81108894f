--------------------------- MODULE SemanticTypes ---------------------------
(***************************************************************************)
(* The types of declarations and expressions (semadecl.cc) and what        *)
(* semantic.cc asks of them.  A struct is its tag: `Members' gives its     *)
(* members, and a tag outside its domain was only declared forward.        *)
(***************************************************************************)
EXTENDS Integers, Sequences

CONSTANT Members   \* tag -> sequence of [name, type]

IntDeclaration      == [kind |-> "int"]
NullDeclaration     == [kind |-> "null"]
CharDeclaration     == [kind |-> "char"]
VoidDeclaration     == [kind |-> "void"]
PointerTo(t)        == [kind |-> "pointer", to |-> t]
ArrayOf(t)          == [kind |-> "array", to |-> t]
StructDeclaration(tag) == [kind |-> "struct", tag |-> tag]

(* A single parameter of type void is none, a single function becomes a    *)
(* pointer to it; more parameters are taken as they are.                   *)
FunctionDeclaration(returns, params) ==
  [kind |-> "function", returns |-> returns,
   params |-> IF Len(params) # 1 THEN params
              ELSE IF params[1].kind = "void" THEN <<>>
              ELSE IF params[1].kind = "function" THEN <<PointerTo(params[1])>>
              ELSE params]

(* What a definition makes of the parameters it declared.                  *)
RebindParameters(f, params) ==
  IF Len(params) = 1 /\ params[1].kind = "void" THEN f
  ELSE [f EXCEPT !.params = [k \in DOMAIN params |->
         IF params[k].kind = "function" THEN PointerTo(params[k]) ELSE params[k]]]

(* type(): null pointer constants claim to be int, arrays to be pointers.  *)
TypeOf(d) == IF d.kind = "null" THEN "int"
             ELSE IF d.kind = "array" THEN "pointer" ELSE d.kind

IsPointer(d)         == TypeOf(d) = "pointer"
IsPointerToVoid(d)   == IsPointer(d) /\ d.to.kind = "void"
IsFunctionType(d)    == TypeOf(d) = "function"
IsArithmeticType(d)  == TypeOf(d) \in {"int", "char"}
IsIntegerType(d)     == IsArithmeticType(d)
IsScalarType(d)      == IsArithmeticType(d) \/ TypeOf(d) \in {"pointer", "function"}
IsIncompleteType(d)  == \/ d.kind = "void"
                        \/ d.kind = "struct" /\ d.tag \notin DOMAIN Members
IsObjectType(d)         == ~IsFunctionType(d)
IsCompleteObjectType(d) == ~IsFunctionType(d) /\ ~IsIncompleteType(d)
=============================================================================
