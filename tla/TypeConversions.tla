-------------------------- MODULE TypeConversions --------------------------
(***************************************************************************)
(* When two types are the same (compareTypes), and the types that the      *)
(* usual conversions make of two.                                          *)
(***************************************************************************)
EXTENDS SemanticTypes

CONSTANTS
  Types,    \* bound: the types that declarations and expressions have
  Nesting   \* how deep a type is

(* What a type is made of is a type, and less deep.  The address of a       *)
(* function has a type.  What a function takes or returns is what LLVM      *)
(* lets it take or return (FunctionType::get): nothing of type void is      *)
(* passed, no function is returned (isValidType).                           *)
ASSUME TypesAssumption ==
  /\ Nesting \in [Types -> Nat]
  /\ {IntDeclaration, NullDeclaration, CharDeclaration, ArrayOf(CharDeclaration)}
       \subseteq Types
  /\ \A d \in Types :
       \/ d \in {IntDeclaration, NullDeclaration, CharDeclaration, VoidDeclaration}
       \/ d.kind = "struct" /\ d = StructDeclaration(d.tag)
       \/ /\ \/ d.kind = "pointer" /\ d = PointerTo(d.to)
             \/ d.kind = "array" /\ d = ArrayOf(d.to)
          /\ d.to \in Types /\ Nesting[d.to] < Nesting[d]
       \/ /\ d.kind = "function"
          /\ d = [kind |-> "function", returns |-> d.returns, params |-> d.params]
          /\ PointerTo(d) \in Types
          /\ d.returns \in Types /\ Nesting[d.returns] < Nesting[d]
          /\ ~IsFunctionType(d.returns)
          /\ d.params \in Seq(Types)
          /\ \A k \in DOMAIN d.params : /\ Nesting[d.params[k]] < Nesting[d]
                                        /\ d.params[k].kind # "void"

-----------------------------------------------------------------------------
(* Mutant: the parameters are counted, not compared. *)
SameArity[p \in Types \X Types] ==
  /\ TypeOf(p[1]) = TypeOf(p[2])
  /\ p[1].kind = "struct" => p[1].tag = p[2].tag
  /\ IsFunctionType(p[1]) => /\ Len(p[1].params) = Len(p[2].params)
                             /\ SameArity[<<p[1].returns, p[2].returns>>]
  /\ IsPointer(p[1]) => SameArity[<<p[1].to, p[2].to>>]
CompareTypes_Arity(s1, s2) == SameArity[<<s1, s2>>]

Same[p \in Types \X Types] ==
  /\ TypeOf(p[1]) = TypeOf(p[2])
  /\ p[1].kind = "struct" => p[1].tag = p[2].tag
  /\ IsFunctionType(p[1]) =>
       /\ Len(p[1].params) = Len(p[2].params)
       /\ Same[<<p[1].returns, p[2].returns>>]
       /\ \A k \in DOMAIN p[1].params : Same[<<p[1].params[k], p[2].params[k]>>]
  /\ IsPointer(p[1]) => Same[<<p[1].to, p[2].to>>]
CompareTypes(s1, s2) == Same[<<s1, s2>>]

PromoteType(s) == IF s.kind = "char" THEN IntDeclaration ELSE s

(* Of a char and an int in this order, the char stays one in the second.   *)
ApplyUsualConversions(s1, s2) ==
  IF CompareTypes(s1, s2)
  THEN IF TypeOf(s1) = "char" THEN <<IntDeclaration, IntDeclaration>> ELSE <<s1, s2>>
  ELSE CASE TypeOf(s1) = "int" /\ TypeOf(s2) = "char" -> <<s1, IntDeclaration>>
         [] TypeOf(s1) = "char" /\ TypeOf(s2) = "int" -> <<IntDeclaration, s2>>
         [] OTHER -> <<s1, s2>>
=============================================================================
