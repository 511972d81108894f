---------------------------- MODULE Expressions ----------------------------
(***************************************************************************)
(* Expressions from their checks (the constructors in ast.cc) to their     *)
(* code (emit_rvalue and emit_lvalue in cogen.cc).  The parser builds them *)
(* from the operands up, which is the stack here; a constructor that       *)
(* throws is a step that is not taken.  Code is emitted later, but what is *)
(* emitted for a node depends on the node and the code of its operands, so *)
(* it is worked out along with the node.                                   *)
(***************************************************************************)
EXTENDS ValueEmission, FiniteSets

CONSTANTS
  Variables,     \* types of the variables and functions in scope
  SizeofTypes,   \* operands of sizeof that are types
  ReturnTypes,   \* of the function that is being compiled
  Allowed,       \* cases that are known to be emitted wrongly and are taken
                 \* nevertheless, see Barred
  MaxOperands,   \* bound: expressions on the stack
  MaxOperators   \* bound: operators in them

(* Declarations of variables, parameters and members name types that are    *)
(* complete (addDeclaration), and no struct names two members alike.        *)
ASSUME ExpressionsAssumption ==
  /\ \A t \in Variables : t \in Types /\ (IsCompleteObjectType(t) \/ IsFunctionType(t))
  /\ \A t \in SizeofTypes : t \in Types /\ IsCompleteObjectType(t)
  /\ \A t \in ReturnTypes : t \in Types /\ ~IsFunctionType(t)
  /\ \A tag \in DOMAIN Members :
       /\ Members[tag] \in Seq([name : STRING, type : Types])
       /\ \A k \in DOMAIN Members[tag] : IsCompleteObjectType(Members[tag][k].type)
       /\ \A j, k \in DOMAIN Members[tag] :
            Members[tag][j].name = Members[tag][k].name => j = k

VARIABLES
  stack,       \* expressions built and not used yet
  operators,   \* number of operators used
  member,      \* history: index of the member named last, and its GEP index
  statement    \* what the last statement made of its expression, until the next

vars == <<stack, operators, member, statement>>

(* An expression: its type, whether it may be an lvalue, what parents look *)
(* for with a dynamic_cast (with the value of its operand), and the types  *)
(* of its value and its address.  No parent looks for the form "computed"; *)
(* it says which lvalues cannot be assigned to.                            *)
Expression(type, lvalue, form, inner, rv, lv) ==
  [type |-> type, lvalue |-> lvalue, form |-> form, inner |-> inner,
   rv |-> rv, lv |-> lv]

Result(type, rv) == Expression(type, FALSE, "other", NoCode, rv, NoCode)

-----------------------------------------------------------------------------
(* Leaves. *)
VariableUsage(type) ==
  LET address == Ptr(LlvmType(type)) IN
  Expression(type, TRUE, "variable", NoCode,
             IF IsFunctionType(type) THEN address ELSE Load(address), address)

Literal == Expression(ArrayOf(CharDeclaration), FALSE, "literal", NoCode, Ptr(I8), Ptr(I8))

CharConstant == Result(IntDeclaration, I8)
IntConstant  == Result(IntDeclaration, I32)
NullConstant(type) ==
  Expression(type, FALSE, "constant", NoCode, AllocNullptr(LlvmType(type)), NoCode)

SizeOfType(type) == Result(IntDeclaration, SizeOf(LlvmType(type)))

Leaves == {VariableUsage(t) : t \in Variables}
            \union {Literal, CharConstant, IntConstant, NullConstant(NullDeclaration)}
            \union {SizeOfType(t) : t \in SizeofTypes}

IsNullPtrConstant(e) == e.form = "constant" /\ e.type.kind = "null"

-----------------------------------------------------------------------------
(* Mutant: any pointer may be assigned to any other. *)
ValidAssignment_AnyPointer(lhs, rhs) ==
  \/ CompareTypes(lhs, rhs.type)
  \/ IsArithmeticType(lhs) /\ IsArithmeticType(rhs.type)
  \/ /\ IsPointer(lhs)
     /\ \/ IsNullPtrConstant(rhs) \/ IsPointer(rhs.type)
        \/ IsFunctionType(rhs.type) /\ CompareTypes(lhs, PointerTo(rhs.type))

(* validAssignment, for assignments, arguments and return values. *)
ValidAssignment(lhs, rhs) ==
  \/ CompareTypes(lhs, rhs.type)
  \/ /\ IsArithmeticType(lhs) /\ IsArithmeticType(rhs.type)
     /\ LET converted == ApplyUsualConversions(lhs, rhs.type)
        IN  CompareTypes(converted[1], converted[2])
  \/ /\ IsPointer(lhs)
     /\ \/ IsNullPtrConstant(rhs)
        \/ IsPointerToVoid(rhs.type)
        \/ IsFunctionType(rhs.type) /\ CompareTypes(lhs, PointerTo(rhs.type))
        \/ IsPointerToVoid(lhs) /\ IsPointer(rhs.type)

(* A null pointer constant takes the type of the pointer it meets. *)
Retyped(lhs, rhs) ==
  IF IsPointer(lhs) /\ IsNullPtrConstant(rhs) THEN NullConstant(lhs) ELSE rhs

-----------------------------------------------------------------------------
(* Binary operators: which operands they take, and the expression.         *)
ArrayAccessAccepts(l, r) ==
  \/ IsPointer(l.type) /\ IsIntegerType(r.type)
  \/ ~IsPointer(l.type) /\ IsPointer(r.type) /\ IsIntegerType(l.type)

(* Elements are reached through the address of the pointer, by a load: an  *)
(* element of something that is no lvalue, or that is itself such an       *)
(* element, (p + 1)[2] for one, is an lvalue nevertheless.                 *)
Computed(l) == ~l.lvalue \/ l.form = "computed"

ArrayAccess(l, r) ==
  Expression(IF IsPointer(l.type) THEN l.type.to ELSE r.type.to, TRUE,
             IF Computed(l) THEN "computed" ELSE "other", NoCode,
             IF IsIntegerType(r.type) THEN CreateArrayAccess(l.rv, r.rv)
                                      ELSE CreateArrayAccess(r.lv, l.rv),
             GetArrayPosition(l.lv, r.rv))

Times(l, r) == Result(IntDeclaration, CreateArithmetic(l.rv, r.rv))
BothArithmetic(l, r) == IsArithmeticType(l.type) /\ IsArithmeticType(r.type)

PlusAccepts(l, r) ==
  \/ BothArithmetic(l, r)
  \/ IsIntegerType(l.type) /\ IsPointer(r.type)
  \/ IsIntegerType(r.type) /\ IsPointer(l.type)

Plus(l, r) ==
  IF IsPointer(l.type) THEN Result(l.type, CreatePAdd(l.rv, r.rv))
  ELSE IF IsPointer(r.type) THEN Result(r.type, CreatePAdd(r.rv, l.rv))
  ELSE Result(IntDeclaration, CreateArithmetic(l.rv, r.rv))

MinusAccepts(l, r) ==
  \/ BothArithmetic(l, r)
  \/ /\ IsPointer(l.type) /\ IsCompleteObjectType(l.type.to)
     /\ \/ IsIntegerType(r.type)
        \/ IsPointer(r.type) /\ CompareTypes(l.type.to, r.type.to)

Minus(l, r) ==
  IF ~IsPointer(l.type)
  THEN Result(ApplyUsualConversions(l.type, r.type)[1], CreateArithmetic(l.rv, r.rv))
  ELSE IF IsPointer(r.type) THEN Result(IntDeclaration, CreatePPMinus(l.rv, r.rv))
  ELSE Result(l.type, CreatePAdd(l.rv, r.rv))

LessAccepts(l, r) ==
  \/ BothArithmetic(l, r)
  \/ /\ IsPointer(l.type) /\ IsPointer(r.type)
     /\ IsObjectType(l.type.to) /\ IsObjectType(r.type.to)
     /\ CompareTypes(l.type.to, r.type.to)

EqualAccepts(l, r) ==
  \/ BothArithmetic(l, r)
  \/ /\ IsPointer(l.type) /\ IsPointer(r.type)
     /\ \/ IsObjectType(l.type.to) /\ r.type.to.kind = "void"
        \/ IsObjectType(r.type.to) /\ l.type.to.kind = "void"
        \/ CompareTypes(l.type.to, r.type.to)
  \/ IsPointer(l.type) /\ IsNullPtrConstant(r)
  \/ IsPointer(r.type) /\ IsNullPtrConstant(l)

Comparison(l, r) ==
  Result(IntDeclaration,
         CreateComparison(Retyped(r.type, l).rv, Retyped(l.type, r).rv))

LogicalAccepts(l, r) == IsScalarType(l.type) /\ IsScalarType(r.type)
Logical(l, r) == Result(IntDeclaration, CreateLogical(l.rv, r.rv))

AssignAccepts(l, r) == l.lvalue /\ ValidAssignment(l.type, r)
Assign(l, r) ==
  Result(l.type, CreateAssign(l.lv, Retyped(l.type, r).rv, LlvmType(l.type)))

BinaryAccepts(op, l, r) ==
  CASE op = "[]" -> ArrayAccessAccepts(l, r)
    [] op = "*"  -> BothArithmetic(l, r)
    [] op = "+"  -> PlusAccepts(l, r)
    [] op = "-"  -> MinusAccepts(l, r)
    [] op = "<"  -> LessAccepts(l, r)
    [] op = "==" -> EqualAccepts(l, r)
    [] op = "&&" -> LogicalAccepts(l, r)
    [] op = "="  -> AssignAccepts(l, r)

Binary(op, l, r) ==
  CASE op = "[]" -> ArrayAccess(l, r)
    [] op = "*"  -> Times(l, r)
    [] op = "+"  -> Plus(l, r)
    [] op = "-"  -> Minus(l, r)
    [] op \in {"<", "=="} -> Comparison(l, r)
    [] op = "&&" -> Logical(l, r)
    [] op = "="  -> Assign(l, r)

BinaryOperators == {"[]", "*", "+", "-", "<", "==", "&&", "="}

-----------------------------------------------------------------------------
(* The index of a member: the first that has its name or its type, counted *)
(* from 1 here.                                                            *)
ComputeIndex(members, k) ==
  LET hits == {i \in DOMAIN members :
                 \/ members[i].name = members[k].name
                 \/ CompareTypes(members[i].type, members[k].type)}
  IN  CHOOSE i \in hits : \A j \in hits : i <= j

(* l.m and p->m, for the k-th member. *)
MembersOf(type) == IF type.kind = "struct" /\ type.tag \in DOMAIN Members
                   THEN Members[type.tag] ELSE <<>>

Member(l, address, lvalue, members, k) ==
  LET index == ComputeIndex(members, k) IN
  Expression(members[k].type, lvalue, "other", NoCode,
             CreateAccess(address, index), GetMemberAddress(address, index))

-----------------------------------------------------------------------------
(* Unary operators. *)
DereferenceAccepts(e) ==
  \/ IsPointer(e.type) /\ (IsCompleteObjectType(e.type.to) \/ IsFunctionType(e.type.to))
  \/ IsFunctionType(e.type)

(* Of *&x the two operators cancel; a function stays what it is. *)
Dereference(e) ==
  Expression(IF IsPointer(e.type) THEN e.type.to ELSE e.type,
             IsPointer(e.type) /\ IsCompleteObjectType(e.type.to), "*", e.rv,
             IF e.form = "&" THEN e.inner
             ELSE IF IsFunctionType(e.type) THEN e.rv ELSE Load(e.rv),
             e.rv)

AddressOfAccepts(e) ==
  (e.lvalue /\ IsObjectType(e.type)) \/ IsFunctionType(e.type) \/ e.form = "*"

AddressOf(e) ==
  Expression(PointerTo(e.type), FALSE, "&", e.rv,
             IF e.form = "*" THEN e.inner ELSE e.lv,
             IF IsFunctionType(e.type) THEN e.lv ELSE NoCode)

Negate(e)   == Result(PromoteType(e.type), CreateNegation(e.rv))
LogicalNot(e) == Result(IntDeclaration, CreateNegation(e.rv))
SizeOfExpression(e) ==
  Result(IntDeclaration, IF e.type.kind = "array" THEN I32 ELSE SizeOf(LlvmType(e.type)))

UnaryAccepts(op, e) ==
  CASE op = "*" -> DereferenceAccepts(e)
    [] op = "&" -> AddressOfAccepts(e)
    [] op = "-" -> IsArithmeticType(e.type)
    [] op = "!" -> IsScalarType(e.type)
    [] op = "sizeof" -> ~IsFunctionType(e.type)

Unary(op, e) ==
  CASE op = "*" -> Dereference(e)
    [] op = "&" -> AddressOf(e)
    [] op = "-" -> Negate(e)
    [] op = "!" -> LogicalNot(e)
    [] op = "sizeof" -> SizeOfExpression(e)

UnaryOperators == {"*", "&", "-", "!", "sizeof"}

-----------------------------------------------------------------------------
(* Function calls. *)
CalledType(f) == IF IsPointer(f.type) THEN f.type.to ELSE f.type

CallAccepts(f, args) ==
  /\ IsFunctionType(CalledType(f))
  /\ Len(CalledType(f).params) = Len(args)
  /\ \A k \in DOMAIN args : ValidAssignment(CalledType(f).params[k], args[k])

FunctionCall(f, args) ==
  LET type == CalledType(f)
      values == [k \in DOMAIN args |-> Retyped(type.params[k], args[k]).rv]
  IN  Result(type.returns,
             CreateFCall(IF IsPointer(f.type) THEN f.rv ELSE f.lv, values,
                         [k \in DOMAIN args |-> LlvmType(type.params[k])]))

(* The conditional operator, on its second and third operand. *)
TernaryAccepts(l, r) ==
  \/ BothArithmetic(l, r)
  \/ l.type.kind \in {"struct", "void"} /\ CompareTypes(l.type, r.type)
  \/ /\ IsPointer(l.type) /\ IsPointer(r.type)
     /\ \/ CompareTypes(l.type, r.type)
        \/ IsObjectType(l.type.to) /\ r.type.to.kind = "void"
        \/ IsObjectType(r.type.to) /\ l.type.to.kind = "void"
  \/ IsPointer(l.type) /\ IsNullPtrConstant(r)
  \/ IsPointer(r.type) /\ IsNullPtrConstant(l)

TernaryType(l, r) ==
  IF BothArithmetic(l, r) THEN ApplyUsualConversions(l.type, r.type)[1]
  ELSE IF ~IsPointer(l.type) /\ ~IsPointer(r.type) THEN l.type
  ELSE IF ~IsPointer(l.type) THEN r.type
  ELSE IF ~IsPointer(r.type) \/ CompareTypes(l.type, r.type) THEN l.type
  ELSE IF IsPointerToVoid(l.type) THEN l.type ELSE r.type

Ternary(l, r) ==
  LET type == TernaryType(l, r)
      t == LlvmType(type)
      Branch(v) == Convert(v, t)
  IN  IF type.kind = "void" THEN Result(type, NoValue)
      ELSE Expression(type, FALSE, "other", NoCode,
             MakePhi(Branch(Retyped(type, l).rv), Branch(Retyped(type, r).rv)),
             MakePhi(Branch(l.lv), Branch(r.lv)))

-----------------------------------------------------------------------------
(* Cases in which the code that is emitted is known to be wrong (README,   *)
(* section 4).  The state machine stays out of those not in Allowed.       *)
Barred(case, holds) == holds => case \in Allowed

Unsized(type) == IsPointer(type) /\ ~IsSized(LlvmType(type).to)

(* The value of p = q, for a void *p, is q: of another type than p. *)
Misled(e) == IsPtr(e.rv) /\ e.rv # LlvmType(e.type)

BinaryAllowed(op, l, r) ==
  /\ Barred("PointerAsTruthValue", op = "&&" /\ IsPtr(l.rv) /\ IsPtr(r.rv))
  /\ Barred("IncompletePointee", op \in {"+", "[]"} /\ (Unsized(l.type) \/ Unsized(r.type)))
  /\ Barred("VoidElement", op = "[]" /\ IsPointerToVoid(IF IsPointer(l.type) THEN l.type ELSE r.type))
  /\ Barred("SwappedSubscript", op = "[]" /\ ~IsPointer(l.type))
  /\ Barred("AssignToFunction", op = "=" /\ IsFunctionType(l.type))
  /\ Barred("ComputedAddress", op = "=" /\ l.lv = NoCode)
  /\ Barred("LoadedFunction", (op # "=" /\ l.rv = NoCode) \/ r.rv = NoCode)
  /\ Barred("AssignedToVoidPointer",
            \/ op \in {"+", "-", "[]"} /\ (Misled(l) \/ Misled(r))
            \/ op = "=" /\ Misled(r) /\ ~IsPointerToVoid(l.type))

UnaryAllowed(op, e) ==
  /\ Barred("PointerAsTruthValue", op = "!" /\ IsPtr(e.rv))
  /\ Barred("ComputedAddress", op = "&" /\ e.lv = NoCode /\ e.form # "*")
  /\ Barred("VoidElement", op = "sizeof" /\ e.type.kind = "void")
  /\ Barred("IncompletePointee", op = "sizeof" /\ IsIncompleteType(e.type))
  /\ Barred("LoadedFunction", op \notin {"&", "sizeof"} /\ e.rv = NoCode)

(* Of a value where one of this type is due. *)
ConversionAllowed(type, e) ==
  /\ Barred("ConvertedPointer", IsPtr(e.rv) /\ e.rv # LlvmType(type))
  /\ Barred("LoadedFunction", e.rv = NoCode)

-----------------------------------------------------------------------------
NoStatement == [value |-> VoidTy, expected |-> VoidTy]
NoMember    == [named |-> 0, index |-> 0]

Init == stack = <<>> /\ operators = 0 /\ member = NoMember /\ statement = NoStatement

Top(n) == SubSeq(stack, Len(stack) - n + 1, Len(stack))

PushLeaf ==
  /\ Len(stack) < MaxOperands /\ operators < MaxOperators
  /\ \E e \in Leaves : stack' = Append(stack, e)
  /\ statement' = NoStatement
  /\ UNCHANGED <<operators, member>>

(* The last n expressions become one. *)
Reduce(n, e) ==
  /\ stack' = Append(SubSeq(stack, 1, Len(stack) - n), e)
  /\ operators' = operators + 1
  /\ UNCHANGED statement

Ready(n) == Len(stack) >= n /\ operators < MaxOperators

ApplyUnary ==
  /\ Ready(1)
  /\ \E op \in UnaryOperators :
       LET e == Top(1)[1] IN
       /\ UnaryAccepts(op, e) /\ UnaryAllowed(op, e)
       /\ op = "&" => PointerTo(e.type) \in Types
       /\ Reduce(1, Unary(op, e))
  /\ UNCHANGED member

ApplyBinary ==
  /\ Ready(2)
  /\ \E op \in BinaryOperators :
       LET l == Top(2)[1]
           r == Top(2)[2]
       IN
       /\ BinaryAccepts(op, l, r) /\ BinaryAllowed(op, l, r)
       /\ Reduce(2, Binary(op, l, r))
  /\ UNCHANGED member

(* e.m if e is a struct, e->m if it points to one. *)
ApplyMember ==
  /\ Ready(1)
  /\ LET e == Top(1)[1]
         arrow == IsPointer(e.type)
         members == MembersOf(IF arrow THEN e.type.to ELSE e.type)
     IN
     /\ Barred("ComputedAddress", ~arrow /\ e.lv = NoCode)
     /\ \E k \in DOMAIN members :
          /\ Reduce(1, Member(e, IF arrow THEN e.rv ELSE e.lv, arrow \/ e.lvalue, members, k))
          /\ member' = [named |-> k, index |-> ComputeIndex(members, k)]

ApplyCall ==
  \E n \in 0 .. MaxOperands - 1 :
    /\ Ready(n + 1)
    /\ LET f == Top(n + 1)[1]
           args == Tail(Top(n + 1))
       IN
       /\ CallAccepts(f, args)
       /\ \A k \in DOMAIN args :
            LET p == CalledType(f).params[k] IN ConversionAllowed(p, Retyped(p, args[k]))
       /\ Reduce(n + 1, FunctionCall(f, args))
    /\ UNCHANGED member

ApplyTernary ==
  /\ Ready(3)
  /\ LET condition == Top(3)[1]
         l == Top(3)[2]
         r == Top(3)[3]
     IN
     /\ IsScalarType(condition.type) /\ Barred("LoadedFunction", condition.rv = NoCode)
     /\ TernaryAccepts(l, r)
     /\ LET type == TernaryType(l, r) IN
        /\ ConversionAllowed(type, Retyped(type, l))
        /\ ConversionAllowed(type, Retyped(type, r))
     /\ Reduce(3, Ternary(l, r))
  /\ UNCHANGED member

(* The statements that end with an expression. *)
Finish(value, expected) ==
  /\ stack' = <<>> /\ operators' = 0 /\ member' = NoMember
  /\ statement' = [value |-> value, expected |-> expected]

ReturnStatement ==
  /\ Len(stack) = 1
  /\ \E type \in ReturnTypes :
       LET e == Retyped(type, stack[1]) IN
       /\ ValidAssignment(type, stack[1])
       /\ Barred("LoadedFunction", e.rv = NoCode)
       /\ Finish(MakeReturn(e.rv, LlvmType(type)), LlvmType(type))

ExpressionStatement == Len(stack) = 1 /\ Finish(VoidTy, VoidTy)

ControllingExpression ==
  /\ Len(stack) = 1
  /\ IsScalarType(stack[1].type) /\ Barred("LoadedFunction", stack[1].rv = NoCode)
  /\ Finish(MakeConditionalBranch(stack[1].rv), I(1))

Next ==
  PushLeaf \/ ApplyUnary \/ ApplyBinary \/ ApplyMember \/ ApplyCall \/ ApplyTernary
    \/ ReturnStatement \/ ExpressionStatement \/ ControllingExpression

Spec == Init /\ [][Next]_vars

-----------------------------------------------------------------------------
(* Whatever the checks of ast.cc let pass is emitted without an operand    *)
(* that LLVM refuses, and the value has the type that the checks of the    *)
(* next operator go by: an integer of any width for an arithmetic type,    *)
(* any pointer for void*, otherwise exactly the type.                      *)
ValueHasItsType ==
  \A k \in DOMAIN stack :
    LET e == stack[k] IN
    CASE IsArithmeticType(e.type) -> e.rv \in {I8, I32}
      [] IsPointerToVoid(e.type)  -> IsPtr(e.rv)
      [] e.type.kind = "void"     -> e.rv = NoValue
      [] IsFunctionType(e.type)   -> e.rv \in {Ptr(LlvmType(e.type)), NoCode}
      [] OTHER                    -> e.rv = LlvmType(e.type)

(* Whatever the checks take for an lvalue has an address, and what is      *)
(* stored there has the type of the expression, through members, subscripts *)
(* and indirections (emit_lvalue).  The one exception is an element of a   *)
(* pointer that was computed, not stored: none of these has an address.    *)
AddressPointsToIt ==
  \A k \in DOMAIN stack :
    LET e == stack[k] IN
    e.lvalue => e.lv = IF e.form = "computed" THEN NoCode ELSE Ptr(LlvmType(e.type))

(* Types that compareTypes takes for equal are one LLVM type, on which     *)
(* every check that ends in compareTypes relies, and it does not matter    *)
(* which comes first.                                                      *)
EqualTypesEmitAlike ==
  \A j, k \in DOMAIN stack :
    LET s == stack[j].type
        t == stack[k].type
    IN  CompareTypes(s, t) => LlvmType(s) = LlvmType(t) /\ CompareTypes(t, s)

(* A returned value and a branch condition have the type LLVM asks for,    *)
(* after the conversions of makeReturn and makeConditonalBranch.           *)
StatementFits == statement.value = statement.expected

(* The member that is accessed is the one that was named (computeIndex).   *)
MemberIsTheOneNamed == member.index = member.named
=============================================================================
