------------------------------- MODULE Syntax -------------------------------
(***************************************************************************)
(* Texts as the parser gets them, and the syntax trees it makes of them.   *)
(* A token is its text, "x" is any identifier.  The types that a           *)
(* declaration names are those of SemanticTypes.                           *)
(***************************************************************************)
EXTENDS SemanticTypes, FiniteSets

VARIABLE text      \* the tokens of the file

Token(i) == IF i \in DOMAIN text THEN text[i] ELSE "END"

(* isBinaryOperator. *)
BinaryOperators == {"||", "==", "!=", "<", "&&", "+", "-", "*", "=", "?"}
UnaryOperators  == {"*", "-", "sizeof", "!", "&"}
TypeSpecifiers  == {"void", "int", "char"}

BasicType(i) == CASE Token(i) = "void" -> VoidDeclaration
                  [] Token(i) = "int"  -> IntDeclaration
                  [] Token(i) = "char" -> CharDeclaration

(* isValidType: no function returns a function. *)
RECURSIVE IsValidType(_)
IsValidType(d) ==
  CASE IsFunctionType(d) ->
         /\ \A k \in DOMAIN d.params : IsValidType(d.params[k])
         /\ ~IsFunctionType(d.returns) /\ IsValidType(d.returns)
    [] IsPointer(d) -> IsValidType(d.to)
    [] OTHER -> TRUE

Bad     == <<"bad">>          \* no tree
BadType == [kind |-> "bad"]   \* no type

-----------------------------------------------------------------------------
(* Expressions.  Parentheses leave no trace. *)
VariableUsage          == <<"variable">>
UnaryExpression(op, e) == <<"unary", op, e>>
BinaryExpression(op, l, r)  == <<"binary", op, l, r>>
TernaryExpression(c, l, r)  == <<"ternary", c, l, r>>
FunctionCall(f, arguments)  == <<"call", f, arguments>>
MemberAccess(e)             == <<"member", e>>
SizeOfExpression(type)      == <<"sizeof type", type>>

(* can_be_lvalue. *)
RECURSIVE CanBeLvalue(_)
CanBeLvalue(e) ==
  \/ e[1] = "variable"
  \/ e[1] = "unary" /\ e[2] = "*"
  \/ e[1] = "binary" /\ e[2] = "[]"
  \/ e[1] = "member" /\ CanBeLvalue(e[2])

(* The checks of the constructors that need no types. *)
Binary(op, l, r) ==
  IF op = "=" /\ ~CanBeLvalue(l) THEN Bad ELSE BinaryExpression(op, l, r)
Unary(op, e) ==
  IF op = "&" /\ ~CanBeLvalue(e) THEN Bad ELSE UnaryExpression(op, e)

-----------------------------------------------------------------------------
(* Statements, with <<>> for an expression or a part that is left out.     *)
CompoundStatement(items)      == <<"compound", items>>
ExpressionStatement(e)        == <<"expression", e>>
LabeledStatement(s)           == <<"label", s>>
SelectionStatement(e, s, t)   == <<"if", e, s, t>>
IterationStatement(kind, e, s) == <<kind, e, s>>
ReturnStatement(e)            == <<"return", e>>
JumpStatement(kind)           == <<kind>>
Declaration(type)             == <<"declaration", type>>
Nameless                      == <<"nameless">>
FunctionDefinition(type, body) == <<"function", type, body>>
=============================================================================
