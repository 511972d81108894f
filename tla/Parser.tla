------------------------------- MODULE Parser -------------------------------
(***************************************************************************)
(* The recursive descent of parser.cc.  A function of the parser is an     *)
(* operator from the index of `m_nextsym' to what it returns and the index *)
(* it leaves behind; `m_lookahead' is the token after.  An exception is a  *)
(* refusal at a token.  Struct specifiers are left out, as is what needs   *)
(* the types of expressions or the declarations in scope.                  *)
(***************************************************************************)
EXTENDS Grammar

CONSTANT Verbatim   \* whether trees keep declarators as they are written, or
                    \* only the types that they declare

Result(node, i) == [ok |-> TRUE, node |-> node, next |-> i]
Refusal(i)      == [ok |-> FALSE, node |-> Bad, next |-> i]

Then(result, Continue(_, _)) ==
  IF result.ok THEN Continue(result.node, result.next) ELSE result
Expect(token, i, result) == IF Token(i) = token THEN result ELSE Refusal(i)

(* What a constructor makes, unless its checks fail. *)
Made(node, last, i) == IF node = Bad THEN Refusal(last) ELSE Result(node, i)

-----------------------------------------------------------------------------
(* Declarators: pointers, and a direct declarator, which is a name or a    *)
(* declarator in parentheses, with the parameter lists behind it.          *)
None == <<"none">>
Declarator(pointers, direct) == <<"declarator", pointers, direct>>
DirectDeclarator(kind, inner, help) == <<kind, inner, help>>
Parameter(type, declarator) == <<type, declarator>>

AsWritten(node, type, d) == IF Verbatim THEN Append(node, Parameter(type, d)) ELSE node

PointersOf(d) == d[2]
Direct(d)     == d[3]
Inner(d)      == Direct(d)[2]
Help(d)       == Direct(d)[3]

(* Down to the first parameter list on the way to the name. *)
RECURSIVE Outermost(_)
Outermost(d) ==
  IF Direct(d) = None \/ Direct(d)[1] = "identifier" \/ Help(d) # <<>> THEN d
  ELSE Outermost(Inner(d))

(* Mutant: those in front of the first parenthesis only. *)
GetPointers_Own(d) == PointersOf(d)

RECURSIVE GetPointers(_)
GetPointers(d) ==
  PointersOf(d) + (IF d = Outermost(d) THEN 0 ELSE GetPointers(Inner(d)))

IsFunctionDeclarator(d) == Direct(Outermost(d)) # None /\ Help(Outermost(d)) # <<>>
GetNextParameter(d)     == Help(Outermost(d))[1][2]
GetNextDeclarator(d)    == Inner(Outermost(d))

RECURSIVE HasName(_)
HasName(d) ==
  /\ d # None /\ Direct(d) # None
  /\ Direct(d)[1] = "identifier" \/ HasName(Inner(d))

(* Nowhere a name with two lists: getNextParameter throws, so that the test *)
(* of addDeclaration, hasMoreThanOneParameterList, comes too late.         *)
RECURSIVE OneParameterListEach(_)
OneParameterListEach(d) ==
  LET o == Outermost(d) IN
  d # None /\ IsFunctionDeclarator(d) =>
    /\ Len(Help(o)) = 1
    /\ \A k \in DOMAIN GetNextParameter(d) : OneParameterListEach(GetNextParameter(d)[k][2])
    /\ OneParameterListEach(Inner(o))

IsVoid(p) == p[1] = VoidDeclaration /\ p[2] = None

(* canBeFunction and containsOnlyOneVoidIfSpecified, of a parameter list.  *)
CanBeFunction(help) ==
  /\ help[1] # "identifiers"
  /\ \/ Len(help[2]) = 1 /\ IsVoid(help[2][1])
     \/ \A k \in DOMAIN help[2] : HasName(help[2][k][2])
OnlyOneVoid(help) ==
  /\ help[1] # "identifiers"
  /\ Len(help[2]) = 1 \/ \A k \in DOMAIN help[2] : ~IsVoid(help[2][k])

RECURSIVE CanBeFunctionDefinition(_)
CanBeFunctionDefinition(d) ==
  /\ Direct(d) # None /\ Len(Help(d)) <= 1
  /\ Help(d) # <<>> => OnlyOneVoid(Help(d)[1])
  /\ IF Direct(d)[1] = "identifier" \/ Inner(d) = None
     THEN Help(d) # <<>> /\ CanBeFunction(Help(d)[1])
     ELSE CanBeFunctionDefinition(Inner(d))

RECURSIVE Pointers(_, _)
Pointers(n, type) == IF n = 0 THEN type ELSE PointerTo(Pointers(n - 1, type))

(* From the outermost list inwards: each makes a function of what stands   *)
(* around it.                                                              *)
RECURSIVE HelpConvert(_, _), ParameterTypes(_)
HelpConvert(type, d) ==
  IF d = None THEN type
  ELSE LET mine == Pointers(GetPointers(d), type) IN
       IF ~IsFunctionDeclarator(d) THEN mine
       ELSE HelpConvert(FunctionDeclaration(mine, ParameterTypes(GetNextParameter(d))),
                        GetNextDeclarator(d))
ParameterTypes(params) ==
  IF params = <<>> THEN <<>>
  ELSE <<HelpConvert(Head(params)[1], Head(params)[2])>> \o ParameterTypes(Tail(params))

(* addDeclaration of a declarator with a name, its checks of the type. *)
Legal(type) == IF IsValidType(type) /\ ~IsIncompleteType(type) THEN type ELSE BadType
AddDeclaration(type, d) ==
  IF OneParameterListEach(d) THEN Legal(HelpConvert(type, d)) ELSE BadType

(* The node of a type, unless the type is not legal. *)
Typed(type, Node(_), last, i) == IF type = BadType THEN Refusal(last) ELSE Result(Node(type), i)

Declared(type, d, i) ==
  IF ~HasName(d) THEN Result(AsWritten(Nameless, type, d), i + 1)
  ELSE Typed(AddDeclaration(type, d), LAMBDA t : AsWritten(Declaration(t), type, d), i, i + 1)

-----------------------------------------------------------------------------
(* declarator, directDeclarator, directDeclaratorHelp and the lists in it; *)
(* `abstract' is "not", "abstract" or "dontcare".                          *)
RECURSIVE ReadDeclarator(_, _), ReadDirect(_, _), ReadHelp(_, _), ParameterList(_, _),
          IdentifierList(_)

Stars(i) == CHOOSE n \in 0 .. Len(text) :
              Token(i + n) # "*" /\ \A k \in 0 .. n - 1 : Token(i + k) = "*"

ReadDeclarator(i, abstract) ==
  LET n == Stars(i) IN
  IF Token(i + n) \in {")", ","} THEN Result(Declarator(n, None), i + n)
  ELSE Then(ReadDirect(i + n, abstract), LAMBDA d, j : Result(Declarator(n, d), j))

(* The parameter lists that follow, if any. *)
WithHelp(i, abstract, kind, inner) ==
  IF Token(i) # "(" THEN Result(DirectDeclarator(kind, inner, <<>>), i)
  ELSE Then(ReadHelp(i, abstract),
            LAMBDA help, j : Result(DirectDeclarator(kind, inner, help), j))

ReadDirect(i, abstract) ==
  IF abstract # "abstract" /\ Token(i) = "x"
  THEN WithHelp(i + 1, "not", "identifier", None)
  ELSE IF Token(i) # "(" THEN Refusal(i)
  ELSE IF abstract # "not" /\ Token(i + 1) \in TypeSpecifiers
  THEN WithHelp(i, abstract, "nested", None)
  ELSE Then(ReadDeclarator(i + 1, abstract),
            LAMBDA d, j : Expect(")", j, WithHelp(j + 1, abstract, "nested", d)))

(* A list further to the right comes first. *)
ReadHelp(i, abstract) ==
  LET list == CASE Token(i + 1) = ")" -> Result(<<"empty", <<>>>>, i + 1)
                [] Token(i + 1) \in TypeSpecifiers -> ParameterList(i + 1, <<>>)
                [] Token(i + 1) = "x" /\ abstract # "abstract" -> IdentifierList(i + 1)
                [] OTHER -> Refusal(i + 1)
  IN  Then(list,
        LAMBDA help, j :
          Expect(")", j,
            IF Token(j + 1) # "(" THEN Result(<<help>>, j + 1)
            ELSE Then(ReadHelp(j + 1, abstract),
                      LAMBDA rest, k : Result(Append(rest, help), k))))

ParameterDeclaration(i) ==
  IF Token(i) \notin TypeSpecifiers THEN Refusal(i)
  ELSE IF Token(i + 1) \in {",", ")"} THEN Result(Parameter(BasicType(i), None), i + 1)
  ELSE Then(ReadDeclarator(i + 1, "dontcare"),
            LAMBDA d, j : Result(Parameter(BasicType(i), d), j))

ParameterList(i, read) ==
  Then(ParameterDeclaration(i),
       LAMBDA p, j : IF Token(j) = "," THEN ParameterList(j + 1, Append(read, p))
                     ELSE Result(<<"parameters", Append(read, p)>>, j))

IdentifierList(i) ==
  Expect("x", i, IF Token(i + 1) = "," THEN IdentifierList(i + 2)
                 ELSE Result(<<"identifiers", <<>>>>, i + 1))

(* typeName in the parentheses of sizeof. *)
SizeOfType(i) ==
  LET type == BasicType(i + 1)
      declarator == IF Token(i + 2) = ")" THEN Result(None, i + 2)
                    ELSE ReadDeclarator(i + 2, "abstract")
  IN  Then(declarator, LAMBDA d, j :
        Expect(")", j,
          IF ~OneParameterListEach(d) THEN Refusal(j)
          ELSE Result(AsWritten(SizeOfExpression(HelpConvert(type, d)), type, d), j + 1)))

-----------------------------------------------------------------------------
(* Expressions. *)
GetPrec(op) ==
  CASE op = "=" -> 1 [] op = "?" -> 2 [] op = "||" -> 3 [] op = "&&" -> 4
    [] op \in {"==", "!="} -> 8 [] op = "<" -> 9 [] op \in {"+", "-"} -> 11 [] op = "*" -> 12
UnaryPrec == 13

IsRightAssociative(op) == op \in {"=", "?"}

(* Mutant: every operator groups to the left. *)
PrecNext_Left(op) == GetPrec(op) + 1

(* The least precedence on the right of an operator. *)
PrecNext(op) == IF IsRightAssociative(op) THEN GetPrec(op) ELSE GetPrec(op) + 1

RECURSIVE Expression(_, _), Climb(_, _, _), ComputeAtom(_), PostfixExpression(_, _),
          Arguments(_, _)

Expression(i, minPrecedence) ==
  Then(ComputeAtom(i), LAMBDA e, j : Climb(e, j, minPrecedence))

Climb(e, i, minPrecedence) ==
  LET op == Token(i) IN
  IF op \notin BinaryOperators \/ GetPrec(op) < minPrecedence THEN Result(e, i)
  ELSE IF op = "?"
  THEN Then(Expression(i + 1, 1), LAMBDA ternaryHelper, j :
         Expect(":", j,
           Then(Expression(j + 1, 2), LAMBDA rhs, k :
             Climb(TernaryExpression(e, ternaryHelper, rhs), k, minPrecedence))))
  ELSE Then(Expression(i + 1, PrecNext(op)), LAMBDA rhs, j :
         Then(Made(Binary(op, e, rhs), i, j), LAMBDA b, k : Climb(b, k, minPrecedence)))

StartsSizeOfType(i) ==
  Token(i) = "sizeof" /\ Token(i + 1) = "(" /\ Token(i + 2) \in TypeSpecifiers

ComputeAtom(i) ==
  CASE Token(i) = "(" ->
         Then(Expression(i + 1, 0), LAMBDA e, j : Expect(")", j, PostfixExpression(e, j + 1)))
    [] Token(i) = "x" -> PostfixExpression(VariableUsage, i + 1)
    [] StartsSizeOfType(i) -> SizeOfType(i + 1)
    [] Token(i) \in UnaryOperators /\ ~StartsSizeOfType(i) ->
         Then(Expression(i + 1, UnaryPrec), LAMBDA e, j : Made(Unary(Token(i), e), i, j))
    [] OTHER -> Refusal(i)

PostfixExpression(e, i) ==
  CASE Token(i) = "(" ->
         Then(IF Token(i + 1) = ")" THEN Result(<<>>, i + 1) ELSE Arguments(i + 1, <<>>),
              LAMBDA arguments, j :
                Expect(")", j, PostfixExpression(FunctionCall(e, arguments), j + 1)))
    [] Token(i) = "[" ->
         Then(Expression(i + 1, 0), LAMBDA index, j :
           Expect("]", j, PostfixExpression(BinaryExpression("[]", e, index), j + 1)))
    [] Token(i) = "." ->
         Expect("x", i + 1, PostfixExpression(MemberAccess(e), i + 2))
    [] OTHER -> Result(e, i)

Arguments(i, read) ==
  Then(Expression(i, 0), LAMBDA e, j :
         IF Token(j) = "," THEN Arguments(j + 1, Append(read, e))
         ELSE Result(Append(read, e), j))

-----------------------------------------------------------------------------
(* Statements; `inLoop' is whether loopDepth is positive. *)
RECURSIVE Statement(_, _), BlockItemList(_, _, _)

LocalDeclaration(i) ==
  Then(ReadDeclarator(i + 1, "not"), LAMBDA d, j :
         Expect(";", j, Declared(BasicType(i), d, j)))

ReadCompound(i, inLoop) ==
  Then(BlockItemList(i + 1, inLoop, <<>>), LAMBDA items, j :
         Result(CompoundStatement(items), j + 1))

BlockItemList(i, inLoop, read) ==
  IF Token(i) = "}" THEN Result(read, i)
  ELSE Then(IF Token(i) \in TypeSpecifiers THEN LocalDeclaration(i) ELSE Statement(i, inLoop),
            LAMBDA item, j : BlockItemList(j, inLoop, Append(read, item)))

ReadExpressionStatement(i) ==
  IF Token(i) = ";" THEN Result(ExpressionStatement(<<>>), i + 1)
  ELSE Then(Expression(i, 0), LAMBDA e, j :
              Expect(";", j, Result(ExpressionStatement(e), j + 1)))

ReadLabeled(i, inLoop) ==
  Then(Statement(i + 2, inLoop), LAMBDA s, j : Result(LabeledStatement(s), j))

(* ( expression ) *)
Condition(i) ==
  Expect("(", i, Then(Expression(i + 1, 0), LAMBDA e, j : Expect(")", j, Result(e, j + 1))))

ReadIteration(i) ==
  IF Token(i) = "while"
  THEN Then(Condition(i + 1), LAMBDA e, j :
         Then(Statement(j, TRUE), LAMBDA s, k : Result(IterationStatement("while", e, s), k)))
  ELSE Then(Statement(i + 1, TRUE), LAMBDA s, j :
         Expect("while", j,
           Then(Condition(j + 1), LAMBDA e, k :
             Expect(";", k, Result(IterationStatement("do", e, s), k + 1)))))

ReadSelection(i, inLoop) ==
  Then(Condition(i + 1), LAMBDA e, j :
    Then(Statement(j, inLoop), LAMBDA s, k :
      IF Token(k) # "else" THEN Result(SelectionStatement(e, s, <<>>), k)
      ELSE Then(Statement(k + 1, inLoop), LAMBDA t, l :
             Result(SelectionStatement(e, s, t), l))))

ReadJump(i, inLoop) ==
  CASE Token(i) = "goto" -> Expect("x", i + 1, Expect(";", i + 2, Result(JumpStatement("goto"), i + 3)))
    [] Token(i) \in {"continue", "break"} ->
         IF inLoop THEN Expect(";", i + 1, Result(JumpStatement(Token(i)), i + 2)) ELSE Refusal(i)
    [] Token(i) = "return" ->
         IF Token(i + 1) = ";" THEN Result(ReturnStatement(<<>>), i + 2)
         ELSE Then(Expression(i + 1, 0), LAMBDA e, j :
                     Expect(";", j, Result(ReturnStatement(e), j + 1)))

Statement(i, inLoop) ==
  CASE Token(i) \in {"goto", "continue", "break", "return"} -> ReadJump(i, inLoop)
    [] Token(i) = "{"  -> ReadCompound(i, inLoop)
    [] Token(i) = "if" -> ReadSelection(i, inLoop)
    [] Token(i) \in {"while", "do"} -> ReadIteration(i)
    [] Token(i) = "x" /\ Token(i + 1) = ":" -> ReadLabeled(i, inLoop)
    [] OTHER -> ReadExpressionStatement(i)

-----------------------------------------------------------------------------
(* The file. *)
(* The parameters with a name are declared in the body, and become those   *)
(* of the function.                                                        *)
DeclaredTypes(params) ==
  LET named == SelectSeq(params, LAMBDA p : HasName(p[2]))
  IN  [k \in DOMAIN named |-> AddDeclaration(named[k][1], named[k][2])]

FunctionType(type, d) ==
  LET WithParameters(declared, params) ==
        IF declared = BadType \/ BadType \in {params[k] : k \in DOMAIN params} THEN BadType
        ELSE IF GetNextParameter(d) = <<>> THEN declared
        ELSE RebindParameters(declared, params)
  IN  WithParameters(AddDeclaration(type, d), DeclaredTypes(GetNextParameter(d)))

ReadFunctionDefinition(type, d, i) ==
  IF ~CanBeFunctionDefinition(d) THEN Refusal(i)
  ELSE Expect("{", i,
    Then(Typed(FunctionType(type, d), LAMBDA t : t, i, i), LAMBDA t, j :
      Then(ReadCompound(j, FALSE), LAMBDA body, k :
        Result(AsWritten(FunctionDefinition(t, body), type, d), k))))

ExternalDeclaration(i) ==
  IF Token(i) \notin TypeSpecifiers THEN Refusal(i)
  ELSE Then(ReadDeclarator(i + 1, "not"), LAMBDA d, j :
         IF Token(j) = ";" THEN Declared(BasicType(i), d, j)
         ELSE ReadFunctionDefinition(BasicType(i), d, j))

RECURSIVE TranslationUnit(_, _)
TranslationUnit(i, read) ==
  IF Token(i) = "END" /\ read # <<>> THEN Result(read, i)
  ELSE Then(ExternalDeclaration(i), LAMBDA e, j : TranslationUnit(j, Append(read, e)))

(* A whole file, or a part of one. *)
Parse(start) == CASE start = "expression" -> Expression(1, 0)
                  [] start = "statement"  -> Statement(1, FALSE)
                  [] start = "unit"       -> TranslationUnit(1, <<>>)
=============================================================================
