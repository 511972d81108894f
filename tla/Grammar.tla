------------------------------ MODULE Grammar ------------------------------
(***************************************************************************)
(* What the texts mean by the grammar of C: how operators group, which     *)
(* statement an `else' belongs to, which type a declarator declares.  Each *)
(* definition looks at a whole stretch of the text, text[lo .. hi], and    *)
(* finds its outermost construct; none of them reads from left to right.   *)
(***************************************************************************)
EXTENDS Syntax

First(S) == CHOOSE k \in S : \A j \in S : k <= j
Last(S)  == CHOOSE k \in S : \A j \in S : j <= k

Opening == {"(", "[", "?"}
Closing == {")", "]", ":"}

(* Brackets that are open in front of text[k], and the partner of one that *)
(* closes at hi; ? and : enclose the operand between them.                 *)
Level(lo, k) == Cardinality({j \in lo .. k - 1 : text[j] \in Opening})
                  - Cardinality({j \in lo .. k - 1 : text[j] \in Closing})
Opener(lo, hi) == Last({0} \union {j \in lo .. hi - 1 :
                                     text[j] \in Opening /\ Level(j, hi) = 1
                                       /\ \A k \in j + 1 .. hi : Level(j, k) >= 1})

(* The stretches between the commas outside all brackets. *)
Between(lo, hi) ==
  LET commas == {k \in lo .. hi : text[k] = "," /\ Level(lo, k) = 0}
      starts == {lo} \union {k + 1 : k \in commas}
      ends   == {k - 1 : k \in commas} \union {hi}
      nth(S, n) == CHOOSE k \in S : Cardinality({j \in S : j < k}) = n - 1
  IN  IF lo > hi THEN <<>>
      ELSE [n \in 1 .. Cardinality(starts) |-> <<nth(starts, n), nth(ends, n)>>]

-----------------------------------------------------------------------------
(* Declarators. *)
IsParameterList(o) ==
  Token(o + 1) \in TypeSpecifiers \union {")"} \/ Token(o - 1) \in {"x", ")"}

(* Parameters of function type are pointers, and (void) has none.          *)
FunctionReturning(type, params) ==
  FunctionDeclaration(type, [k \in DOMAIN params |->
    IF IsFunctionType(params[k]) THEN PointerTo(params[k]) ELSE params[k]])

RECURSIVE DeclaredType(_, _, _), ParameterTypesIn(_)
DeclaredType(lo, hi, base) ==
  LET o == Opener(lo, hi) IN
  CASE base = BadType \/ lo > hi -> base
    [] base # BadType /\ lo <= hi /\ text[lo] = "*" -> DeclaredType(lo + 1, hi, PointerTo(base))
    [] base # BadType /\ lo = hi /\ text[lo] = "x"  -> base
    [] base # BadType /\ lo < hi /\ text[lo] # "*" /\ text[hi] = ")" /\ o # 0 /\ text[o] = "(" ->
         IF IsParameterList(o) /\ (o > lo \/ Token(o + 1) \in TypeSpecifiers)
         THEN LET parts == Between(o + 1, hi - 1)
                  params == IF \A n \in DOMAIN parts : /\ parts[n][1] = parts[n][2]
                                                        /\ Token(parts[n][1]) = "x"
                            THEN <<>> ELSE ParameterTypesIn(parts)
              IN  DeclaredType(lo, o - 1,
                    IF BadType \in {params[n] : n \in DOMAIN params} THEN BadType
                    ELSE FunctionReturning(base, params))
         ELSE IF o = lo /\ lo + 1 < hi THEN DeclaredType(lo + 1, hi - 1, base)
         ELSE BadType
    [] OTHER -> BadType
ParameterTypesIn(parts) ==
  IF parts = <<>> THEN <<>>
  ELSE LET p == Head(parts) IN
       <<IF Token(p[1]) \in TypeSpecifiers THEN DeclaredType(p[1] + 1, p[2], BasicType(p[1]))
         ELSE BadType>> \o ParameterTypesIn(Tail(parts))

(* The name that text[lo .. hi] declares, 0 if there is none: the          *)
(* identifier outside all parameter lists.                                 *)
NameIn(lo, hi) ==
  LET names == {k \in lo .. hi : /\ text[k] = "x"
                                 /\ \A o \in lo .. k - 1 :
                                      (text[o] = "(" /\ Level(o, k) >= 1) => ~IsParameterList(o)}
  IN  IF names = {} THEN 0 ELSE First(names)

DeclarationIn(lo, hi) ==
  LET type == IF Token(lo) \in TypeSpecifiers
              THEN DeclaredType(lo + 1, hi - 1, BasicType(lo)) ELSE BadType
  IN  IF /\ Token(hi) = ";" /\ type # BadType /\ NameIn(lo + 1, hi - 1) # 0
         /\ type.kind # "void" /\ IsValidType(type)
      THEN {Declaration(type)} ELSE {}

-----------------------------------------------------------------------------
(* Expressions: the weakest operator outside all brackets splits one; the  *)
(* first of its kind if it groups to the right, the last if to the left.   *)
Weakest == <<{"||"}, {"&&"}, {"==", "!="}, {"<"}, {"+", "-"}, {"*"}>>

RECURSIVE Grouped(_, _)
Grouped(lo, hi) ==
  LET At(S) == {k \in lo + 1 .. hi - 1 :
                  text[k] \in S /\ text[k - 1] \in {"x", ")", "]"} /\ Level(lo, k) = 0}
      Two(op, l, r)   == IF l = Bad \/ r = Bad THEN Bad ELSE Binary(op, l, r)
      weakest == {n \in DOMAIN Weakest : At(Weakest[n]) # {}}
      q == First(At({"?"}))
      colons == {k \in q + 1 .. hi : text[k] = ":" /\ Level(q, k) = 1}
      o == Opener(lo, hi)
  IN
  IF lo > hi THEN Bad
  ELSE IF At({"="}) # {}
  THEN LET k == First(At({"="})) IN Two("=", Grouped(lo, k - 1), Grouped(k + 1, hi))
  ELSE IF At({"?"}) # {}
  THEN IF colons = {} THEN Bad
       ELSE LET c == Grouped(lo, q - 1)
                l == Grouped(q + 1, First(colons) - 1)
                r == Grouped(First(colons) + 1, hi)
            IN  IF Bad \in {c, l, r} THEN Bad ELSE TernaryExpression(c, l, r)
  ELSE IF weakest # {}
  THEN LET k == Last(At(Weakest[First(weakest)]))
       IN  Two(text[k], Grouped(lo, k - 1), Grouped(k + 1, hi))
  ELSE IF text[lo] = "sizeof" /\ Token(lo + 1) = "(" /\ Token(lo + 2) \in TypeSpecifiers
  THEN LET type == DeclaredType(lo + 3, hi - 1, BasicType(lo + 2))
       IN  IF Token(hi) # ")" \/ Opener(lo, hi) # lo + 1 \/ NameIn(lo + 3, hi - 1) # 0
              \/ type = BadType
           THEN Bad ELSE SizeOfExpression(type)
  ELSE IF text[lo] \in UnaryOperators
  THEN LET e == Grouped(lo + 1, hi) IN IF e = Bad THEN Bad ELSE Unary(text[lo], e)
  ELSE IF lo = hi THEN (IF text[lo] = "x" THEN VariableUsage ELSE Bad)
  ELSE IF text[hi] = "x" /\ text[hi - 1] = "."
  THEN LET e == Grouped(lo, hi - 2) IN IF e = Bad THEN Bad ELSE MemberAccess(e)
  ELSE IF text[hi] \notin {")", "]"} \/ o = 0 \/ text[o] \notin {"(", "["} THEN Bad
  ELSE IF (text[o] = "(") # (text[hi] = ")") THEN Bad
  ELSE IF o = lo THEN (IF text[o] = "(" THEN Grouped(lo + 1, hi - 1) ELSE Bad)
  ELSE IF text[o] = "[" THEN Two("[]", Grouped(lo, o - 1), Grouped(o + 1, hi - 1))
  ELSE LET f == Grouped(lo, o - 1)
           parts == Between(o + 1, hi - 1)
           arguments == [n \in DOMAIN parts |-> Grouped(parts[n][1], parts[n][2])]
       IN  IF f = Bad \/ \E n \in DOMAIN parts : arguments[n] = Bad THEN Bad
           ELSE FunctionCall(f, arguments)

-----------------------------------------------------------------------------
(* Statements: the set of trees, which has at most one.  What stands in    *)
(* front of an `else' does not end in an `if' without one.                 *)
RECURSIVE LacksElse(_)
LacksElse(s) ==
  CASE s[1] = "if"               -> s[4] = <<>> \/ LacksElse(s[4])
    [] s[1] = "while"            -> LacksElse(s[3])
    [] s[1] = "label"            -> LacksElse(s[2])
    [] OTHER                     -> FALSE

ExpressionIn(lo, hi) == {Grouped(lo, hi)} \ {Bad}

RECURSIVE StatementsIn(_, _, _), ItemsIn(_, _, _)
StatementsIn(lo, hi, inLoop) ==
  LET Is(i, token) == lo <= i /\ i <= hi /\ text[i] = token
      closed == {k \in lo + 2 .. hi : Is(lo + 1, "(") /\ text[k] = ")"}
      condition == [k \in closed |-> ExpressionIn(lo + 2, k - 1)]
  IN
  CASE lo > hi -> {}
    [] Is(lo, ";") -> IF lo = hi THEN {ExpressionStatement(<<>>)} ELSE {}
    [] Is(lo, "{") -> IF Is(hi, "}") THEN {CompoundStatement(s) : s \in ItemsIn(lo + 1, hi - 1, inLoop)}
                      ELSE {}
    [] Is(lo, "if") ->
         UNION {{SelectionStatement(e, s, <<>>) :
                   e \in condition[k], s \in StatementsIn(k + 1, hi, inLoop)} : k \in closed}
         \union
         UNION {{SelectionStatement(e, s, t) :
                   e \in condition[k],
                   s \in {r \in StatementsIn(k + 1, j - 1, inLoop) : ~LacksElse(r)},
                   t \in StatementsIn(j + 1, hi, inLoop)} :
                k \in closed, j \in {i \in lo .. hi : text[i] = "else"}}
    [] Is(lo, "while") ->
         UNION {{IterationStatement("while", e, s) :
                   e \in condition[k], s \in StatementsIn(k + 1, hi, TRUE)} : k \in closed}
    [] Is(lo, "do") ->
         UNION {{IterationStatement("do", e, s) :
                   e \in ExpressionIn(k + 2, hi - 2), s \in StatementsIn(lo + 1, k - 1, TRUE)} :
                k \in {i \in lo .. hi : Is(i, "while") /\ Is(i + 1, "(")
                                          /\ Is(hi - 1, ")") /\ Is(hi, ";")}}
    [] Is(lo, "return") ->
         IF ~Is(hi, ";") THEN {}
         ELSE IF hi = lo + 1 THEN {ReturnStatement(<<>>)}
         ELSE {ReturnStatement(e) : e \in ExpressionIn(lo + 1, hi - 1)}
    [] text[lo] \in {"break", "continue"} ->
         IF inLoop /\ hi = lo + 1 /\ Is(hi, ";") THEN {JumpStatement(text[lo])} ELSE {}
    [] Is(lo, "goto") ->
         IF hi = lo + 2 /\ Is(lo + 1, "x") /\ Is(hi, ";") THEN {JumpStatement("goto")} ELSE {}
    [] OTHER ->
         (IF Is(lo, "x") /\ Is(lo + 1, ":")
          THEN {LabeledStatement(s) : s \in StatementsIn(lo + 2, hi, inLoop)} ELSE {})
         \union
         (IF Is(hi, ";") THEN {ExpressionStatement(e) : e \in ExpressionIn(lo, hi - 1)} ELSE {})

(* A block is a declaration or statement after the other. *)
ItemsIn(lo, hi, inLoop) ==
  IF lo > hi THEN {<<>>}
  ELSE UNION {{<<item>> \o rest :
                 item \in DeclarationIn(lo, k) \union StatementsIn(lo, k, inLoop),
                 rest \in ItemsIn(k + 1, hi, inLoop)} : k \in lo .. hi}

-----------------------------------------------------------------------------
(* Function definitions: the innermost parameter list is that of the       *)
(* function, and its parameters need names and types of objects.           *)
OwnParameters(lo, hi) ==
  LET name == NameIn(lo, hi)
      o == First({k \in name + 1 .. hi + 1 : Token(k) # ")"})
      closers == {k \in o + 1 .. hi : text[k] = ")" /\ Opener(o, k) = o}
  IN  IF name # 0 /\ o < hi /\ text[o] = "(" /\ closers # {}
      THEN [found |-> TRUE, parts |-> Between(o + 1, First(closers) - 1)]
      ELSE [found |-> FALSE, parts |-> <<>>]

CanBeDefined(lo, hi) ==
  LET own == OwnParameters(lo, hi)
      p == own.parts
      Type(n) == DeclaredType(p[n][1] + 1, p[n][2], BasicType(p[n][1]))
  IN  /\ own.found
      /\ \/ Len(p) = 1 /\ p[1][1] = p[1][2] /\ Token(p[1][1]) = "void"
         \/ \A n \in DOMAIN p :
              /\ Token(p[n][1]) \in TypeSpecifiers
              /\ NameIn(p[n][1] + 1, p[n][2]) # 0
              /\ Type(n) # BadType /\ Type(n).kind # "void"

DefinitionIn(lo, hi) ==
  UNION {LET type == DeclaredType(lo + 1, k - 1, BasicType(lo)) IN
         IF /\ type # BadType /\ IsFunctionType(type) /\ IsValidType(type)
            /\ CanBeDefined(lo + 1, k - 1)
         THEN {FunctionDefinition(type, s) : s \in StatementsIn(k, hi, FALSE)} ELSE {} :
         k \in {i \in lo + 1 .. hi : Token(lo) \in TypeSpecifiers /\ text[i] = "{"}}

RECURSIVE UnitsIn(_, _)
UnitsIn(lo, hi) ==
  IF Token(hi) \notin {";", "}"} THEN {}
  ELSE UNION {{<<item>> \o rest :
                 item \in DeclarationIn(lo, k) \union DefinitionIn(lo, k),
                 rest \in IF k = hi THEN {<<>>} ELSE UnitsIn(k + 1, hi)} : k \in lo .. hi}
=============================================================================
