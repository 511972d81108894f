------------------------------ MODULE Printer ------------------------------
(***************************************************************************)
(* The pretty printer of pprinter.cc, from a tree that keeps its           *)
(* declarators to tokens; line breaks, and the global flags that put some  *)
(* of them off, are left out.                                              *)
(***************************************************************************)
EXTENDS Parser

Specifier(type) == CASE type = VoidDeclaration -> "void"
                     [] type = IntDeclaration  -> "int"
                     [] type = CharDeclaration -> "char"

In(open, tokens, close) == <<open>> \o tokens \o <<close>>
Parenthesized(tokens)   == In("(", tokens, ")")

Join(parts, separator) ==
  LET join[n \in 0 .. Len(parts)] ==
        IF n = 0 THEN <<>>
        ELSE join[n - 1] \o (IF n = 1 THEN <<>> ELSE separator) \o parts[n]
  IN  join[Len(parts)]

-----------------------------------------------------------------------------
(* Each pointer has parentheses of its own, and so has every function.     *)
RECURSIVE PrintDeclarator(_), PrintHelp(_), PrintWritten(_)

(* Mutant: the stars come first and have no parentheses. *)
Stars_Bare(n, direct) == [k \in 1 .. n |-> "*"] \o direct

RECURSIVE Starred(_, _)
Starred(n, direct) ==
  IF n = 0 THEN direct ELSE Parenthesized(<<"*">> \o Starred(n - 1, direct))

PrintDeclarator(d) ==
  LET helps == [k \in DOMAIN Help(d) |-> PrintHelp(Help(d)[Len(Help(d)) + 1 - k])]
      inner == IF Direct(d)[1] = "identifier" THEN <<"x">>
               ELSE IF Inner(d) = None THEN <<>> ELSE PrintDeclarator(Inner(d))
      direct == IF Direct(d) = None THEN <<>>
                ELSE IF helps = <<>> THEN inner ELSE Parenthesized(inner \o Join(helps, <<>>))
  IN  Starred(PointersOf(d), direct)

(* The names of an identifier list come in front of its parentheses, and   *)
(* may run together with another name there: this is no token.             *)
Names == "names"

PrintHelp(help) ==
  (IF help[1] = "identifiers" THEN <<Names>> ELSE <<>>)
    \o Parenthesized(Join([k \in DOMAIN help[2] |-> PrintWritten(help[2][k])], <<",">>))

(* A type specifier and the declarator behind it, if there is one. *)
PrintWritten(p) ==
  <<Specifier(p[1])>> \o (IF p[2] = None THEN <<>> ELSE PrintDeclarator(p[2]))

-----------------------------------------------------------------------------
RECURSIVE PrintExpression(_)
PrintExpression(e) ==
  CASE e[1] = "variable" -> <<"x">>
    [] e[1] = "unary" -> Parenthesized(<<e[2]>> \o PrintExpression(e[3]))
    [] e[1] = "binary" /\ e[2] = "[]" ->
         Parenthesized(PrintExpression(e[3]) \o In("[", PrintExpression(e[4]), "]"))
    [] e[1] = "binary" /\ e[2] # "[]" ->
         Parenthesized(PrintExpression(e[3]) \o <<e[2]>> \o PrintExpression(e[4]))
    [] e[1] = "member" -> Parenthesized(PrintExpression(e[2]) \o <<".", "x">>)
    [] e[1] = "ternary" ->
         Parenthesized(PrintExpression(e[2]) \o In("?", PrintExpression(e[3]), ":")
                         \o PrintExpression(e[4]))
    [] e[1] = "call" ->
         Parenthesized(PrintExpression(e[2]) \o
           Parenthesized(Join([k \in DOMAIN e[3] |-> PrintExpression(e[3][k])], <<",">>)))
    [] e[1] = "sizeof type" ->
         Parenthesized(<<"sizeof">> \o Parenthesized(PrintWritten(e[3])))

Optional(e) == IF e = <<>> THEN <<>> ELSE PrintExpression(e)

-----------------------------------------------------------------------------
RECURSIVE PrintStatement(_)
PrintStatement(s) ==
  CASE s[1] = "compound" ->
         In("{", Join([k \in DOMAIN s[2] |-> PrintStatement(s[2][k])], <<>>), "}")
    [] s[1] = "expression" -> Optional(s[2]) \o <<";">>
    [] s[1] = "return"     -> In("return", Optional(s[2]), ";")
    [] s[1] = "goto"       -> <<"goto", "x", ";">>
    [] s[1] \in {"break", "continue"} -> <<s[1], ";">>
    [] s[1] = "label"      -> <<"x", ":">> \o PrintStatement(s[2])
    [] s[1] = "if" ->
         <<"if">> \o Parenthesized(PrintExpression(s[2])) \o PrintStatement(s[3])
           \o (IF s[4] = <<>> THEN <<>> ELSE <<"else">> \o PrintStatement(s[4]))
    [] s[1] = "while" ->
         <<"while">> \o Parenthesized(PrintExpression(s[2])) \o PrintStatement(s[3])
    [] s[1] = "do" ->
         In("do", PrintStatement(s[3]), "while") \o Parenthesized(PrintExpression(s[2])) \o <<";">>
    [] s[1] = "nameless"    -> PrintWritten(s[2]) \o <<";">>
    [] s[1] = "declaration" -> PrintWritten(s[3]) \o <<";">>

PrintExternal(e) ==
  IF e[1] = "function" THEN PrintWritten(e[4]) \o PrintStatement(e[3]) ELSE PrintStatement(e)

PrintUnit(unit) == Join([k \in DOMAIN unit |-> PrintExternal(unit[k])], <<>>)
=============================================================================
