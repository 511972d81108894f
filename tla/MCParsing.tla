----------------------------- MODULE MCParsing -----------------------------
EXTENDS Parsing

Task(start, prefix, tokens, length, after) ==
  [start |-> start, prefix |-> prefix, tokens |-> tokens, length |-> length, after |-> after]

(* All operators in all pairs, and longer texts of some of them. *)
AllOperators  == BinaryOperators \union UnaryOperators
                   \union {"x", "(", ")", "[", "]", ",", ".", ":", "int"}
SomeOperators == {"x", "=", "?", ":", "||", "+", "*", "(", ")"}

SomeStatements == {"x", ";", ":", "if", "else", "(", ")"}
AllStatements ==
  SomeStatements \union {"?", "{", "}", "while", "do", "break", "return", "goto", "int"}

Declarators == {"x", "int", "*", "(", ")", ";"}
Parameters  == {"x", "int", "(", ")", ",", "{", "}", ";"}
Definitions == Declarators \union Parameters \union {"void"}

(* The beginnings of longer declarations. *)
ReturningPointer  == <<"int", "(", "*", "x", "(", "int", "x", ")", ")">>
FunctionParameter == <<"int", "x", "(", "int", "x", "(", "int", ")">>

MCTasks ==
  {Task("expression", <<>>, AllOperators, 5, 0),
   Task("expression", <<>>, SomeOperators, 7, 0),
   Task("expression", <<>>, SomeOperators, 6, 2),
   Task("statement", <<>>, AllStatements, 7, 0),
   Task("statement", <<>>, SomeStatements, 11, 0),
   Task("statement", <<>>, SomeStatements, 9, 1),
   Task("unit", <<>>, Declarators, 10, 0),
   Task("unit", <<>>, Parameters, 9, 1),
   Task("unit", <<>>, Definitions, 9, 0),
   Task("unit", ReturningPointer, Parameters, 15, 0),
   Task("unit", FunctionParameter, Parameters, 14, 0)}

NoMembers == [tag \in {} |-> <<>>]
=============================================================================
