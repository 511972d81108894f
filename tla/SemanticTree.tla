---------------------------- MODULE SemanticTree ----------------------------
(***************************************************************************)
(* The semantic tree of semantic.cc: scopes as nodes of a tree, with maps  *)
(* from identifiers, struct tags and functions to what they stand for.     *)
(* Leaving a scope only marks its node; entries of nodes that are no       *)
(* longer active are dropped when a stack is next looked at.               *)
(*                                                                         *)
(* The parser calls the tree in the order of the program text, which may   *)
(* be any nesting of blocks, loops, functions and structs; `open' is where *)
(* its recursion stands.  An error is an exception that ends everything.   *)
(***************************************************************************)
EXTENDS Integers, Sequences, FiniteSets, FiniteSetsExt

CONSTANTS
  Names,           \* identifiers of variables, functions and members
  Tags,            \* struct tags
  Labels,          \* label names
  Signatures,      \* function types; those in WithParameter have one
  WithParameter,
  None,            \* null pointer, missing entry
  DefineForward,   \* may a struct be defined in the scope of its forward
                   \* declaration?
  MaxNodes,        \* bound: nodes of the tree
  MaxDeclarations, \* bound: calls of addDeclaration
  MaxNesting       \* bound: constructs open at a time

ASSUME SemanticTreeAssumption ==
  /\ None \notin Names
  /\ WithParameter \subseteq Signatures
  /\ DefineForward \in BOOLEAN
  /\ {MaxDeclarations, MaxNesting} \subseteq Nat
  /\ MaxNodes \in Nat \ {0}   \* the root is there from the start

Root == 1

VARIABLES
  nodes,           \* the SemanticNodes, the root first
  currentPos,      \* the node declarations go to
  declarationMap,  \* name -> stack (first is top) of declarations with node
  structMap,       \* tag -> stack of nodes with their forward mark
  functionMap,     \* name -> first declaration and whether it is undefined yet
  currentFunction, \* declaration of the function whose body is parsed
  labelMap,        \* labels defined in the function
  gotoLabels,      \* labels of its gotos
  loopDepth,       \* loops around the parser's position
  declarations,    \* number of addDeclaration calls; names the objects made
  open,            \* history: constructs being parsed, innermost first
  refused          \* an exception has been thrown

tree  == <<nodes, currentPos>>
maps  == <<declarationMap, structMap, functionMap>>
labels == <<labelMap, gotoLabels>>
vars  == <<tree, maps, currentFunction, labels, loopDepth, declarations, open,
           refused>>

-----------------------------------------------------------------------------
(* Declarations.  An object is a SemanticDeclarationNode: `id' is its      *)
(* address.  A type is int, a struct or a pointer to one, by its node, or  *)
(* a function type.                                                        *)
IntType         == [kind |-> "int"]
FunctionType(s) == [kind |-> "function", signature |-> s]
StructType(kind, node) == [kind |-> kind, node |-> node]
Object(type)    == [id |-> declarations + 1, type |-> type]

NodeIndex == 1 .. MaxNodes
Types == {IntType} \union {FunctionType(s) : s \in Signatures}
           \union {StructType(k, n) : k \in {"struct", "pointer"}, n \in NodeIndex}
Objects == [id : 1 .. MaxDeclarations, type : Types]

ASSUME NullAssumption == /\ None \notin Objects /\ None \notin NodeIndex
                         /\ None \notin [decl : Objects, forward : BOOLEAN]

NewNode(parent, insideStruct, forward) ==
  [parent |-> parent, active |-> TRUE, insideStruct |-> insideStruct,
   forward |-> forward, decl |-> [n \in Names |-> None]]

Active(n) == n # None /\ nodes[n].active

(* Mutant: entries of scopes that were left stay. *)
Remaining_All(stack, live) == stack

(* The stack without the entries above the topmost live one. *)
Remaining(stack, live) ==
  LET kept == {k \in DOMAIN stack : stack[k] \in live} IN
  IF kept = {} THEN <<>> ELSE SubSeq(stack, Min(kept), Len(stack))

Declared(name) ==
  LET stack == declarationMap[name] IN
  Remaining(stack, {e \in {stack[k] : k \in DOMAIN stack} : Active(e.pos)})

(* A struct is visible as long as the scope around it is open. *)
Structs(tag) ==
  LET stack == structMap[tag] IN
  Remaining(stack, {e \in {stack[k] : k \in DOMAIN stack} :
                      Active(nodes[e.node].parent)})

Top(stack) == stack[1]
Push(entry, stack) == <<entry>> \o stack

-----------------------------------------------------------------------------
TypeOK ==
  /\ nodes \in Seq([parent : NodeIndex \union {None}, active : BOOLEAN,
                    insideStruct : BOOLEAN, forward : BOOLEAN,
                    decl : [Names -> Objects \union {None}]])
  /\ Len(nodes) \in NodeIndex
  /\ \A n \in DOMAIN nodes : n # Root => nodes[n].parent \in 1 .. n - 1
  /\ currentPos \in DOMAIN nodes
  /\ declarationMap \in [Names -> Seq([pos : DOMAIN nodes, decl : Objects])]
  /\ structMap \in [Tags -> Seq([node : DOMAIN nodes, forward : BOOLEAN])]
  /\ functionMap \in [Names -> [decl : Objects, forward : BOOLEAN] \union {None}]
  /\ currentFunction \in Objects \union {None}
  /\ labelMap \subseteq Labels /\ gotoLabels \subseteq Labels
  /\ declarations \in 0 .. MaxDeclarations
  /\ loopDepth = Cardinality({k \in DOMAIN open : open[k].kind = "loop"})
  /\ open \in Seq([kind : {"function", "block", "struct", "loop"},
                   node : DOMAIN nodes])
  /\ refused \in BOOLEAN

Init ==
  /\ nodes = <<NewNode(None, FALSE, FALSE)>>
  /\ currentPos = Root
  /\ declarationMap = [n \in Names |-> <<>>]
  /\ structMap = [t \in Tags |-> <<>>]
  /\ functionMap = [n \in Names |-> None]
  /\ currentFunction = None
  /\ labelMap = {} /\ gotoLabels = {} /\ loopDepth = 0
  /\ declarations = 0
  /\ open = <<>>
  /\ refused = FALSE

Innermost == IF open = <<>> THEN "file" ELSE Head(open).kind
InFunction == currentFunction # None
Parsing(places) == ~refused /\ Innermost \in places
Declarable == {"file", "function", "block", "struct"}

Opens(kind, node) ==
  /\ Len(open) < MaxNesting
  /\ open' = <<[kind |-> kind, node |-> node]>> \o open

Refuse ==
  /\ refused' = TRUE
  /\ UNCHANGED <<tree, maps, currentFunction, labels, loopDepth, declarations,
                 open>>

-----------------------------------------------------------------------------
(* addDeclaration.                                                         *)

(* Mutant: a function declared again is another object. *)
FunctionObject_New(name, type, isForward) ==
  LET known == functionMap[name] IN
  CASE known = None -> Object(type)
    [] known # None /\ known.decl.type = type /\ (known.forward \/ isForward) ->
         Object(type)
    [] OTHER -> None

(* The object of a function: the first one of that name in the file, or    *)
(* None if the types differ or it is defined twice.                         *)
FunctionObject(name, type, isForward) ==
  LET known == functionMap[name] IN
  CASE known = None -> Object(type)
    [] known # None /\ known.decl.type = type /\ (known.forward \/ isForward) ->
         known.decl
    [] OTHER -> None

EnterFunction(name, object, isForward) ==
  functionMap' = IF functionMap[name] = None \/ functionMap[name].forward
                   THEN [functionMap EXCEPT ![name] =
                           [decl |-> object, forward |-> isForward]]
                   ELSE functionMap

(* Mutant: a second declaration in the scope replaces the first. *)
ScopeObject_New(name, object) ==
  LET stack == Declared(name) IN
  CASE stack = <<>> -> object
    [] stack # <<>> /\ Top(stack).pos # currentPos -> object
    [] stack # <<>> /\ Top(stack).pos = currentPos
         /\ Top(stack).decl.type = object.type
         /\ (object.type.kind = "function" \/ currentPos = Root) -> object
    [] OTHER -> None

(* The object a name is bound to in the current scope: the one it has there *)
(* already, or None if it must not be declared again.                       *)
ScopeObject(name, object) ==
  LET stack == Declared(name) IN
  CASE stack = <<>> -> object
    [] stack # <<>> /\ Top(stack).pos # currentPos -> object
    [] stack # <<>> /\ Top(stack).pos = currentPos
         /\ Top(stack).decl.type = object.type
         /\ (object.type.kind = "function" \/ currentPos = Root) -> Top(stack).decl
    [] OTHER -> None

(* Bind name in the current node of `allNodes'. *)
BindName(name, object, allNodes) ==
  /\ declarationMap' = [declarationMap EXCEPT ![name] =
                          Push([pos |-> currentPos, decl |-> object], Declared(name))]
  /\ nodes' = [allNodes EXCEPT ![currentPos].decl[name] = object]

Declares == /\ declarations < MaxDeclarations
            /\ declarations' = declarations + 1

DeclareInt(name) ==
  LET object == ScopeObject(name, Object(IntType)) IN
  /\ Parsing(Declarable)
  /\ declarations < MaxDeclarations
  /\ \/ object = None /\ Refuse
     \/ /\ object # None
        /\ BindName(name, object, nodes)
        /\ Declares
        /\ UNCHANGED <<currentPos, structMap, functionMap, currentFunction,
                       labels, loopDepth, open, refused>>

(* Mutant: a struct may have itself as a member. *)
Incomplete_ForwardOnly(node) == node.forward

(* A struct that is being defined (`selfReferencing') or only declared. *)
Incomplete(node) == node.active \/ node.forward

(* struct tag name; or struct tag *name;  A tag that is not visible becomes *)
(* a forward declaration in the current scope: addChild and goUp.           *)
DeclareStruct(kind, name, tag) ==
  LET known  == Structs(tag)
      fresh  == [NewNode(currentPos, TRUE, TRUE) EXCEPT !.active = FALSE]
      stack  == IF known = <<>> THEN <<[node |-> Len(nodes) + 1, forward |-> TRUE]>>
                                ELSE known
      after  == IF known = <<>> THEN Append(nodes, fresh) ELSE nodes
      node   == Top(stack).node
      object == ScopeObject(name, Object(StructType(kind, node)))
  IN
  /\ Parsing(Declarable)
  /\ declarations < MaxDeclarations
  /\ Len(after) <= MaxNodes
  /\ \/ /\ \/ ~Active(after[node].parent)          \* createType finds nothing
           \/ kind = "struct" /\ Incomplete(after[node])
           \/ object = None
        /\ Refuse
     \/ /\ Active(after[node].parent)
        /\ kind = "struct" => ~Incomplete(after[node])
        /\ object # None
        /\ structMap' = [structMap EXCEPT ![tag] = stack]
        /\ BindName(name, object, after)
        /\ Declares
        /\ UNCHANGED <<currentPos, functionMap, currentFunction, labels,
                       loopDepth, open, refused>>

(* A prototype, at file scope or in a block. *)
DeclareFunction(name, signature) ==
  LET first  == FunctionObject(name, FunctionType(signature), TRUE)
      object == IF first = None THEN None ELSE ScopeObject(name, first)
  IN
  /\ Parsing(Declarable)
  /\ declarations < MaxDeclarations
  /\ \/ /\ nodes[currentPos].insideStruct \/ object = None
        /\ Refuse
     \/ /\ ~nodes[currentPos].insideStruct
        /\ object # None
        /\ EnterFunction(name, first, TRUE)
        /\ BindName(name, object, nodes)
        /\ Declares
        /\ UNCHANGED <<currentPos, structMap, currentFunction, labels,
                       loopDepth, open, refused>>

-----------------------------------------------------------------------------
(* Scopes.                                                                 *)

(* addChild for a compound statement: a new node under the current one. *)
Child(allNodes) ==
  Append(allNodes, NewNode(currentPos, allNodes[currentPos].insideStruct, FALSE))

(* The definition of a function up to the brace: its parameter is declared  *)
(* in the scope of the body.                                                *)
BeginFunction(name, signature, parameter) ==
  LET first  == FunctionObject(name, FunctionType(signature), FALSE)
      object == IF first = None THEN None ELSE ScopeObject(name, first)
      body   == Len(nodes) + 1
      named  == [declarationMap EXCEPT ![name] =
                   Push([pos |-> currentPos, decl |-> object], Declared(name))]
      value  == [id |-> declarations + 2, type |-> IntType]
      below  == IF parameter = name THEN named[name] ELSE Declared(parameter)
      inner  == Child([nodes EXCEPT ![currentPos].decl[name] = object])
      taken  == signature \in WithParameter
  IN
  /\ Parsing({"file"})
  /\ Len(nodes) < MaxNodes
  /\ declarations + 2 <= MaxDeclarations
  /\ taken \/ parameter = name   \* the parameter is not used then
  /\ \/ object = None /\ Refuse
     \/ /\ object # None
        /\ EnterFunction(name, first, FALSE)
        /\ currentFunction' = object
        /\ labelMap' = {} /\ gotoLabels' = {}
        /\ IF taken
             THEN /\ nodes' = [inner EXCEPT ![body].decl[parameter] = value]
                  /\ declarationMap' = [named EXCEPT ![parameter] =
                                          Push([pos |-> body, decl |-> value], below)]
                  /\ declarations' = declarations + 2
             ELSE /\ nodes' = inner
                  /\ declarationMap' = named
                  /\ declarations' = declarations + 1
        /\ currentPos' = body
        /\ Opens("function", body)
        /\ UNCHANGED <<structMap, loopDepth, refused>>

BeginBlock ==
  /\ Parsing({"function", "block", "loop"})
  /\ Len(nodes) < MaxNodes
  /\ nodes' = Child(nodes)
  /\ currentPos' = Len(nodes')
  /\ Opens("block", Len(nodes'))
  /\ UNCHANGED <<maps, currentFunction, labels, loopDepth, declarations, refused>>

(* Mutant: a second definition of a struct is taken for the first. *)
BeginStruct_Again(tag) ==
  LET stack  == Structs(tag)
      before == stack # <<>> /\ nodes[Top(stack).node].parent = currentPos
  IN
  /\ Parsing(Declarable)
  /\ Len(nodes) < MaxNodes
  /\ before => ~Top(stack).forward
  /\ IF before
       THEN /\ structMap' = [structMap EXCEPT ![tag] = stack]
            /\ nodes' = nodes
            /\ currentPos' = Top(stack).node
       ELSE /\ structMap' = [structMap EXCEPT ![tag] =
                               Push([node |-> Len(nodes) + 1, forward |-> FALSE], stack)]
            /\ nodes' = Append(nodes, NewNode(currentPos, TRUE, FALSE))
            /\ currentPos' = Len(nodes')
  /\ Opens("struct", currentPos')
  /\ UNCHANGED <<declarationMap, functionMap, currentFunction, labels, loopDepth,
                 declarations, refused>>

(* addChild with a tag.  The node of a forward declaration in this scope is *)
(* entered again: it stays inactive, and its mark in structMap stays.       *)
BeginStruct(tag) ==
  LET stack  == Structs(tag)
      before == stack # <<>> /\ nodes[Top(stack).node].parent = currentPos
  IN
  /\ Parsing(Declarable)
  /\ \/ before /\ ~Top(stack).forward /\ Refuse
     \/ /\ before /\ Top(stack).forward /\ DefineForward
        /\ structMap' = [structMap EXCEPT ![tag] = stack]
        /\ nodes' = [nodes EXCEPT ![Top(stack).node].forward = FALSE]
        /\ currentPos' = Top(stack).node
        /\ Opens("struct", currentPos')
        /\ UNCHANGED <<declarationMap, functionMap, currentFunction, labels,
                       loopDepth, declarations, refused>>
     \/ /\ ~before
        /\ Len(nodes) < MaxNodes
        /\ structMap' = [structMap EXCEPT ![tag] =
                           Push([node |-> Len(nodes) + 1, forward |-> FALSE], stack)]
        /\ nodes' = Append(nodes, NewNode(currentPos, TRUE, FALSE))
        /\ currentPos' = Len(nodes')
        /\ Opens("struct", currentPos')
        /\ UNCHANGED <<declarationMap, functionMap, currentFunction, labels,
                       loopDepth, declarations, refused>>

(* goUp at the brace that closes a block or a struct. *)
GoUp ==
  /\ nodes' = [nodes EXCEPT ![currentPos].active = FALSE]
  /\ currentPos' = nodes[currentPos].parent
  /\ open' = Tail(open)

EndScope ==
  /\ Parsing({"block", "struct"})
  /\ GoUp
  /\ UNCHANGED <<maps, currentFunction, labels, loopDepth, declarations, refused>>

(* The end of a function body: unsetCurrentFunction checks the gotos, and   *)
(* the node of the definition looks its own name up again.                  *)
EndFunction ==
  LET name  == CHOOSE n \in Names : /\ functionMap[n] # None
                                    /\ functionMap[n].decl = currentFunction
      stack == declarationMap[name]
      live  == {e \in {stack[k] : k \in DOMAIN stack} :
                  e.pos # currentPos /\ Active(e.pos)}
  IN
  /\ Parsing({"function"})
  /\ \/ ~(gotoLabels \subseteq labelMap) /\ Refuse
     \/ /\ gotoLabels \subseteq labelMap
        /\ GoUp
        /\ currentFunction' = None
        /\ declarationMap' = [declarationMap EXCEPT ![name] = Remaining(stack, live)]
        /\ UNCHANGED <<structMap, functionMap, labels, loopDepth, declarations,
                       refused>>

-----------------------------------------------------------------------------
(* Uses.                                                                   *)

(* lookUpType, from a VariableUsage. *)
LookUpType(name) ==
  /\ Parsing({"function", "block", "loop"})
  /\ \/ Declared(name) = <<>> /\ Refuse
     \/ /\ Declared(name) # <<>>
        /\ declarationMap' = [declarationMap EXCEPT ![name] = Declared(name)]
        /\ UNCHANGED <<tree, structMap, functionMap, currentFunction, labels,
                       loopDepth, declarations, open, refused>>

Statements == {"function", "block", "loop"}

AddLabel(l) ==
  /\ Parsing(Statements)
  /\ \/ l \in labelMap /\ Refuse
     \/ /\ l \notin labelMap
        /\ labelMap' = labelMap \union {l}
        /\ UNCHANGED <<tree, maps, currentFunction, gotoLabels, loopDepth,
                       declarations, open, refused>>

AddGotoLabel(l) ==
  /\ Parsing(Statements)
  /\ gotoLabels' = gotoLabels \union {l}
  /\ UNCHANGED <<tree, maps, currentFunction, labelMap, loopDepth, declarations,
                 open, refused>>

IncreaseLoopDepth ==
  /\ Parsing(Statements)
  /\ loopDepth' = loopDepth + 1
  /\ Opens("loop", currentPos)
  /\ UNCHANGED <<tree, maps, currentFunction, labels, declarations, refused>>

(* Mutant: the loop depth is not decreased behind a loop. *)
DecreaseLoopDepth_Not ==
  /\ Parsing({"loop"})
  /\ open' = Tail(open)
  /\ UNCHANGED <<tree, maps, currentFunction, labels, loopDepth, declarations,
                 refused>>

DecreaseLoopDepth ==
  /\ Parsing({"loop"})
  /\ loopDepth' = loopDepth - 1
  /\ open' = Tail(open)
  /\ UNCHANGED <<tree, maps, currentFunction, labels, declarations, refused>>

(* break or continue outside a loop; inside it changes nothing here. *)
JumpOutsideLoop ==
  /\ Parsing(Statements)
  /\ loopDepth = 0
  /\ Refuse

Next ==
  \/ \E name \in Names :
       \/ DeclareInt(name)
       \/ \E tag \in Tags : \E kind \in {"struct", "pointer"} :
            DeclareStruct(kind, name, tag)
       \/ \E s \in Signatures : DeclareFunction(name, s)
       \/ \E s \in Signatures, parameter \in Names : BeginFunction(name, s, parameter)
       \/ LookUpType(name)
  \/ \E tag \in Tags : BeginStruct(tag)
  \/ BeginBlock \/ EndScope \/ EndFunction
  \/ \E l \in Labels : AddLabel(l) \/ AddGotoLabel(l)
  \/ IncreaseLoopDepth \/ DecreaseLoopDepth \/ JumpOutsideLoop

Spec == Init /\ [][Next]_vars

-----------------------------------------------------------------------------
(* What the maps say of the open scopes.                                   *)
(* The nodes of the open scopes, outermost first: an inner one is younger. *)
OpenNodes == {Root} \union {open[k].node : k \in DOMAIN open}

ScopeNodes ==
  LET at == OpenNodes IN
  [d \in 1 .. Cardinality(at) |->
     CHOOSE p \in at : Cardinality({q \in at : q <= p}) = d]

Topmost(stack, S) == IF S = {} THEN None ELSE stack[Min(S)]

VarsOf(p) ==
  [n \in Names |->
     LET stack == declarationMap[n]
         here  == {k \in DOMAIN stack : stack[k].pos = p}
     IN  IF here = {} THEN None ELSE Topmost(stack, here).decl]

TagsOf(p) ==
  [t \in Tags |->
     LET stack == structMap[t]
         here  == {k \in DOMAIN stack : nodes[stack[k].node].parent = p}
     IN  IF here = {} THEN None ELSE Topmost(stack, here).node]

Scopes ==
  LET at == ScopeNodes IN
  [d \in DOMAIN at |-> [vars |-> VarsOf(at[d]), tags |-> TagsOf(at[d])]]

(***************************************************************************)
(* The tree implements C's scopes: dropping stale entries whenever a stack *)
(* happens to be looked at never drops, changes or uncovers a binding of a *)
(* scope that is still open (semantic.cc:151, :214, :285).                 *)
(***************************************************************************)
Lexical == INSTANCE LexicalScopes WITH scopes <- Scopes
ImplementsScopes == Lexical!Spec

(***************************************************************************)
(* A look-up finds the binding of the innermost open scope that has one,   *)
(* and nothing if there is none, although scopes that were left may still  *)
(* have entries in every stack (lookUpType, createType).                   *)
(***************************************************************************)
LookUpIsLexical ==
  LET all == Scopes IN
  /\ \A n \in Names :
       LET holders == {d \in DOMAIN all : all[d].vars[n] # None}
           found   == Declared(n)
       IN  IF holders = {} THEN found = <<>>
           ELSE found # <<>> /\ Top(found).decl = all[Max(holders)].vars[n]
  /\ \A t \in Tags :
       LET holders == {d \in DOMAIN all : all[d].tags[t] # None}
           found   == Structs(t)
       IN  IF holders = {} THEN found = <<>>
           ELSE found # <<>> /\ Top(found).node = all[Max(holders)].tags[t]

(***************************************************************************)
(* However often and wherever a function is declared, its name stands for  *)
(* one object: the code generator hangs the LLVM function on it            *)
(* (associatedValue) and a call through another object would find none.    *)
(***************************************************************************)
OneObjectPerFunction ==
  \A n \in Names : \A k \in DOMAIN declarationMap[n] :
    LET object == declarationMap[n][k].decl IN
    object.type.kind = "function" =>
      functionMap[n] # None /\ functionMap[n].decl = object

(***************************************************************************)
(* A scope that was left keeps the declarations it had: a struct type      *)
(* refers to its node and is laid out from it later (StructDeclaration::   *)
(* members).  Only a forward declaration may still be completed.           *)
(***************************************************************************)
ClosedScopesAreFinal ==
  [][\A k \in DOMAIN nodes :
       ~nodes[k].active /\ ~nodes[k].forward => nodes'[k].decl = nodes[k].decl]_vars

(***************************************************************************)
(* No struct contains itself, directly or through its members ("the struct *)
(* is referencing itself", semantic.cc:337, :371).                         *)
(***************************************************************************)
NoInfiniteStruct ==
  LET members(k) == {nodes[k].decl[n] : n \in {n \in Names : nodes[k].decl[n] # None}}
      contains(k) == {o.type.node : o \in {o \in members(k) : o.type.kind = "struct"}}
      structs == {k \in DOMAIN nodes : nodes[k].insideStruct}
  IN  \A S \in (SUBSET structs) \ {{}} : \E k \in S : contains(k) \cap S = {}
=============================================================================
