# Verification of the C4 compiler

C4 (`src/src/`) compiles a subset of C to LLVM IR and can optimise the result
with a pass of its own, sparse conditional constant propagation (SCCP). This
directory holds TLA+ models of the parts whose behaviour is hard to test, the
TLC configurations that check them and TLAPS proofs of the results that matter
most. Paths below are relative to `src/src/`.

## 1. The system

The program is single threaded. `main.cc` runs, for each file on the command
line, lexer -> parser (which fills the semantic tree and builds the syntax tree)
-> code generator -> LLVM `mem2reg` -> optionally SCCP -> `verifyModule` ->
output. What makes it hard is not concurrency but order: tables that are read
before they are complete, recursion that changes shared state, containers keyed
by pointers whose order differs from run to run, and use lists whose order is
an accident of construction.

| Component (files) | State it keeps | Operations | What makes it correct | Here |
|---|---|---|---|---|
| SCCP, analysis (`codegen/sccp_pass.*`) | constant table, block (reachability) table, work queue | `runOnFunction`, `getNextBlock`, one `visit...` per instruction kind, `checkedInsert` | tables ascend, claims are true of every run, the queue runs empty | `Sccp` and what composes it |
| SCCP, rewriting (same files) | the function itself, two pointer-keyed tables | `tearDownInsts`, `deleteDeadBlocks` | the function stays well formed in every order of processing | `SccpCleanup` |
| Code generator, control flow (`codegen/cogen.cc`, `codegen/ircreator.*`) | blocks, insertion point, break and continue points, label map, `associatedValue` of each declaration | `emitIR`, `emit_condition`, the ternary `emit_rvalue`, the block functions of `IRCreator` | every block closed once, jumps and phis fit | `CodeGenerator` |
| Code generator, values and types (same files) | none of its own | `emit_lvalue`, `emit_rvalue`, `convert`, `create...`, `makeReturn` | what the checks accept is emitted with operands LLVM takes | `ValueEmission`, `Expressions` |
| Semantic tree (`parser/semantic.*`, `utils/datastructures.h`) | scopes, struct, variable and function maps, labels, loop depth | `addChild`, `goUp`, `addDeclaration`, `lookUpType`, `addLabel`, `addGotoLabel`, ... | a name resolves to the declaration in scope, redefinitions are seen, a function is one object, no struct contains itself | `SemanticTree`, `LexicalScopes` |
| Declarations and type checks (`parser/ast.*`, `parser/semadecl.*`, `parser/semantic.cc`) | types attached to nodes | constructors, `compareTypes`, `validAssignment` | checks and types agree with each other and with the code emitted for them | `SemanticTypes`, `Expressions` |
| Parser (`parser/parser.*`, `parser/declaratorNode.h`) | two tokens of lookahead, the semantic tree | recursive descent, precedence climbing, conversion of declarators | it accepts the grammar, groups operators and reads declarators rightly | `Parser`, `Parsing` |
| Lexer (`lexer/*`) | one character of pushback, position, partial punctuator (static) | `FileTracker::advance/rewind`, `consume...`, `getNextToken` | maximal munch, positions, nothing lost, termination | `FileTracker`, `Lexer` |
| Driver, diagnostics (`main.cc`, `utils/diagnostic.*`) | error counters | options, loop over files, handler | the exit status tells of every file that was not read or compiled | `Driver` |
| Pretty printer (`parser/pprinter.*`) | indentation | one function per node | the text it prints is the program | `Printer`, `Parsing` |
| Utilities (`utils/*`), test runner (`runner.py`) | - | - | - | not modelled: no behaviour of their own |

Interactions: the parser calls the lexer on demand and the semantic tree as it
recognises declarations and scopes; the code generator walks the tree the parser
built, asks the semantic tree for types, and owns the `IRCreator`; SCCP takes
the functions the `IRCreator` finished and changes them in place.

Two facts cross a component border and are checked on both sides:

* SCCP ends only because no cycle of the graph it is given consists of undecided
  conditional branches alone (`sccp_pass.cc:617` queues both successors on every
  visit). `CodeGenerator!NoConditionalCycle` says the code generator never emits
  such a cycle, and the loop family that `Terminates` is checked for
  (`MCLoops`) is exactly the graphs without one.
* SCCP relies on phis that match the predecessors of their block:
  `PhiMatchesPredecessors` for those the code generator makes itself.

## 2. The modules

Optimiser:

* `LlvmIr` - an IR function as a value: blocks in layout order, instructions as
  records, successors, predecessors and uses, and what an operator computes at a
  width. External: LLVM, as `sccp_pass.cc` uses it.
* `ConstantLattice` - the flat lattice of `LatticeElem` with the join that
  `visitPHINode` computes and the order that `checkedInsert` asserts.
* `Sccp` - `runOnFunction` up to the empty queue. `GetNextBlock` is
  `getNextBlock`, which drops unreachable blocks from the queue; `Visit`
  is the handler of the next instruction of the current block with all it
  changes: both tables and the queue. Handlers enqueue in the order of LLVM's use
  lists; that order is any permutation. Where the code reads a
  `newInfo` it did not initialise (`and`/`or` with an unknown operand,
  unknown operators), the model picks any element of `GarbageStates` and
  `GarbageInts`. The function `fn` is chosen in `Init`, so one run covers a
  whole set of functions.
* `ConstantAnalysis` - the promise of the analysis, free of its order of work:
  a state is a reachability and a constant table, and any step may evaluate any
  instruction of a reachable block from the current tables. Quiescence requires
  that nothing evaluates to something new. `Sccp` implements it
  (`ImplementsAnalysis`) by the identity on both tables.
* `IrRun` - what a run of a function does: parallel phis, instructions,
  branches; results of loads and calls are arbitrary.
* `SccpRun`, `AnalysedRun` - analysis first, then a run of the same function, with
  `Sccp` and with `ConstantAnalysis` as the analysis. `ClaimsHold` and
  `WithinClaims` relate the two: a run never enters a block claimed unreachable
  nor computes a value other than the claimed one (`ClaimedValuesHold`), and for `Sccp`,
  which records decided branches as well, it never takes a branch the other way
  than it is folded (`FoldedBranchesHold`). `ClaimsHold` is both.
* `SccpCleanup` - `tearDownInsts` and `deleteDeadBlocks` on the result of `Sccp`.
  Both iterate over `unordered_map`/`map` keyed by pointers; `\E` over what
  is still to do stands for every order.
* `MCFunctions`, `MCDags`, `MCLoops` - the functions: C functions compiled by hand
  as `cogen.cc` and `mem2reg` leave them (the C text is beside each) and two families
  of graphs. `MCSccpLoops`, `MCSccpRun`, `MCSccpCleanup`,
  `MCAnalysedRun` give the constants their values.

Code generator:

* `CodeGenerator` - `emitIR`, `emit_condition` and `emit_rvalue` are mutually
  recursive; the calls still to be made form the variable `agenda`, so one
  step is one function up to its next recursive call. The syntax tree is not
  a parameter: where a statement or an expression is due, every form the parser
  accepts there may follow, and the behaviours are all translation units
  within `maxStatements` and `maxOperators`. A block keeps the list of all
  terminators it was ever given, so that a second one is seen. `loops`,
  `loopBlocks`, `jumps`, `placed` and `gotos` are history variables: they record what
  the source text says and no action depends on them except where the parser
  rejects a text (`break` outside a loop, a label defined twice, a `goto`
  without its label).
* `MCCodeGenerator` - the kinds of unit for the runs.

Expressions and their types:

* `SemanticTypes` - the types of `semadecl.cc` as values and the predicates of
  `semantic.cc`. A struct is its tag, the members are a constant.
* `TypeConversions` - `compareTypes` and the usual conversions, as functions on the set
  `Types` of the types there are. `Nesting` ranks it: what a type is made of has a
  smaller rank, which is why the recursion of the code ends.
* `ValueEmission` - the functions of `IRCreator` that make instructions, by the
  LLVM types of their operands: the value is its type. What LLVM asks of
  operands is external. `NoCode` is what an ill-typed operand or an internal error gives.
* `Expressions` - the parser builds expressions from their operands up, so the
  state is a stack of expressions, and an action applies an operator to the top of
  it: the check is that of the constructor in `ast.cc` (an exception is a
  step that is not taken), and the value and address are what `emit_rvalue` and
  `emit_lvalue` in `cogen.cc` make of them. Code is emitted later, but for a node
  it depends on the node and its operands alone, so it is worked out along with it.
  `Barred` names the cases that are known to be emitted wrongly (section 4);
  the constant `Allowed` lets them in.
* `MCExpressions` - the declarations in scope.

Lexer and driver:

* `FileTracker` - the character read, the rest of the file and the position, as a
  record; `Advance` and `Rewind` are functions of it.
* `Lexer` - `at` is the loop that `getNextToken` is in, and a step is one iteration
  of it. A text is a sequence of characters, all of ASCII but the vertical tab; of
  the keywords there are two, which only decides the type of a token.
* `Driver` - `main.cc` around the lexer: options, files that open or do not, the
  error counter of `diagnostic.cc`, the handler outside the loop. With
  `--tokenize` a file is read to its end; in the other modes the parser or what
  comes after it may throw at any token, which is left free.
* `Tokenization` - the reference: what a token, a comment and a blank text are, by
  looking at a whole stretch of the text at once.
* `MCDriver` - files and command lines.

Parser and pretty printer:

* `Syntax` - tokens and syntax trees. A token is its text; any identifier is "x".
* `Parser` - each function of `parser.cc` is an operator from the index of the next
  token to the tree, or the refusal, and the index it leaves behind; loops and
  recursion of the code are recursion here. Declarators are kept as the code
  keeps them and converted by `HelpConvert`. With `Verbatim` the tree keeps declarators
  for the printer, otherwise only the types that they declare.
* `Printer` - the tokens that `pprinter.cc` prints of a tree.
* `Grammar` - the reference: what a stretch of text means, found from its outermost
  construct, never from left to right. The grammar is ambiguous without precedence and
  the rule for `else`; both are stated as conditions on where a stretch may
  be divided.
* `Parsing` - a text grows by any token as long as the parser has refused none
  more than a given number of tokens ago, so refused texts are looked at, too.
* `MCParsing` - alphabets, lengths and beginnings of texts.

Semantic tree:

* `LexicalScopes` - the promise: a stack of scopes, each binding identifiers and
  struct tags. Only the innermost gains bindings, none changes or vanishes before
  its scope is left.
* `SemanticTree` - `semantic.cc`. The tree of nodes and the three maps are
  kept as in the code: leaving a scope only disables its node, and stale
  entries are dropped from a stack when it is next looked at. One action per call
  of the parser (a declaration, the start and end of a function, block, struct
  or loop, a use of a name, a label, a goto). The parser's recursion is the
  history variable `open`; which call comes next is free, as the program text
  is. An exception is the last step (`refused`). Objects are
  numbered by the call that made them, so that two objects of equal type
  differ. `Scopes` is the refinement mapping to `LexicalScopes`.
* `MCSemanticTree` - names, tags and their symmetry.

Proofs: `LatticeProofs`, `SccpProofs`, `SccpForwardProofs`, `AnalysedRunProofs`,
`CodeGeneratorProofs`, `ExpressionsProofs`, `SemanticTreeProofs`, `DriverProofs`; see section 5.

`PROJECT.json` maps every definition to the lines it models.

## 3. The runs

| Run | Question |
|---|---|
| `sccp_run` | Does the analysis claim no more and no less than the promise (`ImplementsAnalysis`), never skip a reachable block (`NoLostBlock`) or meet a phi without a value (`PhiHasValue`, the assertion at `sccp_pass.cc:546`), and are its claims true of every run, of blocks, of values and of the branches it folds (`ClaimsHold`)? For all acyclic functions of the family and for compiled C functions. |
| `sccp_loops` | With back edges, and on compiled C functions: do the tables only ascend (the assertion at `:39`), is every claim of reachability backed by a path, does the queue run empty? |
| `analysed_run` | Is the order-independent promise sound? (It is also proved.) |
| `sccp_cleanup` | In whichever order the pass erases, replaces, merges and deletes: is every operand of an instruction left defined (`NothingDangles`), are the users of an erased value themselves unknown (`UsersAreUnknown`), does no dead block remain, is the result a function the verifier accepts? |
| `codegen` | Are blocks closed exactly once, phis complete, labels and gotos matched, the label map local to the function, and is there no loop of conditional branches alone? |
| `semantic_tree` | Does dropping stale entries lazily amount to C's scopes (`ImplementsScopes`), does a look-up find the innermost open binding and nothing else, is a function one object however often it is declared, is a struct final once left, and none part of itself? |
| `expressions` | Does everything that the checks of `ast.cc` accept get code that LLVM takes, with a value of the checked type (`ValueHasItsType`), and what it takes for an lvalue an address of that type, except elements of a computed pointer, which never have one (`AddressPointsToIt`)? Do values fit where they are used in `return` and conditions (`StatementFits`)? Is `compareTypes` symmetric and as fine as the LLVM types (`EqualTypesEmitAlike`)? |
| `parsing` | Is what the parser reads what the grammar says, for expressions and statements (`ReadAsWritten`) and for declarators (`DeclaresAsWritten`), and nothing else accepted? Does the printed text read back as the same program (`PrintedReadsBack`)? |
| `driver` | Are tokens where their positions say, as long as possible, with nothing but blanks between them? Is only illegal text refused, does the program end, does its exit status tell of every file that could not be read or compiled, does nothing pass from one file to the next? |
| `sccp_later_iteration`, `codegen_jumps`, `expressions_member` | Disagreements, section 4. |

Bounds and why they are enough:

* Integers have 4 bits and characters 2 instead of 32 and 8. Wrap-around, sign and
  the zero/sign extension of a character all happen at this size; the code has no
  constant between the two widths.
* Families have four blocks: an entry, a return and two between them. That is
  enough for a diamond, a loop with a header and a latch, a block whose edges
  become reachable one after the other, and a phi that feeds a phi. `Canonical`
  drops only shapes that give the same function as another one. Larger shapes
  occur among the C functions (up to eleven blocks).
* `GarbageInts` {0, 1} is the value of a missing entry and another.
* Inputs {0, 1, 2}: false, true, and true with a loop that is entered twice.
* `codegen`: four statements with a label reach a goto before and after its label,
  in and around a loop or an `if`; three operators reach each operator in each operand of
  another. Both functions of a unit are compiled in one run, since break
  points, label map and block list outlive a function.
* `semantic_tree`: four nodes (the file and, for example, a struct, a function and
  a block), three constructs open at a time, three declarations of two names and
  two tags. This reaches shadowing, a scope entered after its sibling was left
  with entries behind, forward tags in inner scopes, a parameter with the name of
  its function, and a struct in a struct. Names and tags are interchangeable
  and taken up to symmetry; no property of the run is a liveness property.
  `DefineForward` is FALSE: no struct is defined in the scope in which its tag
  was declared forward; section 4 says what happens otherwise.
* `expressions`: three expressions on the stack and two operators (no operand is pushed that no operator could take) reach each
  operator on each result of each other one, with calls of two arguments and the
  conditional operator. The 14 declarations have each kind of type in each place
  that the checks tell apart: pointers to int, char, void, a pointer, a complete and an
  incomplete struct and a function, and functions with such parameters and results.
  Deeper nesting adds no type: results are of these types or pointers to them.
* `parsing`: expressions of five tokens over all operators (each pair of operators with
  a parenthesis or a unary operator), of seven over one operator per kind of
  precedence and associativity; statements of seven and eleven tokens (two `if` with
  one `else`, a label and a conditional operator); declarators of up to fifteen tokens
  (a function that returns a pointer to a function, parameters of function type).
  Texts go on behind a refused token by one or two tokens where lookahead matters.
* `driver`: all texts of up to five characters over alphabets for punctuators,
  comments, quoted text, words and line ends. The longest decision of the lexer
  looks at four characters (`%:%` and the next one). `MaxWord` is longer
  than any text and bounds only a loop that does not end. Command lines of up to three
  files, with an unknown option, a file that does not open and files whose
  reading fails early or late.

Deadlock is checked in the runs of `SccpRun` and `Sccp`. It is off where the modelled
activity really ends: a run of a function returns, the pass finishes, the
compiler has emitted both functions, the text is refused or at a bound; in `CodeGenerator` also
where a unit that the parser would reject (a goto whose label never comes) is
not finished.

Fairness: `Sccp` assumes weak fairness of the disjunction of its three actions.
The pass is one loop in one thread, so it takes its next step whenever there is
one; which of the permitted orders it takes is not constrained. `Driver` assumes weak
fairness of its next step for the same reason: one thread, and every
read returns. No other specification states fairness.

## 4. Where code and text disagree

Three have a run that ends in the violation:

* `sccp_later_iteration` (`ClaimedValuesHold`, `sccp_pass.cc:488`): for
  `while (n) { if (y) x = 5; y = 1; n = n - 1; } return x;` the pass claims that x
  stays 0. The phi behind the inner `if` was evaluated with a single reachable
  edge, against the comment "we can be sure that we have this value", and is
  not visited again when `x = 5` becomes reachable through an unconditional
  branch: `enqueueCFGSuccessors` pushes the blocks of the *users* of the
  branch, and a branch has none.
* `codegen_jumps` (`JumpsFollowTheLoop`, `cogen.cc:263`, `:287`): the break point of
  an outer loop is not restored after an inner one, a `do` loop sets it after its
  body, and `continue` in a `while` loop goes to the body and not to the condition.
* `expressions_member` (`MemberIsTheOneNamed`, `ircreator.cc:871`): of
  `struct { int a; int b; }` an access to `b` accesses `a`: the search for the
  index stops at the first member of the same type.

More of the same, each found by TLC when a run's cfg is given another value of a
constant (and the named invariant, where it is not there already).

In `SccpRun.cfg` and `SccpCleanup.cfg`, by `Functions`:

* `NoLostBlock` fails for `OnlyNestedIfInLoop` (the reason is that of
  `sccp_later_iteration`), `PhiHasValue` for `OnlyZeroDifference` (a result 0 is
  taken for the 0 of a missing entry, `sccp_pass.cc:303`), `NeverDescends` for
  `OnlyAndInLoop` (uninitialised `newInfo`, `:260`).
* `ClaimsHold` fails for `OnlyCountingLoop`, `i = 0; while (i < 2) i = i + 1;`, by
  `FoldedBranchesHold` alone: `visitBranchInst` records a decided branch and, when the
  condition becomes unknown on a later visit, enqueues both successors and leaves the
  record as it is (`:608`-`:619`). `tearDownInsts` folds it (`:767`), and the loop never
  ends. It fails for `OnlySetInLaterIteration` in the same way.
* `ClaimsHold` and `ImplementsAnalysis` fail for `OnlyNegativeChar`, `char c = 255; return c;`:
  constants narrower than `int` are read unsigned (`:689`).
* `ResultIsFunction` fails for `OnlyBreakWithResult`: folding `while (1)` does not
  remove the edge from the phis behind the loop (`:774`), and `verifyModule`
  rejects the module.
* `NoDeadBlockLeft` fails for `OnlyAndFalse` (a branch is not recorded when its
  successor was reachable before, `:603`) and `OnlyDeadLoopWithIf` (two blocks
  that wait for each other, `:808`), `NothingDangles` for `OnlyReturnsZero` (`:738`).

In `Codegen.cfg`, by `Extents`:

* `LabelsAreLocal` fails for `LabelLeakExtents`: a function that was declared
  earlier starts with the labels of the function before (`ircreator.cc:104`,
  against the comment "clear the label map" at `:88`).
* `GotoReachesLabel` fails for `InnerPrototypeExtents` (a prototype in a body
  clears the label map, `cogen.cc:64`).

In `SemanticTree.cfg`, with `DefineForward = TRUE`, that is with
`struct S *p; struct S { ... };` in one scope: `addChild` enters the node of the
forward declaration again without enabling it and leaves the mark in `structMap` set. Then
`ClosedScopesAreFinal` and `ImplementsScopes` fail (the struct may be defined
twice and its members accumulate, against "no redefinition of",
`semantic.cc:186`; a member may be declared twice), `LookUpIsLexical` fails inside the struct, and
`NoInfiniteStruct` fails (`struct S { struct S s; }` is accepted, against
"the struct is referencing itself", `:337`). `TypeOK` and
`OneObjectPerFunction` hold there too. A plain `struct S;` does not lead there:
the parser makes no declaration of it (`parser.cc:525`).

In `Expressions.cfg`, by `Allowed`; each of these cases alone makes `ValueHasItsType` fail:

* `PointerAsTruthValue`: `p && q` is a bitwise `and` of two pointers (`ircreator.cc:452`),
  and `!p` has the value of a pointer where an `int` is due.
* `IncompletePointee`, `VoidElement`: `+`, a subscript and `sizeof` accept
  pointers to incomplete types and to `void`, for which there is no size
  (`ast.cc:74`, `:159`).
* `SwappedSubscript`: `1[p]` takes the address of `p` for `p` (`cogen.cc:483`).
* `ComputedAddress`: the checks let expressions pass that have no address.
  `(p + 1)[2]` and `"abc"[1]`, elements of pointers that are stored nowhere, are lvalues to the
  checks, but `emit_lvalue` asks for the address of the pointer (`cogen.cc:532`) and
  throws INTERNAL ERROR (`:537`) or goes on with what is no address. So `(p + 1)[2] = 3` and
  `&(p + 1)[2]` end there, as do members of such elements, of `f()` and of a
  conditional expression. The elements themselves are in the run, since their values are
  right; they have the form "computed", and `AddressPointsToIt` says that they are the only
  lvalues without an address. Assigning to them, taking their address or a member is kept out.
* `LoadedFunction`: `*p` for a pointer to a function loads the function.
* `ConvertedPointer`: an argument or an arm of `?:` that is a pointer of another
  type goes through the conversion of integers (`ircreator.cc:884`).
* `AssignedToVoidPointer`: the value of `v = p`, for a `void *v`, is of the type of
  `p`, and arithmetic on it goes in steps of the other size (`ircreator.cc:519`).

The remaining case, `AssignToFunction` (`f = g` passes the check that both types
are equal), is kept out, too, but the property does not tell it from a call of `f`.

In `Parsing`, exempted by `ReadOtherwise`; each exemption is needed:

* `EmptyParentheses`: `int f(int ())` declares an `int`, not a function, since
  parentheses around nothing are read as a declarator.
* `NoName`: `int *;` is accepted.
* `ParenthesizedDefinition`: a definition of a function that returns a pointer to a
  function binds the parameters of the pointer's function, not its own
  (`parser.cc:217`), and `int (x)(int x) {}` is refused.
* `FunctionAmongParameters`: of several parameters one of function type does not become
  a pointer (`semadecl.cc:128` adjusts a single one only).

`PrintedReadsBack` exempts the first two and identifier lists: their names are printed
in front of the parentheses (`pprinter.cc:384`, `:509`).

In `MCDriver`, left out by `EndsInDigits`: on a file that ends in the digits of an escape
the loops at `lexer.cc:213` and `:239` do not notice the end of the file; `ProgramEnds`
fails. Three more oddities are modelled as they are, and no property is about them: a
keyword that ends the file is an identifier (the comment at `lexer.cc:320`, "there is no
single char keyword", overlooks that the whole word has been read there), `07` is two tokens, and
an octal escape has any number of digits.

The passing runs state what holds besides these: `CleanFunctions`,
`SoundExtents`, `DefineForward = FALSE`, `Allowed = {}`, `ReadOtherwise` and `EndsInDigits`
leave out the functions, units, expressions and texts above, nothing else.

## 5. What is proved

Everything below holds for all values of the constants: any set of functions,
units, files or names, any bounds. The assumptions are the named ones of the modules (positive
moduli, well-formed functions, integer inputs, command lines of the right form), which
TLC evaluates in the runs; what else a theorem presupposes is written in its
statement, and that it is not vacuous was checked with TLC.

### The optimiser (`SccpProofs`, `SccpForwardProofs`, `AnalysedRunProofs`)

For every IR function, both integer widths, every use-list order and every
content of the uninitialised element:

* `SccpProofs!TypeCorrect`: `Spec => []TypeOK`. The one interesting step is that
  handlers look up operands of any instruction, so tables must be total over
  the function's instructions, whichever block is visited.
* `SccpProofs!ReachabilityJustified`: `Spec => []ReachableOnPath`. The
  invariant is strengthened by the fact that a block is marked reachable only by a
  terminator of a reachable block; path closure then follows.
* `SccpProofs!NoDescent` and `EntriesAscend`: the assertion of
  `checkedInsert` never fires and no entry changes from one value to another,
  for functions whose operators are `+ - *` (`OnlyArithmetic`). Without this
  assumption both are false, see section 4. `NeverDescends` is not inductive: that the next element
  is not below the present one needs `Justified`, every entry is at most what
  its operands justify now, which is preserved because that
  justification is monotone in the operands (`LatticeProofs`).

Completeness is false in general (section 4: `NestedIfInLoop`, `SetInLaterIteration`), because
an unconditional branch puts nothing on the queue. It is proved where the layout saves
it. `IsForward` says of a function that no block or instruction is listed twice, that
branches and uses lead forward in the layout, and that comparisons are those `visitICmpInst`
knows. All acyclic functions of the family satisfy it; of compiled C
those without a loop and without a branch nested in a branch (the blocks of
nested `if`s are not laid out in the order of the flow).

* `SccpForwardProofs!NoBlockLost`: `Spec => []NoLostBlock` for these functions
  (`OnlyForward`). The invariant `ForwardInv` follows the first pass over the queue: at block p
  and line d of it, everything behind is *settled* (another visit would change
  nothing) and everything ahead is queued in the order of the layout. A visit changes only
  what is ahead, so what is settled stays so; once the pass is over, later
  entries of the queue change nothing.
* `SccpForwardProofs!ClaimsAreTrue`: no run of the program, with any input,
  contradicts what the optimiser deletes, replaces by and folds: `ClaimsHold` of the
  analysis composed with an execution (`SccpRun`). For branches the invariant has
  `BranchesAgree`: what is recorded of a branch is what its condition says now.
  In a forward function a branch is visited when its condition is settled already, and
  before that nothing is recorded of it (`Unclaimed`); section 4 shows
  what happens when the condition changes later. For blocks and values: if everything is
  settled, the tables cover the function in the sense of `ConstantAnalysis`, and
  `AnalysedRunProofs!RunStaysWithinClaims` is used through the refinement mapping. The
  functions are plain besides (`IsPlain`: constants fit `int`, nothing is
  truncated or widened from a character; elsewhere the pass computes in the wrong width).
* `SccpForwardProofs!PhisHaveValues`: the assertion of `visitPHINode` (`PhiHasValue`) holds if
  definitions also dominate their uses, which LLVM's verifier demands (`IsDominated`).
  The argument: every reachable block is *fed* by an edge of a reachable one;
  of the instructions before the visited one that have no value take the first;
  its operands have values, so it has one.
* `SccpForwardProofs!AnalysisIsImplemented`: for functions that are forward, dominated
  and plain, `Sccp` implements `ConstantAnalysis` (`ImplementsAnalysis`) step by step.
  The invariant adds that every reachable block is fed over an edge that the tables leave
  open (`OpenlyFed`) and that each visit records the transfer of its operands or
  top; the step that finds the queue empty maps to the one that demands `Covered`.
* `SccpForwardProofs!TearDownAssertionsHold` (`UsersAreUnknown`) and `TearDownLeavesNoUse`
  (`NothingDangles`): for forward and dominated functions the assertions of
  `tearDownInsts` (`sccp_pass.cc:742`-`:747`) hold and no instruction is erased that
  another one uses. The argument is that each visit leaves an entry with a value or top
  (`VisitReaches`, from the same fact about operands), so
  when the queue is empty no entry of the table is without value and `EraseUnknown` has nothing to
  do. `TearDownInv` carries that through the rewriting. TLC checks both properties
  on functions with loops and on `UnusedZero`, in which an entry does stay without value.

The theorems that presuppose dominance, and `ClaimsAreTrue`, suppose that no result 0 was
computed yet (`ZeroFree`): `visitBinaryOperator` cannot tell it from a missing entry
(`sccp_pass.cc:303`), and `OnlyZeroDifference` shows that `PhiHasValue` fails after one.
With TLC: all 1493 acyclic functions of the family are forward, dominated and plain, 1491 of
them have an operator, and `ZeroFree` is an invariant of all of them.

`AnalysedRunProofs!RunStaysWithinClaims` needs none of these conditions: whatever an
analysis does that keeps the promise of `ConstantAnalysis`, no run of the function contradicts
its claims. The inductive invariant ties the current block and the values
of the run to the tables at quiescence.

### The code generator (`CodeGeneratorProofs`)

For every translation unit, that is every order in which statements,
conditions and ternaries can nest, with any bounds:

* `GeneratorTypes`: `Spec => []TypeOK`, in every unit.
* `BlocksEndOnce`, `GotosReachLabels`, `LabelsStayLocal`, `PhisMatchPredecessors`,
  `NoConditionalCycles`: the properties of the same names, in units that use labels or
  declare functions ahead of their definition, but not both (`SoundUnit`; it holds
  of every unit of the runs). With both, a label may leak into another function or a
  prototype in a body clears the label map, and `LabelsAreLocal` and
  `GotoReachesLabel` fail (section 4).

`EveryBlockEndsOnce` speaks of finished functions and is far from inductive. `FitInv`
says that a block without an end is waited for by exactly one thing: it is the
current block, or one call on the agenda (those of the generator that are still to come)
opens it, or it is the block of a label that gotos have named and no statement has
placed. Once the agenda is empty, nothing is open. `PhiInv` adds that the predecessors
of a phi's block are those the phi lists and that nothing else can jump
there. `CondInv` adds that a pending condition branches to blocks that
are opened later, or behind a block from which no conditional branches lead back;
so every set of blocks that end in conditions has one that leads out of it.

### Types and expressions (`ExpressionsProofs`)

For any declarations, any set of types nested to any depth, any expressions and any stack
bound; the assumptions are `TypesAssumption` (what a type is made of is a type of smaller rank, no
parameter is `void`, no function returns one) and `ExpressionsAssumption`. All four suppose
`Allowed = {}`, as in the run: none of the cases of section 4 is let in.

* `CheckedValuesHaveTheirTypes` (`ValueHasItsType`): whatever sequence of operators the checks
  of `ast.cc` accept, the value that `cogen.cc` emits has the LLVM type of the type the
  check attached to the expression.
* `AddressesPointToObjects` (`AddressPointsToIt`): what the checks take for an lvalue has an
  address, and it points to the type of the expression, except for elements of a pointer
  that was computed, of which none has one (`ComputedAddress` in section 4).
* `EqualTypesAreOneType` (`EqualTypesEmitAlike`): `compareTypes` is symmetric, and types
  that it holds to be equal are one LLVM type.
* `StatementsFitTheirFunction` (`StatementFits`): `return` and controlling expressions.

The recursion over types is that of two recursive functions. That they exist (the
equation of the code has a solution on all of `Types`) is proved as well: `CompareDefined` and
`EmitDefined` take a type of least rank where it would fail. `Compared` and `EqualTypes` then
speak of one level of a type at a time.

`ValueHasItsType` alone is not inductive: `&e` and `*e` turn an address into a value
and back, so the invariant has to speak of both; an assignment needs that what may be
assigned to has an address unless it is an element of a computed pointer (`Placed`; these are
kept from assignments), a call that the callee's value is a pointer to the function that was
checked, and `p->m` that only pointers have pointees with members. `Sound` says this of
one expression, `StackSound` of all on the stack; TLC checked it as an invariant of the run before.
There is one lemma per operator: from `Sound` operands the check makes a `Sound`
result. The step of each action then only says where on the stack the result goes.

### The semantic tree (`SemanticTreeProofs`)

For every program text, any names and tags:

* `TreeTypes` (`TypeOK`) and `FunctionsAreOneObject` (`OneObjectPerFunction`), whatever the text.
  For the second every entry of every stack of declarations is shown to have the object that
  `functionMap` has (`AllSingle`).
* Provided no struct is defined in the scope of its forward declaration
  (`DefineForward = FALSE`, as in the run; section 4 has the failures):
  `LeftScopesKeepTheirNames` (`ClosedScopesAreFinal`), `NoStructContainsItself`
  (`NoInfiniteStruct`), `LookUpFindsInnermost` (`LookUpIsLexical`) and
  `TreeImplementsScopes` (`ImplementsScopes`, the refinement of `LexicalScopes`).

The maps are trimmed lazily: their stacks hold entries of scopes long left. `ScopeInv`
says that the active nodes are just those of the open scopes, inner ones being younger;
`BoundInv` that each stack is sorted by the open scopes, its stale entries included, so that dropping
disabled ones from the top yields the innermost binding. `StructInv` orders
structs by their end: a member's type was finished first, hence no cycle. The
refinement maps a step that keeps the scopes to `Bind` or a stutter, one that opens a scope to
`Enter` and one that closes one to `Leave`.

### The driver and the lexer (`DriverProofs`)

For every command line and all files, whatever is in them (`CharactersAssumption`: a
line feed is a character, and no character is one for "none read yet"):

* `ExitStatusIsRight`: `DriverSpec => []ExitStatusTellsFailure`. The
  inductive invariant says that there is an outcome for each file taken except the
  one being read, and that the error counter is 0 just as long as nothing failed;
  that the latter needs the former is the point: a file that is not looked at
  because an earlier one was refused has no outcome, but then there is an error.
* `NoTokenCarriedOver`: `DriverSpec => []NothingKeptBetweenFiles`. The
  invariant is that half a token is kept only while `getNextToken` is not running; each
  loop of the lexer preserves it, and the end of a file is reached only with nothing kept.
* `TokensAreWhereTheySay` (`TokensStandWhereTheySay`), `TokensAreLongest`
  (`MaximalMunch`), `NothingElseIsSkipped` (`OnlyBlanksSkipped`) and `OnlyIllegalIsRefused`
  (`RefusedTextIsIllegal`): what the lexer returns, skips and refuses is what
  `Tokenization` says of the text, for texts of every length, those included on which the
  loops over the digits of an escape never end.

The last four share one invariant, `LexInv`. It is not enough to say what the
properties say of the tokens returned (`TokensIn`); for every loop it says where the lexer
is (`Place`). The tracker has given the first `n` characters and its position is the one
behind them, and where a `rewind` is still to come it can be taken back (`Tracked`,
`Fresh`; each `Rewind` of the code is shown to follow an `Advance` that succeeded, except
behind an escape that ends the file, whose loop is not left). Behind the last token there
are only blanks and comments up to where the current token or comment began, and what
was read since is the start of a word, a number, a quotation without its closing quote, or
a punctuator and one more character (`InIdent` ... `InPunctuator`). This also
holds between two calls when half a token is kept: the second dot of `..` is where
`tmpPos` says. That the longest token was taken follows because every start of a
punctuator is a punctuator or in `OpenEnded` (`PunctuatorPrefix`), and because a quotation
ends at the first quote that no backslash escapes (`QuotedLongest`).
`UnixText` and `IsBlankText` recurse over the text. They are recursive functions
there, and the proofs use only their one-step unfoldings: a gap between tokens is the
set of places that blanks and comments lead to (`Gap`), which needs no recursion, and
is shown to be a blank text once (`GapIsBlank`). The invariant was checked with TLC on
the texts of the run, with those of `EndsInDigits`, before it was proved.

### Only model-checked

* `Terminates` and `ProgramEnds`: liveness is out of the prover's reach.
* `ImplementsAnalysis`, `PhiHasValue`, `NoLostBlock` and `ClaimsHold` on functions other than the
  above, that is with loops or nested branches.
* `NoDeadBlockLeft` and `ResultIsFunction` of `SccpCleanup`: the deletions are folds
  over the instructions of a block (`FoldSinglePhis`, `Deleted`), so what they do to a block of any length is an
  induction over data. The theorems on `tearDownInsts` do not hold for
  functions with loops for the reason of section 4 (entries may stay without value); there TLC checks them.
* `Parsing`: parser, printer and grammar are mutually recursive operators, which the
  proof system does not take.
* `MemberIsTheOneNamed`, `JumpsFollowTheLoop` and `ClaimedValuesHold` of a later iteration: they
  are false (section 4).

## 6. What is not modelled

* In the optimiser: types of values. Replacing an `i1` or `i8` by an `i32`
  constant is therefore not seen; neither are pointers' contents.
* In the code generator: the values that are computed (only their types are), the
  globals and allocations behind variables, literals and initialisers. A condition
  evaluated as a value and stored (`a && b` as an `and`) is an ordinary
  operator in `CodeGenerator`.
* In the type checks: sizes of arrays, the unescaping of constants, overflow of
  integer constants, messages.
* In the parser and printer: struct specifiers, the names in scope (`SemanticTree`
  has both), positions; `->` (`parser.cc:353`, parsed as `.` is) and constants and string
  literals (`:388`-`:403`, parsed as identifiers are) are no tokens of the model's texts; of the
  printer, line breaks and the global flags that suppress some.
* In the lexer and driver: the positions in error messages, the standard input read
  as a file, a second character pushed back by `ungetc` (the model's stream takes
  any number, the C library guarantees one), the handler's search for the line of
  the error, and the second lexer of the parser (`main.cc:93` makes two on one stream). Failures to
  write the output: `genLLVMIR` does not look at the error of opening it (`cogen.cc:29`-`:30`),
  so the exit status does not tell of them, and no property covers them.
* In the semantic tree: types other than `int`, structs, one level of pointers
  to them and function types by signature; struct tags that occur only in `sizeof` or
  a parameter list; anonymous structs; the forest, one tree per file name.
* `mem2reg` and the verifier are not ours; the hand-compiled functions are
  written as they leave them.
* Utilities (debug output, string comparison) and the test runner: no behaviour of their own.

## 7. Plan

Done: the optimiser, the code generator, the semantic tree, types and expressions, the
parser and printer, the lexer and driver. Left, in this order:

1. Proofs: the analysis of functions with loops whose headers are visited again.
2. Struct specifiers in `Parser` and `Printer`, with the actions of `SemanticTree`
   as what the parser calls.
3. A structured semantics of statements that the emitted graph is shown to
   refine, and runs of a function before and after `SccpCleanup`.
