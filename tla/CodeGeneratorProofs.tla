------------------------ MODULE CodeGeneratorProofs ------------------------
(***************************************************************************)
(* What the code generator promises for every translation unit: its types, *)
(* blocks that end once, and labels, phi nodes and conditional branches    *)
(* that fit together.                                                      *)
(*                                                                         *)
(* Every step removes the first call of the agenda and puts calls in its   *)
(* place, appends blocks, and ends at most one block; the lemmas are about *)
(* these three changes, and each action is an instance of them.            *)
(***************************************************************************)
EXTENDS CodeGenerator, SequenceTheorems, FiniteSetTheorems, TLAPS

(* The calls and the blocks of a module that has the block numbers B. *)
Tasks(B) ==
  [do : {"compound", "statement", "rvalue", "return"}]
    \union [do : {"insertAt"}, block : B]
    \union [do : {"connect", "connectPhi"}, to : B]
    \union [do : {"connectFrom"}, from : B, to : B]
    \union [do : {"condition", "conditionalBranch"}, true : B, false : B]
    \union [do : {"endWhile"}, header : B, end : B]
    \union [do : {"doTest"}, content : B]

BlocksOver(B) == [of : FunctionNames,
                  terminators : Seq(Seq(B \union {Null})),
                  incoming : Seq(B)]

LoopEnd(t)   == t.do \in {"endWhile", "doTest"}
Branching(t) == t.do \in {"condition", "conditionalBranch"}

(* The blocks a call will make current or, for connectFrom, will end. *)
Opens(t) == CASE t.do = "insertAt"    -> {t.block}
              [] t.do = "connectFrom" -> {t.from}
              [] t.do = "endWhile"    -> {t.end}
              [] OTHER                -> {}

(* A closer leaves the current block ended; it is followed by an opener,   *)
(* which has no use for the current block.                                 *)
Opener(t) == t.do \in {"insertAt", "connectFrom"}
Closer(t) == t.do \in {"condition", "conditionalBranch", "connect",
                       "connectPhi", "connectFrom"}

(* The blocks a call will branch to, other than those with a phi node. *)
Aims(t) == CASE t.do \in {"connect", "connectFrom"} -> {t.to}
             [] Branching(t)                        -> {t.true, t.false}
             [] t.do = "endWhile"                   -> {t.header}
             [] t.do = "doTest"                     -> {t.content}
             [] OTHER                               -> {}

(* The kinds of calls, and what each carries. *)
LEMMA TaskFields ==
  ASSUME NEW B, NEW t \in Tasks(B)
  PROVE  /\ t.do \in {"compound", "statement", "rvalue", "return", "insertAt",
                      "connect", "connectPhi", "connectFrom", "condition",
                      "conditionalBranch", "endWhile", "doTest"}
         /\ t.do = "insertAt" => t.block \in B
         /\ t.do \in {"connect", "connectPhi", "connectFrom"} => t.to \in B
         /\ t.do = "connectFrom" => t.from \in B
         /\ Branching(t) => t.true \in B /\ t.false \in B
         /\ t.do = "endWhile" => t.header \in B /\ t.end \in B
         /\ t.do = "doTest" => t.content \in B
         /\ Opens(t) \subseteq B
         /\ Aims(t) \subseteq B
  BY DEF Tasks, Branching, Opens, Aims

(* The calls that the actions make. *)
LEMMA TaskTypes ==
  ASSUME NEW B, NEW a \in B, NEW b \in B
  PROVE  /\ \A do \in {"compound", "statement", "rvalue", "return"} :
              Task(do) \in Tasks(B)
         /\ InsertAt(a) \in Tasks(B) /\ Connect(a) \in Tasks(B)
         /\ ConnectFrom(a, b) \in Tasks(B) /\ ConnectPhi(a) \in Tasks(B)
         /\ Condition(a, b) \in Tasks(B) /\ EndWhile(a, b) \in Tasks(B)
         /\ DoTest(a) \in Tasks(B)
  BY DEF Tasks, Task, InsertAt, Connect, ConnectFrom, ConnectPhi, Condition,
         EndWhile, DoTest

(* More blocks leave room for what was there before. *)
LEMMA TasksGrow ==
  ASSUME NEW B, NEW C, B \subseteq C
  PROVE  Tasks(B) \subseteq Tasks(C) /\ BlocksOver(B) \subseteq BlocksOver(C)
  <1>1. Tasks(B) \subseteq Tasks(C)
    BY DEF Tasks
  <1>2. Seq(B) \subseteq Seq(C) /\ Seq(B \union {Null}) \subseteq Seq(C \union {Null})
    OBVIOUS
  <1>3. Seq(Seq(B \union {Null})) \subseteq Seq(Seq(C \union {Null}))
    BY <1>2
  <1> QED
    BY <1>1, <1>2, <1>3 DEF BlocksOver

-----------------------------------------------------------------------------
(* Replacing the first call of an agenda.                                  *)
Replace(a, ts) == ts \o Tail(a)

(* Where the calls of the new agenda come from. *)
LEMMA ReplaceIndex ==
  ASSUME NEW S, NEW a \in Seq(S), a # <<>>, NEW ts \in Seq(S)
  PROVE  /\ Replace(a, ts) \in Seq(S)
         /\ Len(a) \in Nat \ {0} /\ Len(ts) \in Nat
         /\ Len(Replace(a, ts)) = Len(ts) + Len(a) - 1
         /\ DOMAIN Replace(a, ts) = 1 .. Len(ts) + Len(a) - 1
         /\ DOMAIN a = 1 .. Len(a) /\ DOMAIN ts = 1 .. Len(ts)
         /\ Head(a) = a[1]
  BY HeadTailProperties, ConcatProperties DEF Replace

(* The calls put in place come first, in their order ... *)
LEMMA ReplaceFirst ==
  ASSUME NEW S, NEW a \in Seq(S), a # <<>>, NEW ts \in Seq(S)
  PROVE  \A k \in 1 .. Len(ts) : Replace(a, ts)[k] = ts[k]
  BY HeadTailProperties, ConcatProperties DEF Replace

(* ... and the calls that were behind the replaced one follow. *)
LEMMA ReplaceRest ==
  ASSUME NEW S, NEW a \in Seq(S), a # <<>>, NEW ts \in Seq(S)
  PROVE  \A k \in 2 .. Len(a) : Replace(a, ts)[k + Len(ts) - 1] = a[k]
  BY HeadTailProperties, ConcatProperties DEF Replace

(* Openers follow closers, and no closer is last. *)
Linked(ts) == \A k \in DOMAIN ts : k + 1 \in DOMAIN ts =>
                (Closer(ts[k]) <=> Opener(ts[k + 1]))
Alternates(a) == Linked(a) /\ (a # <<>> => ~Closer(a[Len(a)]))
OpensNext(a)  == a # <<>> /\ Opener(Head(a))

(* No block is opened by two calls. *)
Opened(a)   == UNION {Opens(a[k]) : k \in DOMAIN a}
Distinct(a) == \A j, k \in DOMAIN a : j # k => Opens(a[j]) \cap Opens(a[k]) = {}

(* A block is opened by an agenda if one of its calls opens it. *)
LEMMA OpenedMember ==
  ASSUME NEW a
  PROVE  \A b : b \in Opened(a) <=> \E k \in DOMAIN a : b \in Opens(a[k])
  BY DEF Opened

(* The calls put in place of a call leave the current block as it would. *)
Fits(t, ts) ==
  /\ Linked(ts)
  /\ ts # <<>> => (Closer(ts[Len(ts)]) <=> Closer(t))

(* So closers and openers still alternate, and the new agenda opens a block *)
(* next if the old one did, or the first of the new calls does.             *)
LEMMA ReplaceAlternates ==
  ASSUME NEW S, NEW a \in Seq(S), a # <<>>, NEW ts \in Seq(S),
         Alternates(a), Fits(Head(a), ts)
  PROVE  /\ Alternates(Replace(a, ts))
         /\ OpensNext(Replace(a, ts)) <=>
              IF ts = <<>> THEN Closer(Head(a)) ELSE Opener(ts[1])
  <1> DEFINE r == Replace(a, ts)  n == Len(ts)  m == Len(a)
  <1>1. /\ r \in Seq(S) /\ m \in Nat \ {0} /\ n \in Nat
        /\ Len(r) = n + m - 1 /\ DOMAIN r = 1 .. n + m - 1
        /\ DOMAIN a = 1 .. m /\ DOMAIN ts = 1 .. n
        /\ \A k \in 1 .. n : r[k] = ts[k]
        /\ \A k \in n + 1 .. n + m - 1 : r[k] = a[k - n + 1]
        /\ Head(a) = a[1]
    <2>1. /\ Replace(a, ts) \in Seq(S)
          /\ Len(a) \in Nat \ {0} /\ Len(ts) \in Nat
          /\ Len(Replace(a, ts)) = Len(ts) + Len(a) - 1
          /\ DOMAIN Replace(a, ts) = 1 .. Len(ts) + Len(a) - 1
          /\ DOMAIN a = 1 .. Len(a) /\ DOMAIN ts = 1 .. Len(ts)
      BY ReplaceIndex
    <2>2. \A k \in 1 .. Len(ts) : Replace(a, ts)[k] = ts[k]
      BY ReplaceFirst
    <2>3. /\ \A k \in 2 .. Len(a) : Replace(a, ts)[k + Len(ts) - 1] = a[k]
          /\ Head(a) = a[1]
      BY ReplaceIndex, ReplaceRest
    <2>4. ASSUME NEW k \in n + 1 .. n + m - 1
          PROVE  r[k] = a[k - n + 1]
      <3>1. k - n + 1 \in 2 .. m /\ (k - n + 1) + n - 1 = k
        BY <2>1
      <3> QED
        BY <2>3, <3>1
    <2> QED
      BY <2>1, <2>2, <2>3, <2>4
  <1> HIDE DEF r, n, m
  <1>2. /\ \A k \in 1 .. m - 1 : Closer(a[k]) <=> Opener(a[k + 1])
        /\ ~Closer(a[m])
    <2>1. a[m] = a[Len(a)]
      BY DEF m
    <2>2. ASSUME NEW k \in 1 .. m - 1 PROVE Closer(a[k]) <=> Opener(a[k + 1])
      <3>1. k \in DOMAIN a /\ k + 1 \in DOMAIN a
        BY <1>1
      <3> QED
        BY <3>1 DEF Alternates, Linked
    <2> QED
      BY <2>1, <2>2 DEF Alternates
  <1>3. /\ \A k \in 1 .. n - 1 : Closer(ts[k]) <=> Opener(ts[k + 1])
        /\ n # 0 => (Closer(ts[n]) <=> Closer(a[1]))
    <2>1. n # 0 => ts # <<>>
      BY DEF n
    <2> QED
      <3>1. n # 0 => (Closer(ts[n]) <=> Closer(a[1]))
        BY <1>1, <2>1 DEF Fits, n
      <3>2. ASSUME NEW k \in 1 .. n - 1 PROVE Closer(ts[k]) <=> Opener(ts[k + 1])
        <4>1. k \in DOMAIN ts /\ k + 1 \in DOMAIN ts
          BY <1>1
        <4> QED
          BY <4>1 DEF Fits, Linked
      <3> QED
        BY <3>1, <3>2
  <1>4. ASSUME NEW k \in 1 .. n + m - 2
        PROVE  Closer(r[k]) <=> Opener(r[k + 1])
    <2>1. CASE k < n
      BY <1>1, <1>3, <2>1
    <2>2. CASE k = n
      <3>1. r[k] = ts[n] /\ r[k + 1] = a[2] /\ 1 \in 1 .. m - 1 /\ n # 0
        BY <1>1, <2>2
      <3> QED
        BY <1>2, <1>3, <3>1
    <2>3. CASE k > n
      <3>1. /\ r[k] = a[k - n + 1] /\ r[k + 1] = a[k + 1 - n + 1]
            /\ k - n + 1 \in 1 .. m - 1 /\ k + 1 - n + 1 = (k - n + 1) + 1
        BY <1>1, <2>3
      <3> QED
        BY <1>2, <3>1
    <2> QED
      BY <1>1, <2>1, <2>2, <2>3
  <1>5. ASSUME n + m - 1 # 0
        PROVE  ~Closer(r[n + m - 1])
    <2>1. CASE m = 1
      BY <1>1, <1>2, <1>3, <1>5, <2>1
    <2>2. CASE m # 1
      BY <1>1, <1>2, <2>2
    <2> QED
      BY <2>1, <2>2
  <1>6. r # <<>> <=> n + m - 1 # 0
    BY <1>1
  <1>7. Alternates(r)
    BY <1>1, <1>4, <1>5, <1>6 DEF Alternates, Linked
  <1>8. OpensNext(r) <=> n + m - 1 # 0 /\ Opener(r[1])
    BY <1>1, <1>6 DEF OpensNext
  <1>9. OpensNext(r) <=> IF n = 0 THEN Closer(a[1]) ELSE Opener(ts[1])
    <2>1. CASE n = 0
      <3>1. CASE m = 1
        BY <1>1, <1>2, <1>8, <2>1, <3>1
      <3>2. CASE m # 1
        <4>1. r[1] = a[2] /\ 1 \in 1 .. m - 1 /\ n + m - 1 # 0
          BY <1>1, <2>1, <3>2
        <4> QED
          BY <1>2, <1>8, <2>1, <4>1
      <3> QED
        BY <3>1, <3>2
    <2>2. CASE n # 0
      BY <1>1, <1>8, <2>2
    <2> QED
      BY <2>1, <2>2
  <1>10. ts = <<>> <=> n = 0
    BY DEF n
  <1> QED
    BY <1>1, <1>7, <1>9, <1>10 DEF r

(* The blocks that the new agenda opens. *)
LEMMA ReplaceOpened ==
  ASSUME NEW S, NEW a \in Seq(S), a # <<>>, NEW ts \in Seq(S),
         Distinct(a), Distinct(ts),
         Opened(ts) \cap (Opened(a) \ Opens(Head(a))) = {}
  PROVE  /\ Distinct(Replace(a, ts))
         /\ Opened(Replace(a, ts)) = Opened(ts) \union (Opened(a) \ Opens(Head(a)))
         /\ Opens(Head(a)) \subseteq Opened(a)
  <1> DEFINE r == Replace(a, ts)  n == Len(ts)  m == Len(a)
  <1>1. /\ r \in Seq(S) /\ m \in Nat \ {0} /\ n \in Nat
        /\ Len(r) = n + m - 1 /\ DOMAIN r = 1 .. n + m - 1
        /\ DOMAIN a = 1 .. m /\ DOMAIN ts = 1 .. n
        /\ \A k \in 1 .. n : r[k] = ts[k]
        /\ \A k \in n + 1 .. n + m - 1 : r[k] = a[k - n + 1]
        /\ \A k \in 2 .. m : r[k + n - 1] = a[k]
        /\ Head(a) = a[1]
    <2>1. /\ Replace(a, ts) \in Seq(S)
          /\ Len(a) \in Nat \ {0} /\ Len(ts) \in Nat
          /\ Len(Replace(a, ts)) = Len(ts) + Len(a) - 1
          /\ DOMAIN Replace(a, ts) = 1 .. Len(ts) + Len(a) - 1
          /\ DOMAIN a = 1 .. Len(a) /\ DOMAIN ts = 1 .. Len(ts)
      BY ReplaceIndex
    <2>2. \A k \in 1 .. Len(ts) : Replace(a, ts)[k] = ts[k]
      BY ReplaceFirst
    <2>3. /\ \A k \in 2 .. Len(a) : Replace(a, ts)[k + Len(ts) - 1] = a[k]
          /\ Head(a) = a[1]
      BY ReplaceIndex, ReplaceRest
    <2>4. ASSUME NEW k \in n + 1 .. n + m - 1
          PROVE  r[k] = a[k - n + 1]
      <3>1. k - n + 1 \in 2 .. m /\ (k - n + 1) + n - 1 = k
        BY <2>1
      <3> QED
        BY <2>3, <3>1
    <2> QED
      BY <2>1, <2>2, <2>3, <2>4
  <1> HIDE DEF r, n, m
  <1>2. Opens(Head(a)) \subseteq Opened(a)
    <2>1. 1 \in DOMAIN a
      BY <1>1
    <2> QED
      BY <1>1, <2>1, OpenedMember
  <1>3. \A k \in 2 .. m : /\ Opens(a[k]) \subseteq Opened(a) \ Opens(Head(a))
                          /\ k + n - 1 \in DOMAIN r
    <2> SUFFICES ASSUME NEW k \in 2 .. m
                 PROVE  /\ Opens(a[k]) \subseteq Opened(a) \ Opens(Head(a))
                        /\ k + n - 1 \in DOMAIN r
      OBVIOUS
    <2>1. k \in DOMAIN a /\ 1 \in DOMAIN a /\ k # 1 /\ k + n - 1 \in DOMAIN r
      BY <1>1
    <2>2. Opens(a[k]) \cap Opens(a[1]) = {}
      BY <2>1 DEF Distinct
    <2> QED
      BY <1>1, <2>1, <2>2, OpenedMember
  <1>4. \A b \in Opened(a) \ Opens(Head(a)) : \E k \in 2 .. m : b \in Opens(a[k])
    BY <1>1, OpenedMember
  <1>5. \A k \in 1 .. n : Opens(ts[k]) \subseteq Opened(ts) /\ k \in DOMAIN r
    BY <1>1, OpenedMember
  <1>6. \A k \in DOMAIN r : \/ k \in 1 .. n /\ r[k] = ts[k]
                            \/ /\ k > n /\ k - n + 1 \in 2 .. m
                               /\ r[k] = a[k - n + 1]
    BY <1>1
  <1>7. Opened(r) \subseteq Opened(ts) \union (Opened(a) \ Opens(Head(a)))
    BY <1>1, <1>3, <1>5, <1>6, OpenedMember
  <1>8. Opened(ts) \subseteq Opened(r)
    BY <1>1, <1>5, OpenedMember
  <1>9. Opened(a) \ Opens(Head(a)) \subseteq Opened(r)
    BY <1>1, <1>3, <1>4, OpenedMember
  <1>10. ASSUME NEW j \in DOMAIN r, NEW k \in DOMAIN r, j # k
         PROVE  Opens(r[j]) \cap Opens(r[k]) = {}
    <2>1. CASE j \in 1 .. n /\ k \in 1 .. n
      BY <1>1, <1>10, <2>1 DEF Distinct
    <2>2. CASE j > n /\ k > n
      <3>1. /\ j - n + 1 \in DOMAIN a /\ k - n + 1 \in DOMAIN a
            /\ j - n + 1 # k - n + 1
            /\ r[j] = a[j - n + 1] /\ r[k] = a[k - n + 1]
        BY <1>1, <1>10, <2>2
      <3> QED
        BY <3>1 DEF Distinct
    <2>3. CASE j \in 1 .. n /\ k > n
      <3>1. Opens(r[j]) \subseteq Opened(ts)
        BY <1>1, <1>5, <2>3
      <3>2. Opens(r[k]) \subseteq Opened(a) \ Opens(Head(a))
        BY <1>1, <1>3, <1>6, <2>3
      <3> QED
        BY <3>1, <3>2
    <2>4. CASE j > n /\ k \in 1 .. n
      <3>1. Opens(r[k]) \subseteq Opened(ts)
        BY <1>1, <1>5, <2>4
      <3>2. Opens(r[j]) \subseteq Opened(a) \ Opens(Head(a))
        BY <1>1, <1>3, <1>6, <2>4
      <3> QED
        BY <3>1, <3>2
    <2> QED
      BY <1>1, <2>1, <2>2, <2>3, <2>4
  <1>11. Distinct(r)
    BY <1>10 DEF Distinct
  <1> QED
    BY <1>2, <1>7, <1>8, <1>9, <1>11 DEF r

-----------------------------------------------------------------------------
(* Making blocks and ending one.                                           *)
Terms(b) == IF b \in Block THEN blocks[b].terminators ELSE <<>>
Inc(b)   == IF b \in Block THEN blocks[b].incoming ELSE <<>>

(* What a step does to the blocks: n are made, block x ends by a branch to *)
(* succs, the phi node of block phi lists the current block. *)
Grown(n, x, succs, phi) ==
  /\ blocks' \in Seq(BlocksOver(1 .. Len(blocks) + n))
  /\ Len(blocks') = Len(blocks) + n
  /\ \A b \in 1 .. Len(blocks) + n :
       /\ blocks'[b].of = IF b \in Block THEN blocks[b].of ELSE currentFunction
       /\ blocks'[b].terminators = IF b = x THEN Append(Terms(b), succs) ELSE Terms(b)
       /\ blocks'[b].incoming = IF b = phi THEN Append(Inc(b), insertBlock) ELSE Inc(b)

(* Blocks are numbered from 1, and Null is none of them. *)
LEMMA TypeOfBlocks ==
  ASSUME TypeOK
  PROVE  /\ blocks \in Seq(BlocksOver(1 .. Len(blocks)))
         /\ Len(blocks) \in Nat /\ Block = 1 .. Len(blocks)
         /\ agenda \in Seq(Tasks(1 .. Len(blocks)))
         /\ Null \notin Block
  <1>1. blocks \in Seq(BlocksOver(Block)) /\ agenda \in Seq(Tasks(Block))
    BY DEF TypeOK, BlocksOver, Tasks
  <1>2. Block = 1 .. Len(blocks) /\ Len(blocks) \in Nat
    BY <1>1 DEF Block
  <1> QED
    BY <1>1, <1>2 DEF Null

(* makeBlock appends empty blocks and leaves the others alone. *)
LEMMA CreatedBlocks ==
  ASSUME TypeOK, currentFunction \in FunctionNames, NEW n \in Nat
  PROVE  /\ Created(n) \in Seq(BlocksOver(1 .. Len(blocks) + n))
         /\ Len(Created(n)) = Len(blocks) + n
         /\ \A b \in 1 .. Len(blocks) + n :
              Created(n)[b] = IF b \in Block THEN blocks[b] ELSE EmptyBlock
  <1> DEFINE B == 1 .. Len(blocks) + n
             made == [k \in 1 .. n |-> EmptyBlock]
  <1>1. /\ blocks \in Seq(BlocksOver(1 .. Len(blocks))) /\ Len(blocks) \in Nat
        /\ Block = 1 .. Len(blocks)
    BY TypeOfBlocks
  <1>2. 1 .. Len(blocks) \subseteq B
    BY <1>1
  <1>3. blocks \in Seq(BlocksOver(B))
    BY <1>1, <1>2, TasksGrow
  <1>4. EmptyBlock \in BlocksOver(B)
    BY DEF EmptyBlock, BlocksOver
  <1>5. made \in Seq(BlocksOver(B)) /\ Len(made) = n
    BY <1>4
  <1>6. \A k \in 1 .. n : made[k] = EmptyBlock
    OBVIOUS
  <1> HIDE DEF B, made
  <1>7. /\ blocks \o made \in Seq(BlocksOver(B))
        /\ Len(blocks \o made) = Len(blocks) + n
        /\ \A b \in 1 .. Len(blocks) + n : (blocks \o made)[b] =
             IF b <= Len(blocks) THEN blocks[b] ELSE made[b - Len(blocks)]
    BY <1>3, <1>5, ConcatProperties
  <1>8. Created(n) = blocks \o made
    BY DEF Created, made
  <1> QED
    BY <1>1, <1>6, <1>7, <1>8 DEF B

(* Making no block changes nothing. *)
LEMMA CreatedNone ==
  ASSUME TypeOK
  PROVE  Created(0) = blocks
  <1>1. blocks \in Seq(BlocksOver(1 .. Len(blocks)))
    BY TypeOfBlocks
  <1>2. [k \in 1 .. 0 |-> EmptyBlock] = <<>>
    OBVIOUS
  <1> QED
    BY <1>1, <1>2, ConcatEmptySeq DEF Created

(* A step that only makes blocks ends none. *)
LEMMA GrownByCreated ==
  ASSUME TypeOK, currentFunction \in FunctionNames, NEW n \in Nat,
         blocks' = Created(n)
  PROVE  Grown(n, Null, <<>>, Null)
  <1>1. \A b \in 1 .. Len(blocks) + n : b # Null
    BY TypeOfBlocks DEF Null
  <1>2. /\ blocks' \in Seq(BlocksOver(1 .. Len(blocks) + n))
        /\ Len(blocks') = Len(blocks) + n
        /\ \A b \in 1 .. Len(blocks) + n :
             blocks'[b] = IF b \in Block THEN blocks[b] ELSE EmptyBlock
    BY CreatedBlocks
  <1>3. ASSUME NEW b \in 1 .. Len(blocks) + n
        PROVE  /\ blocks'[b].of = IF b \in Block THEN blocks[b].of ELSE currentFunction
               /\ blocks'[b].terminators = Terms(b) /\ blocks'[b].incoming = Inc(b)
    BY <1>2 DEF Terms, Inc, EmptyBlock
  <1> QED
    BY <1>1, <1>2, <1>3 DEF Grown

(* A step that makes blocks and then ends x gives x one more terminator, *)
(* and no other block.                                                   *)
LEMMA GrownByTerminated ==
  ASSUME TypeOK, currentFunction \in FunctionNames, NEW n \in Nat,
         NEW x \in Block, NEW succs \in Seq(1 .. Len(blocks) + n \union {Null}),
         blocks' = Terminated(Created(n), x, succs)
  PROVE  Grown(n, x, succs, Null)
  <1> DEFINE B == 1 .. Len(blocks) + n
             c == Created(n)
  <1>0. c \in Seq(BlocksOver(B)) /\ Len(c) = Len(blocks) + n
    BY CreatedBlocks
  <1>1. /\ \A b \in B : c[b] = IF b \in Block THEN blocks[b] ELSE EmptyBlock
        /\ Len(blocks) \in Nat /\ x \in B /\ Null \notin B
    <2>1. Len(blocks) \in Nat /\ Block = 1 .. Len(blocks)
      BY TypeOfBlocks
    <2>2. \A b \in B : c[b] = IF b \in Block THEN blocks[b] ELSE EmptyBlock
      BY CreatedBlocks
    <2> QED
      BY <2>1, <2>2 DEF Null
  <1>2. blocks' = [c EXCEPT ![x].terminators = Append(@, succs)]
    BY DEF Terminated
  <1> HIDE DEF c, B
  <1>3. DOMAIN c = B
    <2>1. DOMAIN c = 1 .. Len(c)
      BY <1>0
    <2> QED
      BY <1>0, <2>1 DEF B
  <1>4. c[x] \in BlocksOver(B) /\ c[x].terminators \in Seq(Seq(B \union {Null}))
    <2>1. c[x] \in BlocksOver(B)
      BY <1>0, <1>1, <1>3
    <2> QED
      BY <2>1 DEF BlocksOver
  <1>5. Append(c[x].terminators, succs) \in Seq(Seq(B \union {Null}))
    BY <1>4 DEF B
  <1>6. [c[x] EXCEPT !.terminators = Append(@, succs)] \in BlocksOver(B)
    BY <1>4, <1>5 DEF BlocksOver
  <1>7. blocks' = [c EXCEPT ![x] = [c[x] EXCEPT !.terminators = Append(@, succs)]]
    BY <1>2
  <1>8. blocks' \in Seq(BlocksOver(B)) /\ Len(blocks') = Len(c)
    BY <1>0, <1>1, <1>3, <1>6, <1>7
  <1>9. \A b \in B : blocks'[b] = IF b = x THEN [c[x] EXCEPT !.terminators = Append(@, succs)]
                                           ELSE c[b]
    BY <1>1, <1>3, <1>7
  <1>10. \A b \in B : /\ blocks'[b].of = c[b].of
                      /\ blocks'[b].incoming = c[b].incoming
                      /\ blocks'[b].terminators =
                           IF b = x THEN Append(c[x].terminators, succs)
                                    ELSE c[b].terminators
    BY <1>4, <1>9 DEF BlocksOver
  <1>11. \A b \in B : /\ c[b].of = IF b \in Block THEN blocks[b].of ELSE currentFunction
                      /\ c[b].terminators = Terms(b) /\ c[b].incoming = Inc(b)
    BY <1>1 DEF Terms, Inc, EmptyBlock
  <1> QED
    BY <1>0, <1>1, <1>8, <1>10, <1>11 DEF Grown, B

(* The step of a ternary's arm: its phi node lists the current block. *)
LEMMA GrownByArm ==
  ASSUME TypeOK, currentFunction \in FunctionNames,
         insertBlock \in Block, NEW to \in Block,
         blocks' = [Terminated(blocks, insertBlock, <<to>>)
                      EXCEPT ![to].incoming = Append(@, insertBlock)]
  PROVE  Grown(0, insertBlock, <<to>>, to)
  <1> DEFINE B == 1 .. Len(blocks)
             c == Terminated(blocks, insertBlock, <<to>>)
             d == [c[to] EXCEPT !.incoming = Append(@, insertBlock)]
  <1>1. /\ blocks \in Seq(BlocksOver(B)) /\ Len(blocks) \in Nat /\ Block = B
        /\ Null \notin B
    BY TypeOfBlocks
  <1>2. DOMAIN blocks = B
    BY <1>1 DEF Block
  <1>3. /\ blocks[insertBlock] \in BlocksOver(B)
        /\ blocks[insertBlock].terminators \in Seq(Seq(B \union {Null}))
        /\ <<to>> \in Seq(B \union {Null})
    <2>1. blocks[insertBlock] \in BlocksOver(B)
      BY <1>1, <1>2
    <2>2. to \in B \union {Null}
      BY <1>1
    <2> QED
      BY <2>1, <2>2 DEF BlocksOver
  <1>4. Append(blocks[insertBlock].terminators, <<to>>) \in Seq(Seq(B \union {Null}))
    BY <1>3
  <1>5. [blocks[insertBlock] EXCEPT !.terminators = Append(@, <<to>>)] \in BlocksOver(B)
    BY <1>3, <1>4 DEF BlocksOver
  <1>6. c = [blocks EXCEPT ![insertBlock] =
               [blocks[insertBlock] EXCEPT !.terminators = Append(@, <<to>>)]]
    BY DEF Terminated
  <1> HIDE DEF c
  <1>7. /\ c \in Seq(BlocksOver(B)) /\ Len(c) = Len(blocks) /\ DOMAIN c = B
        /\ \A b \in B : c[b] = IF b = insertBlock
                 THEN [blocks[insertBlock] EXCEPT !.terminators = Append(@, <<to>>)]
                 ELSE blocks[b]
    BY <1>1, <1>2, <1>5, <1>6
  <1>8. \A b \in B : /\ c[b].of = blocks[b].of
                     /\ c[b].incoming = blocks[b].incoming
                     /\ c[b].terminators = IF b = insertBlock
                          THEN Append(blocks[b].terminators, <<to>>)
                          ELSE blocks[b].terminators
    <2>1. [blocks[insertBlock] EXCEPT !.terminators = Append(@, <<to>>)].terminators
            = Append(blocks[insertBlock].terminators, <<to>>)
      BY <1>3 DEF BlocksOver
    <2>2. /\ [blocks[insertBlock] EXCEPT !.terminators = Append(@, <<to>>)].of
               = blocks[insertBlock].of
          /\ [blocks[insertBlock] EXCEPT !.terminators = Append(@, <<to>>)].incoming
               = blocks[insertBlock].incoming
      BY <1>3 DEF BlocksOver
    <2> QED
      BY <1>7, <2>1, <2>2
  <1>9. c[to] \in BlocksOver(B) /\ c[to].incoming \in Seq(B)
    <2>1. c[to] \in BlocksOver(B)
      BY <1>1, <1>7
    <2> QED
      BY <2>1 DEF BlocksOver
  <1>10. d \in BlocksOver(B)
    <2>1. insertBlock \in B
      BY <1>1
    <2>2. Append(c[to].incoming, insertBlock) \in Seq(B)
      BY <1>9, <2>1
    <2> QED
      BY <1>9, <2>2 DEF BlocksOver
  <1>11. blocks' = [c EXCEPT ![to] = d]
    BY DEF c
  <1>12. d.of = c[to].of /\ d.terminators = c[to].terminators
         /\ d.incoming = Append(c[to].incoming, insertBlock)
    BY <1>9 DEF BlocksOver
  <1> HIDE DEF d, B
  <1>13. /\ blocks' \in Seq(BlocksOver(B)) /\ Len(blocks') = Len(c)
         /\ \A b \in B : blocks'[b] = IF b = to THEN d ELSE c[b]
    <2>1. to \in 1 .. Len(c) /\ c \in Seq(BlocksOver(B)) /\ B = 1 .. Len(c)
      BY <1>1, <1>7 DEF B
    <2> DEFINE e == [c EXCEPT ![to] = d]
    <2>2. /\ e \in Seq(BlocksOver(B)) /\ Len(e) = Len(c)
          /\ \A b \in 1 .. Len(c) : e[b] = IF b = to THEN d ELSE c[b]
      BY <1>10, <2>1, ExceptSeq
    <2>3. blocks' = e
      BY <1>11
    <2> HIDE DEF e
    <2> QED
      BY <2>1, <2>2, <2>3
  <1>14. \A b \in B : /\ blocks'[b].of = c[b].of
                      /\ blocks'[b].terminators = c[b].terminators
                      /\ blocks'[b].incoming = IF b = to THEN Append(c[b].incoming, insertBlock)
                                               ELSE c[b].incoming
    <2> TAKE b \in B
    <2>1. CASE b = to
      BY <1>12, <1>13, <2>1
    <2>2. CASE b # to
      BY <1>13, <2>2
    <2> QED
      BY <2>1, <2>2
  <1>15. Len(blocks) + 0 = Len(blocks)
    BY <1>1
  <1> QED
    BY <1>1, <1>7, <1>8, <1>13, <1>14, <1>15 DEF Grown, Terms, Inc, B

-----------------------------------------------------------------------------
(* Type correctness.                                                       *)

(* The bodies of the loops around the next statement end in the order of   *)
(* the agenda: `depth' numbers the loops from the outermost one.           *)
Depths(a, n, depth) ==
  \A k \in DOMAIN a : LoopEnd(a[k]) =>
    /\ depth[k] \in 1 .. n
    /\ \A j \in DOMAIN a : j < k /\ LoopEnd(a[j]) => depth[k] < depth[j]
LoopsNest == \E depth \in [DOMAIN agenda -> Nat] : Depths(agenda, Len(loops), depth)

TypeInv == /\ TypeOK
           /\ agenda # <<>> => currentFunction # None
           /\ LoopsNest

LoopEnds(ts) == {k \in DOMAIN ts : LoopEnd(ts[k])}

(* The end of a loop leaves the loop, its start enters it. *)
LEMMA LoopsStayNested ==
  ASSUME NEW S, agenda \in Seq(S), agenda # <<>>, NEW ts \in Seq(S),
         agenda' = Replace(agenda, ts),
         Len(loops) \in Nat, LoopsNest,
         LoopEnd(Head(agenda)) => LoopEnds(ts) = {},
         \A j, k \in LoopEnds(ts) : j = k,
         Len(loops') = IF LoopEnd(Head(agenda)) THEN Len(loops) - 1
                       ELSE IF LoopEnds(ts) # {} THEN Len(loops) + 1
                       ELSE Len(loops)
  PROVE  LoopsNest'
  <1> DEFINE n == Len(ts)  m == Len(agenda)
  <1>1. /\ m \in Nat \ {0} /\ n \in Nat
        /\ DOMAIN agenda' = 1 .. n + m - 1
        /\ DOMAIN agenda = 1 .. m /\ DOMAIN ts = 1 .. n
        /\ Head(agenda) = agenda[1]
    BY ReplaceIndex
  <1>2. \A k \in 1 .. n : agenda'[k] = ts[k]
    <2>1. \A k \in 1 .. Len(ts) : Replace(agenda, ts)[k] = ts[k]
      BY ReplaceFirst
    <2> QED
      BY <2>1
  <1>3. \A k \in 2 .. m : agenda'[k + n - 1] = agenda[k]
    <2>1. \A k \in 2 .. Len(agenda) : Replace(agenda, ts)[k + Len(ts) - 1] = agenda[k]
      BY ReplaceRest
    <2> QED
      BY <2>1
  <1> HIDE DEF n, m
  <1>4. PICK depth \in [DOMAIN agenda -> Nat] : Depths(agenda, Len(loops), depth)
    BY DEF LoopsNest
  <1> DEFINE new == [k \in DOMAIN agenda' |->
                       IF k <= n THEN Len(loops) + 1 ELSE depth[k - n + 1]]
  <1>5. new \in [DOMAIN agenda' -> Nat]
    BY <1>1, <1>4
  <1>6. /\ \A k \in 1 .. n : new[k] = Len(loops) + 1
        /\ \A k \in DOMAIN agenda' : k > n =>
             /\ new[k] = depth[k - n + 1] /\ k - n + 1 \in 2 .. m
             /\ agenda'[k] = agenda[k - n + 1]
    <2>1. \A k \in DOMAIN agenda' : k > n => k - n + 1 \in 2 .. m /\ (k - n + 1) + n - 1 = k
      BY <1>1
    <2>2. \A k \in 1 .. n : new[k] = Len(loops) + 1
      BY <1>1
    <2>3. \A k \in DOMAIN agenda' : k > n => new[k] = depth[k - n + 1]
      BY <1>1
    <2> QED
      BY <1>3, <2>1, <2>2, <2>3
  <1> HIDE DEF new
  <1>7. ASSUME NEW k \in DOMAIN agenda', LoopEnd(agenda'[k])
        PROVE  /\ new[k] \in 1 .. Len(loops')
               /\ \A j \in DOMAIN agenda' : j < k /\ LoopEnd(agenda'[j]) => new[k] < new[j]
    <2>1. CASE k <= n
      <3>1. k \in LoopEnds(ts)
        BY <1>1, <1>2, <1>7, <2>1 DEF LoopEnds
      <3>2. Len(loops') = Len(loops) + 1
        BY <3>1
      <3>3. \A j \in DOMAIN agenda' : j < k => ~LoopEnd(agenda'[j])
        BY <1>1, <1>2, <2>1, <3>1 DEF LoopEnds
      <3> QED
        BY <1>1, <1>6, <2>1, <3>2, <3>3
    <2>2. CASE k > n
      <3> DEFINE i == k - n + 1
      <3>1. i \in 2 .. m /\ LoopEnd(agenda[i]) /\ new[k] = depth[i]
        BY <1>6, <1>7, <2>2
      <3>2. /\ depth[i] \in 1 .. Len(loops)
            /\ \A j \in DOMAIN agenda : j < i /\ LoopEnd(agenda[j]) => depth[i] < depth[j]
        BY <1>1, <1>4, <3>1 DEF Depths
      <3>3. LoopEnd(agenda[1]) => depth[i] < depth[1] /\ depth[1] \in 1 .. Len(loops)
        <4>1. 1 \in DOMAIN agenda /\ 1 < i
          BY <1>1, <3>1
        <4>2. LoopEnd(agenda[1]) => depth[1] \in 1 .. Len(loops)
          BY <1>4, <4>1 DEF Depths
        <4> QED
          BY <3>2, <4>1, <4>2
      <3>4. new[k] \in 1 .. Len(loops')
        BY <1>1, <3>1, <3>2, <3>3
      <3>5. ASSUME NEW j \in DOMAIN agenda', j < k, LoopEnd(agenda'[j])
            PROVE  new[k] < new[j]
        <4>1. CASE j <= n
          BY <1>1, <1>6, <3>1, <3>2, <4>1
        <4>2. CASE j > n
          <5>1. /\ j - n + 1 \in DOMAIN agenda /\ j - n + 1 < i
                /\ LoopEnd(agenda[j - n + 1]) /\ new[j] = depth[j - n + 1]
            <6>1. j - n + 1 \in 2 .. m /\ agenda'[j] = agenda[j - n + 1]
                  /\ new[j] = depth[j - n + 1]
              BY <1>6, <4>2
            <6> QED
              BY <1>1, <2>2, <3>5, <6>1
          <5> QED
            BY <3>1, <3>2, <5>1
        <4> QED
          BY <1>1, <4>1, <4>2
      <3> QED
        BY <3>4, <3>5
    <2> QED
      BY <1>1, <2>1, <2>2
  <1>8. Depths(agenda', Len(loops'), new)
    BY <1>7 DEF Depths
  <1> QED
    BY <1>5, <1>8 DEF LoopsNest

(* The parts of the type invariant, for the blocks B. *)
UnitTyped ==
  /\ extent \in Extents
  /\ declared \subseteq FunctionNames
  /\ defined \subseteq declared
  /\ currentFunction \in FunctionNames \union {None}
  /\ statements \in 0 .. extent.maxStatements
  /\ operators \in 0 .. extent.maxOperators
PlacesTyped(B) ==
  /\ {breakPoint, continuePoint} \subseteq B \union {Null}
  /\ mapLabel \in [Labels -> B \union {Null}]
  /\ placed \in [Labels -> B \union {Null}]
  /\ gotos \subseteq [label : Labels, to : B]
LoopsTyped(B) ==
  /\ loops \in Seq(DOMAIN loopBlocks)
  /\ loopBlocks \in Seq([test : B \union {Null}, end : B \union {Null}])
  /\ jumps \subseteq [loop : DOMAIN loopBlocks, kind : {"break", "continue"},
                      to : B \union {Null}]

(* The type invariant in the parts that a step disturbs one by one. *)
LEMMA TypeParts ==
  TypeOK <=> /\ UnitTyped
             /\ blocks \in Seq(BlocksOver(Block))
             /\ insertBlock \in Block \union {Null}
             /\ currentFunction # None => insertBlock # Null
             /\ agenda \in Seq(Tasks(Block))
             /\ PlacesTyped(Block) /\ LoopsTyped(Block)
  BY DEF TypeOK, UnitTyped, BlocksOver, Tasks, PlacesTyped, LoopsTyped

(* What was a block remains one when there are more. *)
LEMMA PlacesGrow ==
  ASSUME NEW B, NEW C, B \subseteq C
  PROVE  /\ PlacesTyped(B) => PlacesTyped(C)
         /\ LoopsTyped(B) => LoopsTyped(C)
  <1>1. PlacesTyped(B) => PlacesTyped(C)
    BY DEF PlacesTyped
  <1>2. ASSUME LoopsTyped(B) PROVE LoopsTyped(C)
    <2>1. [test : B \union {Null}, end : B \union {Null}]
            \subseteq [test : C \union {Null}, end : C \union {Null}]
      OBVIOUS
    <2> DEFINE R == [test : B \union {Null}, end : B \union {Null}]
               T == [test : C \union {Null}, end : C \union {Null}]
    <2>2. loopBlocks \in Seq(T)
      <3>1. loopBlocks \in Seq(R) /\ R \subseteq T
        BY <1>2, <2>1 DEF LoopsTyped
      <3> HIDE DEF R, T
      <3> QED
        BY <3>1, SeqMonotonic
    <2> QED
      BY <1>2, <2>2 DEF LoopsTyped
  <1> QED
    BY <1>1, <1>2

(* A step of a function's body: n blocks are made, block x ends, and the   *)
(* calls ts take the place of the first one.                               *)
Emission(n, x, succs, phi, ts) ==
  /\ agenda # <<>>
  /\ n \in Nat
  /\ Grown(n, x, succs, phi)
  /\ ts \in Seq(Tasks(1 .. Len(blocks) + n))
  /\ agenda' = Replace(agenda, ts)
  /\ UNCHANGED currentFunction

(* Such a step keeps the types of the blocks and of the agenda. *)
LEMMA EmissionTypes ==
  ASSUME TypeOK, NEW n, NEW x, NEW succs, NEW phi, NEW ts,
         Emission(n, x, succs, phi, ts)
  PROVE  /\ Block' = 1 .. Len(blocks) + n /\ Block \subseteq Block'
         /\ blocks' \in Seq(BlocksOver(Block'))
         /\ agenda \in Seq(Tasks(1 .. Len(blocks) + n))
         /\ agenda' \in Seq(Tasks(Block'))
         /\ PlacesTyped(Block') /\ LoopsTyped(Block')
         /\ insertBlock \in Block' \union {Null}
  <1>1. /\ Len(blocks) \in Nat /\ Block = 1 .. Len(blocks) /\ n \in Nat
        /\ blocks' \in Seq(BlocksOver(1 .. Len(blocks) + n))
        /\ Len(blocks') = Len(blocks) + n
    BY TypeOfBlocks DEF Emission, Grown
  <1>2. Block' = 1 .. Len(blocks) + n
    BY <1>1 DEF Block
  <1>3. Block \subseteq Block'
    BY <1>1, <1>2
  <1>4. agenda \in Seq(Tasks(Block'))
    <2>1. agenda \in Seq(Tasks(Block))
      BY TypeParts
    <2>2. Tasks(Block) \subseteq Tasks(Block')
      BY <1>3, TasksGrow
    <2> QED
      BY <2>1, <2>2, SeqMonotonic
  <1>5. agenda # <<>> /\ ts \in Seq(Tasks(Block')) /\ agenda' = Replace(agenda, ts)
    BY <1>2 DEF Emission
  <1>6. agenda' \in Seq(Tasks(Block'))
    BY <1>4, <1>5, ReplaceIndex
  <1>7. PlacesTyped(Block') /\ LoopsTyped(Block')
    BY <1>3, TypeParts, PlacesGrow
  <1>8. insertBlock \in Block' \union {Null}
    BY <1>3, TypeParts
  <1> QED
    BY <1>1, <1>2, <1>3, <1>4, <1>6, <1>7, <1>8

(* What is known wherever a call is left. *)
LEMMA InBody ==
  ASSUME TypeInv, agenda # <<>>
  PROVE  /\ currentFunction \in FunctionNames
         /\ insertBlock \in Block
         /\ Head(agenda) \in Tasks(Block)
         /\ Len(blocks) \in Nat /\ Block = 1 .. Len(blocks)
  <1>1. agenda \in Seq(Tasks(Block)) /\ insertBlock \in Block
        /\ currentFunction \in FunctionNames
    BY TypeParts DEF TypeInv, UnitTyped
  <1> QED
    BY <1>1, TypeOfBlocks, HeadTailProperties DEF TypeInv

(* A step that makes no block and ends none ... *)
LEMMA EmissionQuiet ==
  ASSUME TypeInv, agenda # <<>>, UNCHANGED <<currentFunction, blocks>>,
         NEW ts \in Seq(Tasks(1 .. Len(blocks))), agenda' = Replace(agenda, ts)
  PROVE  Emission(0, Null, <<>>, Null, ts)
  <1>1. blocks' = Created(0) /\ Len(blocks) + 0 = Len(blocks)
    BY CreatedNone, TypeOfBlocks DEF TypeInv
  <1>2. Grown(0, Null, <<>>, Null)
    BY <1>1, InBody, GrownByCreated DEF TypeInv
  <1> QED
    BY <1>1, <1>2 DEF Emission

(* ... one that makes blocks ... *)
LEMMA EmissionMaking ==
  ASSUME TypeInv, agenda # <<>>, UNCHANGED currentFunction, NEW n \in Nat,
         blocks' = Created(n),
         NEW ts \in Seq(Tasks(1 .. Len(blocks) + n)), agenda' = Replace(agenda, ts)
  PROVE  Emission(n, Null, <<>>, Null, ts)
  BY InBody, GrownByCreated DEF Emission, TypeInv

(* ... and one that makes blocks and ends one are such steps. *)
LEMMA EmissionEnding ==
  ASSUME TypeInv, agenda # <<>>, UNCHANGED currentFunction, NEW n \in Nat,
         NEW x \in Block, NEW succs \in Seq(1 .. Len(blocks) + n \union {Null}),
         blocks' = Terminated(Created(n), x, succs),
         NEW ts \in Seq(Tasks(1 .. Len(blocks) + n)), agenda' = Replace(agenda, ts)
  PROVE  Emission(n, x, succs, Null, ts)
  BY InBody, GrownByTerminated DEF Emission, TypeInv

-----------------------------------------------------------------------------
(* The calls that the actions put on the agenda.                           *)
Aimed(ts)   == UNION {Aims(ts[k]) : k \in DOMAIN ts}
PhiEnds(ts) == {ts[k].to : k \in {j \in DOMAIN ts : ts[j].do = "connectPhi"}}

(* An agenda branches to a block if one of its calls does. *)
LEMMA AimedMember ==
  ASSUME NEW a
  PROVE  \A b : b \in Aimed(a) <=> \E k \in DOMAIN a : b \in Aims(a[k])
  BY DEF Aimed

(* No blocks are named by these. *)
Plain(ts) == \A k \in DOMAIN ts :
               ts[k].do \in {"compound", "statement", "rvalue", "return"}

(* Calls that name no block open none, end none and branch to none. *)
LEMMA PlainCalls ==
  ASSUME NEW S, NEW ts \in Seq(S), Plain(ts)
  PROVE  /\ Linked(ts) /\ Distinct(ts)
         /\ ts # <<>> => ~Closer(ts[Len(ts)]) /\ ~Opener(ts[1])
         /\ Opened(ts) = {} /\ Aimed(ts) = {} /\ PhiEnds(ts) = {}
         /\ LoopEnds(ts) = {}
         /\ \A k \in DOMAIN ts : ~Branching(ts[k])
  <1>1. \A k \in DOMAIN ts : /\ Opens(ts[k]) = {} /\ Aims(ts[k]) = {}
                             /\ ~Closer(ts[k]) /\ ~Opener(ts[k])
                             /\ ~LoopEnd(ts[k]) /\ ~Branching(ts[k])
                             /\ ts[k].do # "connectPhi"
    BY DEF Plain, Opens, Aims, Closer, Opener, LoopEnd, Branching
  <1>2. ts # <<>> => Len(ts) \in DOMAIN ts /\ 1 \in DOMAIN ts
    OBVIOUS
  <1>3. Linked(ts) /\ Distinct(ts)
    BY <1>1 DEF Linked, Distinct
  <1>4. Opened(ts) = {} /\ Aimed(ts) = {} /\ PhiEnds(ts) = {} /\ LoopEnds(ts) = {}
    BY <1>1, OpenedMember, AimedMember DEF PhiEnds, LoopEnds
  <1> QED
    BY <1>1, <1>2, <1>3, <1>4

(* The calls of a loop. *)
WhileCalls(h, c, e) ==
  <<Condition(c, e), InsertAt(c), Task("statement"), EndWhile(h, e)>>
DoCalls(c)       == <<Task("statement"), DoTest(c)>>
EndDoCalls(c, e) == <<Condition(c, e), InsertAt(e)>>

(* while: the condition, the start of the body, the body, and the way back, *)
(* behind which the block after the loop is opened.                         *)
LEMMA WhileCallsFit ==
  ASSUME NEW B, NEW h \in B, NEW c \in B, NEW e \in B, c # e
  PROVE  LET ts == WhileCalls(h, c, e) IN
         /\ ts \in Seq(Tasks(B)) /\ ts # <<>> /\ Len(ts) = 4
         /\ Linked(ts) /\ ~Closer(ts[Len(ts)]) /\ ~Opener(ts[1])
         /\ Distinct(ts) /\ Opened(ts) = {c, e}
         /\ Aimed(ts) = {h, c, e} /\ PhiEnds(ts) = {}
         /\ LoopEnds(ts) = {4}
  <1>1. WhileCalls(h, c, e) \in Seq(Tasks(B))
    BY TaskTypes DEF WhileCalls
  <1>2. PhiEnds(WhileCalls(h, c, e)) = {} /\ LoopEnds(WhileCalls(h, c, e)) = {4}
    BY DEF WhileCalls, PhiEnds, LoopEnds, LoopEnd, Condition, InsertAt, Task, EndWhile
  <1> QED
    BY <1>1, <1>2, OpenedMember, AimedMember
    DEF WhileCalls, Linked, Closer, Opener, Distinct, Opens, Aims, Branching,
        Condition, InsertAt, Task, EndWhile

(* do: the body, and what comes behind it. *)
LEMMA DoCallsFit ==
  ASSUME NEW B, NEW c \in B
  PROVE  LET ts == DoCalls(c) IN
         /\ ts \in Seq(Tasks(B)) /\ ts # <<>> /\ Len(ts) = 2
         /\ Linked(ts) /\ ~Closer(ts[Len(ts)]) /\ ~Opener(ts[1])
         /\ Distinct(ts) /\ Opened(ts) = {}
         /\ Aimed(ts) = {c} /\ PhiEnds(ts) = {}
         /\ LoopEnds(ts) = {2}
  <1>1. DoCalls(c) \in Seq(Tasks(B))
    BY TaskTypes DEF DoCalls
  <1>2. PhiEnds(DoCalls(c)) = {} /\ LoopEnds(DoCalls(c)) = {2}
    BY DEF DoCalls, PhiEnds, LoopEnds, LoopEnd, Task, DoTest
  <1> QED
    BY <1>1, <1>2, OpenedMember, AimedMember
    DEF DoCalls, Linked, Closer, Opener, Distinct, Opens, Aims, Branching, Task, DoTest

(* The end of a do: the condition leads back to the body or on. *)
LEMMA EndDoCallsFit ==
  ASSUME NEW B, NEW c \in B, NEW e \in B
  PROVE  LET ts == EndDoCalls(c, e) IN
         /\ ts \in Seq(Tasks(B)) /\ ts # <<>> /\ Len(ts) = 2
         /\ Linked(ts) /\ ~Closer(ts[Len(ts)]) /\ ~Opener(ts[1])
         /\ Distinct(ts) /\ Opened(ts) = {e}
         /\ Aimed(ts) = {c, e} /\ PhiEnds(ts) = {}
         /\ LoopEnds(ts) = {}
  <1> DEFINE ts == EndDoCalls(c, e)
  <1>1. ts \in Seq(Tasks(B))
    <2>1. Condition(c, e) \in Tasks(B) /\ InsertAt(e) \in Tasks(B)
      BY TaskTypes
    <2> QED
      BY <2>1 DEF EndDoCalls
  <1>2. PhiEnds(ts) = {} /\ LoopEnds(ts) = {}
    BY DEF EndDoCalls, PhiEnds, LoopEnds, LoopEnd, Condition, InsertAt
  <1>3. /\ ts # <<>> /\ Len(ts) = 2
        /\ Linked(ts) /\ ~Closer(ts[Len(ts)]) /\ ~Opener(ts[1])
    BY DEF EndDoCalls, Linked, Closer, Opener, Condition, InsertAt
  <1>4. Distinct(ts)
    BY DEF EndDoCalls, Distinct, Opens, Condition, InsertAt
  <1>5. Opened(ts) = {e}
    BY OpenedMember DEF EndDoCalls, Opens, Condition, InsertAt
  <1>6. Aimed(ts) = {c, e}
    BY AimedMember DEF EndDoCalls, Aims, Branching, Condition, InsertAt
  <1> QED
    BY <1>1, <1>2, <1>3, <1>4, <1>5, <1>6

(* The calls of an if statement. *)
IfCalls(c, a, e) ==
  <<Condition(c, a), InsertAt(c), Task("statement"), Connect(e),
    ConnectFrom(a, e), InsertAt(e)>>
IfElseCalls(c, a, e) ==
  <<Condition(c, a), InsertAt(c), Task("statement"), Connect(e),
    InsertAt(a), Task("statement"), Connect(e), InsertAt(e)>>

(* if: both arms are opened, the empty one is ended by connectBlocks. *)
LEMMA IfCallsFit ==
  ASSUME NEW B, NEW c \in B, NEW a \in B, NEW e \in B, c # e, a # e, c # a
  PROVE  LET ts == IfCalls(c, a, e) IN
         /\ ts \in Seq(Tasks(B)) /\ ts # <<>> /\ Len(ts) = 6
         /\ Linked(ts) /\ ~Closer(ts[Len(ts)]) /\ ~Opener(ts[1])
         /\ Distinct(ts) /\ Opened(ts) = {c, a, e}
         /\ Aimed(ts) = {c, a, e} /\ PhiEnds(ts) = {}
         /\ LoopEnds(ts) = {}
  <1> DEFINE ts == IfCalls(c, a, e)
  <1>1. ts \in Seq(Tasks(B))
    <2>1. Condition(c, a) \in Tasks(B) /\ ConnectFrom(a, e) \in Tasks(B)
      BY TaskTypes
    <2>2. /\ InsertAt(c) \in Tasks(B) /\ InsertAt(e) \in Tasks(B)
          /\ Connect(e) \in Tasks(B) /\ Task("statement") \in Tasks(B)
      BY TaskTypes
    <2> QED
      BY <2>1, <2>2 DEF IfCalls
  <1>2. PhiEnds(ts) = {} /\ LoopEnds(ts) = {}
    BY DEF IfCalls, PhiEnds, LoopEnds, LoopEnd, Condition, InsertAt, Task, Connect, ConnectFrom
  <1>3. /\ ts # <<>> /\ Len(ts) = 6
        /\ Linked(ts) /\ ~Closer(ts[Len(ts)]) /\ ~Opener(ts[1])
    BY DEF IfCalls, Linked, Closer, Opener, Condition, InsertAt, Task, Connect, ConnectFrom
  <1>4. Distinct(ts)
    BY DEF IfCalls, Distinct, Opens, Condition, InsertAt, Task, Connect, ConnectFrom
  <1>5. Opened(ts) = {c, a, e}
    BY OpenedMember DEF IfCalls, Opens, Condition, InsertAt, Task, Connect, ConnectFrom
  <1>6. Aimed(ts) = {c, a, e}
    BY AimedMember DEF IfCalls, Aims, Branching, Condition, InsertAt, Task, Connect, ConnectFrom
  <1> QED
    BY <1>1, <1>2, <1>3, <1>4, <1>5, <1>6

(* if ... else: each arm is opened and ended by calls of its own. *)
LEMMA IfElseCallsFit ==
  ASSUME NEW B, NEW c \in B, NEW a \in B, NEW e \in B, c # e, a # e, c # a
  PROVE  LET ts == IfElseCalls(c, a, e) IN
         /\ ts \in Seq(Tasks(B)) /\ ts # <<>> /\ Len(ts) = 8
         /\ Linked(ts) /\ ~Closer(ts[Len(ts)]) /\ ~Opener(ts[1])
         /\ Distinct(ts) /\ Opened(ts) = {c, a, e}
         /\ Aimed(ts) = {c, a, e} /\ PhiEnds(ts) = {}
         /\ LoopEnds(ts) = {}
  <1> DEFINE ts == IfElseCalls(c, a, e)
  <1>1. ts \in Seq(Tasks(B))
    BY TaskTypes DEF IfElseCalls
  <1>2. PhiEnds(ts) = {} /\ LoopEnds(ts) = {}
    BY DEF IfElseCalls, PhiEnds, LoopEnds, LoopEnd, Condition, InsertAt, Task, Connect
  <1>3. /\ ts # <<>> /\ Len(ts) = 8
        /\ Linked(ts) /\ ~Closer(ts[Len(ts)]) /\ ~Opener(ts[1])
    BY DEF IfElseCalls, Linked, Closer, Opener, Condition, InsertAt, Task, Connect
  <1>4. Distinct(ts)
    BY DEF IfElseCalls, Distinct, Opens, Condition, InsertAt, Task, Connect
  <1>5. Opened(ts) = {c, a, e}
    BY OpenedMember DEF IfElseCalls, Opens, Condition, InsertAt, Task, Connect
  <1>6. Aimed(ts) = {c, a, e}
    BY AimedMember DEF IfElseCalls, Aims, Branching, Condition, InsertAt, Task, Connect
  <1> QED
    BY <1>1, <1>2, <1>3, <1>4, <1>5, <1>6

(* The calls of an operator in a condition that goes to t or to f. *)
AndCalls(x, t, f) == <<Condition(x, f), InsertAt(x), Condition(t, f)>>
OrCalls(x, t, f)  == <<Condition(t, x), InsertAt(x), Condition(t, f)>>
NotCalls(t, f)    == <<Condition(f, t)>>
TernaryCalls(x, y, t, f) ==
  <<Condition(x, y), InsertAt(x), Condition(t, f), InsertAt(y), Condition(t, f)>>
Branch(t, f)      == [do |-> "conditionalBranch", true |-> t, false |-> f]
LeafCalls(t, f)   == <<Task("rvalue"), Branch(t, f)>>

(* &&: the second operand is tested in the block between the two. *)
LEMMA AndCallsFit ==
  ASSUME NEW B, NEW x \in B, NEW t \in B, NEW f \in B
  PROVE  LET ts == AndCalls(x, t, f) IN
         /\ ts \in Seq(Tasks(B)) /\ ts # <<>> /\ Len(ts) = 3
         /\ Linked(ts) /\ Closer(ts[Len(ts)]) /\ ~Opener(ts[1])
         /\ Distinct(ts) /\ Opened(ts) = {x}
         /\ Aimed(ts) = {x, t, f} /\ PhiEnds(ts) = {}
         /\ LoopEnds(ts) = {}
  <1> DEFINE ts == AndCalls(x, t, f)
  <1>1. ts \in Seq(Tasks(B))
    <2>1. Condition(x, f) \in Tasks(B) /\ InsertAt(x) \in Tasks(B) /\ Condition(t, f) \in Tasks(B)
      BY TaskTypes
    <2> QED
      BY <2>1 DEF AndCalls
  <1>2. PhiEnds(ts) = {} /\ LoopEnds(ts) = {}
    BY DEF AndCalls, PhiEnds, LoopEnds, LoopEnd, Condition, InsertAt
  <1>3. /\ ts # <<>> /\ Len(ts) = 3
        /\ Linked(ts) /\ Closer(ts[Len(ts)]) /\ ~Opener(ts[1])
    BY DEF AndCalls, Linked, Closer, Opener, Condition, InsertAt
  <1>4. Distinct(ts)
    BY DEF AndCalls, Distinct, Opens, Condition, InsertAt
  <1>5. Opened(ts) = {x}
    BY OpenedMember DEF AndCalls, Opens, Condition, InsertAt
  <1>6. Aimed(ts) = {x, t, f}
    BY AimedMember DEF AndCalls, Aims, Branching, Condition, InsertAt
  <1> QED
    BY <1>1, <1>2, <1>3, <1>4, <1>5, <1>6

(* ||: likewise, with the targets of the first operand exchanged. *)
LEMMA OrCallsFit ==
  ASSUME NEW B, NEW x \in B, NEW t \in B, NEW f \in B
  PROVE  LET ts == OrCalls(x, t, f) IN
         /\ ts \in Seq(Tasks(B)) /\ ts # <<>> /\ Len(ts) = 3
         /\ Linked(ts) /\ Closer(ts[Len(ts)]) /\ ~Opener(ts[1])
         /\ Distinct(ts) /\ Opened(ts) = {x}
         /\ Aimed(ts) = {x, t, f} /\ PhiEnds(ts) = {}
         /\ LoopEnds(ts) = {}
  <1> DEFINE ts == OrCalls(x, t, f)
  <1>1. ts \in Seq(Tasks(B))
    <2>1. Condition(t, x) \in Tasks(B) /\ InsertAt(x) \in Tasks(B) /\ Condition(t, f) \in Tasks(B)
      BY TaskTypes
    <2> QED
      BY <2>1 DEF OrCalls
  <1>2. PhiEnds(ts) = {} /\ LoopEnds(ts) = {}
    BY DEF OrCalls, PhiEnds, LoopEnds, LoopEnd, Condition, InsertAt
  <1>3. /\ ts # <<>> /\ Len(ts) = 3
        /\ Linked(ts) /\ Closer(ts[Len(ts)]) /\ ~Opener(ts[1])
    BY DEF OrCalls, Linked, Closer, Opener, Condition, InsertAt
  <1>4. Distinct(ts)
    BY DEF OrCalls, Distinct, Opens, Condition, InsertAt
  <1>5. Opened(ts) = {x}
    BY OpenedMember DEF OrCalls, Opens, Condition, InsertAt
  <1>6. Aimed(ts) = {x, t, f}
    BY AimedMember DEF OrCalls, Aims, Branching, Condition, InsertAt
  <1> QED
    BY <1>1, <1>2, <1>3, <1>4, <1>5, <1>6

(* !: one condition with the targets exchanged. *)
LEMMA NotCallsFit ==
  ASSUME NEW B, NEW t \in B, NEW f \in B
  PROVE  LET ts == NotCalls(t, f) IN
         /\ ts \in Seq(Tasks(B)) /\ ts # <<>> /\ Len(ts) = 1
         /\ Linked(ts) /\ Closer(ts[Len(ts)]) /\ ~Opener(ts[1])
         /\ Distinct(ts) /\ Opened(ts) = {}
         /\ Aimed(ts) = {t, f} /\ PhiEnds(ts) = {}
         /\ LoopEnds(ts) = {}
  <1> DEFINE ts == NotCalls(t, f)
  <1>1. ts \in Seq(Tasks(B))
    <2>1. Condition(f, t) \in Tasks(B)
      BY TaskTypes
    <2> QED
      BY <2>1 DEF NotCalls
  <1>2. PhiEnds(ts) = {} /\ LoopEnds(ts) = {}
    BY DEF NotCalls, PhiEnds, LoopEnds, LoopEnd, Condition
  <1>3. /\ ts # <<>> /\ Len(ts) = 1
        /\ Linked(ts) /\ Closer(ts[Len(ts)]) /\ ~Opener(ts[1])
    BY DEF NotCalls, Linked, Closer, Opener, Condition
  <1>4. Distinct(ts)
    BY DEF NotCalls, Distinct, Opens, Condition
  <1>5. Opened(ts) = {}
    BY OpenedMember DEF NotCalls, Opens, Condition
  <1>6. Aimed(ts) = {t, f}
    BY AimedMember DEF NotCalls, Aims, Branching, Condition
  <1> QED
    BY <1>1, <1>2, <1>3, <1>4, <1>5, <1>6

(* ?: as a condition: each arm is tested in a block of its own, with the *)
(* same two targets.                                                     *)
LEMMA TernaryCallsFit ==
  ASSUME NEW B, NEW x \in B, NEW y \in B, NEW t \in B, NEW f \in B, x # y
  PROVE  LET ts == TernaryCalls(x, y, t, f) IN
         /\ ts \in Seq(Tasks(B)) /\ ts # <<>> /\ Len(ts) = 5
         /\ Linked(ts) /\ Closer(ts[Len(ts)]) /\ ~Opener(ts[1])
         /\ Distinct(ts) /\ Opened(ts) = {x, y}
         /\ Aimed(ts) = {x, y, t, f} /\ PhiEnds(ts) = {}
         /\ LoopEnds(ts) = {}
  <1> DEFINE ts == TernaryCalls(x, y, t, f)
  <1>1. ts \in Seq(Tasks(B))
    <2>1. /\ Condition(x, y) \in Tasks(B) /\ Condition(t, f) \in Tasks(B)
          /\ InsertAt(x) \in Tasks(B) /\ InsertAt(y) \in Tasks(B)
      BY TaskTypes
    <2> QED
      BY <2>1 DEF TernaryCalls
  <1>2. PhiEnds(ts) = {} /\ LoopEnds(ts) = {}
    BY DEF TernaryCalls, PhiEnds, LoopEnds, LoopEnd, Condition, InsertAt
  <1>3. /\ ts # <<>> /\ Len(ts) = 5
        /\ Linked(ts) /\ Closer(ts[Len(ts)]) /\ ~Opener(ts[1])
    BY DEF TernaryCalls, Linked, Closer, Opener, Condition, InsertAt
  <1>4. Distinct(ts)
    BY DEF TernaryCalls, Distinct, Opens, Condition, InsertAt
  <1>5. Opened(ts) = {x, y}
    BY OpenedMember DEF TernaryCalls, Opens, Condition, InsertAt
  <1>6. Aimed(ts) = {x, y, t, f}
    BY AimedMember DEF TernaryCalls, Aims, Branching, Condition, InsertAt
  <1> QED
    BY <1>1, <1>2, <1>3, <1>4, <1>5, <1>6

(* Any other condition: its value, and the branch on it. *)
LEMMA LeafCallsFit ==
  ASSUME NEW B, NEW t \in B, NEW f \in B
  PROVE  LET ts == LeafCalls(t, f) IN
         /\ ts \in Seq(Tasks(B)) /\ ts # <<>> /\ Len(ts) = 2
         /\ Linked(ts) /\ Closer(ts[Len(ts)]) /\ ~Opener(ts[1])
         /\ Distinct(ts) /\ Opened(ts) = {}
         /\ Aimed(ts) = {t, f} /\ PhiEnds(ts) = {}
         /\ LoopEnds(ts) = {}
  <1> DEFINE ts == LeafCalls(t, f)
  <1>1. ts \in Seq(Tasks(B))
    <2>1. Task("rvalue") \in Tasks(B) /\ Branch(t, f) \in Tasks(B)
      BY DEF Tasks, Task, Branch
    <2> QED
      BY <2>1 DEF LeafCalls
  <1>2. PhiEnds(ts) = {} /\ LoopEnds(ts) = {}
    BY DEF LeafCalls, PhiEnds, LoopEnds, LoopEnd, Task, Branch
  <1>3. /\ ts # <<>> /\ Len(ts) = 2
        /\ Linked(ts) /\ Closer(ts[Len(ts)]) /\ ~Opener(ts[1])
    BY DEF LeafCalls, Linked, Closer, Opener, Task, Branch
  <1>4. Distinct(ts)
    BY DEF LeafCalls, Distinct, Opens, Task, Branch
  <1>5. Opened(ts) = {}
    BY OpenedMember DEF LeafCalls, Opens, Task, Branch
  <1>6. Aimed(ts) = {t, f}
    BY AimedMember DEF LeafCalls, Aims, Branching, Task, Branch
  <1> QED
    BY <1>1, <1>2, <1>3, <1>4, <1>5, <1>6

(* The calls of a ternary operator that yields a value. *)
ValueCalls(c, a, e) ==
  <<Condition(c, a), InsertAt(c), Task("rvalue"), ConnectPhi(e),
    InsertAt(a), Task("rvalue"), ConnectPhi(e), InsertAt(e)>>

(* ?: as a value: the arms are opened, and the block of the phi node is *)
(* opened last, once both arms have been connected to it.               *)
LEMMA ValueCallsFit ==
  ASSUME NEW B, NEW c \in B, NEW a \in B, NEW e \in B, c # e, a # e, c # a
  PROVE  LET ts == ValueCalls(c, a, e) IN
         /\ ts \in Seq(Tasks(B)) /\ ts # <<>> /\ Len(ts) = 8
         /\ Linked(ts) /\ ~Closer(ts[Len(ts)]) /\ ~Opener(ts[1])
         /\ Distinct(ts) /\ Opened(ts) = {c, a, e}
         /\ Aimed(ts) = {c, a} /\ PhiEnds(ts) = {e}
         /\ LoopEnds(ts) = {}
  <1> DEFINE ts == ValueCalls(c, a, e)
  <1>1. ts \in Seq(Tasks(B))
    <2>1. /\ Condition(c, a) \in Tasks(B) /\ Task("rvalue") \in Tasks(B)
          /\ InsertAt(c) \in Tasks(B) /\ InsertAt(a) \in Tasks(B)
          /\ InsertAt(e) \in Tasks(B) /\ ConnectPhi(e) \in Tasks(B)
      BY TaskTypes
    <2> QED
      BY <2>1 DEF ValueCalls
  <1>2. PhiEnds(ts) = {e} /\ LoopEnds(ts) = {}
    BY DEF ValueCalls, PhiEnds, LoopEnds, LoopEnd, Condition, InsertAt, Task, ConnectPhi
  <1>3. /\ ts # <<>> /\ Len(ts) = 8
        /\ Linked(ts) /\ ~Closer(ts[Len(ts)]) /\ ~Opener(ts[1])
    BY DEF ValueCalls, Linked, Closer, Opener, Condition, InsertAt, Task, ConnectPhi
  <1>4. Distinct(ts)
    BY DEF ValueCalls, Distinct, Opens, Condition, InsertAt, Task, ConnectPhi
  <1>5. Opened(ts) = {c, a, e}
    BY OpenedMember DEF ValueCalls, Opens, Condition, InsertAt, Task, ConnectPhi
  <1>6. Aimed(ts) = {c, a}
    BY AimedMember DEF ValueCalls, Aims, Branching, Condition, InsertAt, Task, ConnectPhi
  <1> QED
    BY <1>1, <1>2, <1>3, <1>4, <1>5, <1>6

-----------------------------------------------------------------------------
(* Each action as a step of the above kind.                                *)
LEMMA TaskDos ==
  \A do : Task(do).do = do
  BY DEF Task

(* Blocks, expressions and returns only look at the syntax tree. *)
LEMMA QuietSteps ==
  ASSUME TypeInv,
         \/ CompoundStatement \/ NestedCompoundStatement \/ ExpressionStatement
         \/ ReturnStatement \/ RvalueLeaf \/ RvalueBinary
  PROVE  /\ \E ts : Plain(ts) /\ Emission(0, Null, <<>>, Null, ts)
         /\ UNCHANGED <<ir, points, history>>
         /\ Head(agenda).do \in {"compound", "statement", "rvalue"}
  <1> DEFINE B == 1 .. Len(blocks)
  <1>1. /\ \A do \in {"compound", "statement", "rvalue", "return"} : Task(do) \in Tasks(B)
        /\ agenda \in Seq(Tasks(B))
    BY TypeOfBlocks DEF TypeInv, Tasks, Task
  <1>2. /\ <<>> \in Seq(Tasks(B)) /\ Plain(<<>>)
        /\ <<Task("compound")>> \in Seq(Tasks(B)) /\ Plain(<<Task("compound")>>)
        /\ <<Task("rvalue")>> \in Seq(Tasks(B)) /\ Plain(<<Task("rvalue")>>)
        /\ <<Task("rvalue"), Task("return")>> \in Seq(Tasks(B))
        /\ Plain(<<Task("rvalue"), Task("return")>>)
        /\ <<Task("rvalue"), Task("rvalue")>> \in Seq(Tasks(B))
        /\ Plain(<<Task("rvalue"), Task("rvalue")>>)
        /\ <<Task("statement"), Task("compound")>> \in Seq(Tasks(B))
        /\ Plain(<<Task("statement"), Task("compound")>>)
    BY <1>1, TaskDos DEF Plain
  <1> HIDE DEF B
  <1>3. ASSUME NEW ts \in Seq(Tasks(B)), Plain(ts), agenda # <<>>,
               agenda' = Replace(agenda, ts), UNCHANGED <<ir, points, history>>
        PROVE  /\ \E us : Plain(us) /\ Emission(0, Null, <<>>, Null, us)
               /\ UNCHANGED <<ir, points, history>>
    BY <1>3, EmissionQuiet DEF B, ir
  <1>4. CASE CompoundStatement /\ agenda' = <<Task("statement")>> \o agenda
    <2>1. agenda # <<>> /\ Head(agenda).do = "compound"
      BY <1>4 DEF CompoundStatement, Calls
    <2>2. Head(agenda) = Task("compound")
      <3>1. Head(agenda) \in Tasks(B)
        BY <1>1, <2>1
      <3> QED
        BY <2>1, <3>1 DEF Tasks, Task
    <2>3. agenda' = Replace(agenda, <<Task("statement"), Task("compound")>>)
      <3>1. agenda = <<Head(agenda)>> \o Tail(agenda)
        BY <1>1, <2>1
      <3> QED
        BY <1>1, <1>4, <2>2, <3>1 DEF Replace
    <2> QED
      BY <1>2, <1>3, <1>4, <2>1, <2>3 DEF CompoundStatement
  <1>5. CASE CompoundStatement /\ Proceed(<<>>)
    BY <1>2, <1>3, <1>5 DEF CompoundStatement, Calls, Proceed, Replace
  <1>6. CASE NestedCompoundStatement
    BY <1>2, <1>3, <1>6 DEF NestedCompoundStatement, Calls, Proceed, Replace
  <1>7. CASE ExpressionStatement
    BY <1>2, <1>3, <1>7 DEF ExpressionStatement, Calls, Proceed, Replace
  <1>8. CASE ReturnStatement
    BY <1>2, <1>3, <1>8 DEF ReturnStatement, Calls, Proceed, Replace
  <1>9. CASE RvalueLeaf
    BY <1>2, <1>3, <1>9 DEF RvalueLeaf, Calls, Proceed, Replace
  <1>10. CASE RvalueBinary
    BY <1>2, <1>3, <1>10 DEF RvalueBinary, Calls, Proceed, Replace
  <1>11. CompoundStatement => \/ agenda' = <<Task("statement")>> \o agenda
                              \/ Proceed(<<>>)
    BY DEF CompoundStatement
  <1> QED
    BY <1>4, <1>5, <1>6, <1>7, <1>8, <1>9, <1>10, <1>11

(* return, break and continue end the current block and go on in a new one *)
(* that nothing leads to.                                                  *)
LEMMA JumpSteps ==
  ASSUME TypeInv, MakeReturn \/ BreakStatement \/ ContinueStatement
  PROVE  /\ \E succs : /\ Emission(1, insertBlock, succs, Null, <<>>)
                       /\ \/ succs = <<>>
                          \/ succs \in {<<breakPoint>>, <<continuePoint>>}
         /\ insertBlock' = Fresh(1)
         /\ Head(agenda).do \in {"return", "statement"}
         /\ UNCHANGED <<mapLabel, points, loops, loopBlocks, placed, gotos>>
  <1>1. agenda # <<>> /\ UNCHANGED currentFunction /\ agenda' = Replace(agenda, <<>>)
    BY DEF MakeReturn, BreakStatement, ContinueStatement, Jump, Calls, Proceed, Replace
  <1>2. /\ insertBlock \in Block /\ Len(blocks) \in Nat /\ Block = 1 .. Len(blocks)
        /\ {breakPoint, continuePoint} \subseteq Block \union {Null}
    BY <1>1, InBody, TypeParts DEF TypeInv, PlacesTyped
  <1>3. /\ <<>> \in Seq(Tasks(1 .. Len(blocks) + 1))
        /\ <<>> \in Seq(1 .. Len(blocks) + 1 \union {Null})
        /\ <<breakPoint>> \in Seq(1 .. Len(blocks) + 1 \union {Null})
        /\ <<continuePoint>> \in Seq(1 .. Len(blocks) + 1 \union {Null})
    BY <1>2
  <1>4. PICK succs \in {<<>>, <<breakPoint>>, <<continuePoint>>} :
          blocks' = Terminated(Created(1), insertBlock, succs)
    BY DEF MakeReturn, BreakStatement, ContinueStatement, Jump
  <1>5. succs \in Seq(1 .. Len(blocks) + 1 \union {Null})
    BY <1>3, <1>4
  <1>6. Emission(1, insertBlock, succs, Null, <<>>)
    BY <1>1, <1>2, <1>3, <1>4, <1>5, EmissionEnding
  <1>7. /\ insertBlock' = Fresh(1)
        /\ Head(agenda).do \in {"return", "statement"}
        /\ UNCHANGED <<mapLabel, points, loops, loopBlocks, placed, gotos>>
    BY DEF MakeReturn, BreakStatement, ContinueStatement, Jump, Calls, history
  <1> QED
    BY <1>4, <1>6, <1>7

(* while makes three blocks and enters the first. *)
LEMMA WhileStep ==
  ASSUME TypeInv, WhileStatement
  PROVE  /\ Emission(3, insertBlock, <<Fresh(1)>>, Null,
                     WhileCalls(Fresh(1), Fresh(2), Fresh(3)))
         /\ {Fresh(1), Fresh(2), Fresh(3)} \subseteq 1 .. Len(blocks) + 3
         /\ Head(agenda).do = "statement"
  <1>1. /\ agenda # <<>> /\ UNCHANGED currentFunction
        /\ agenda' = Replace(agenda, WhileCalls(Fresh(1), Fresh(2), Fresh(3)))
        /\ blocks' = Terminated(Created(3), insertBlock, <<Fresh(1)>>)
        /\ Head(agenda).do = "statement"
    BY DEF WhileStatement, Calls, Proceed, Replace, WhileCalls
  <1>2. insertBlock \in Block /\ Len(blocks) \in Nat
    BY <1>1, InBody
  <1>3. /\ {Fresh(1), Fresh(2), Fresh(3)} \subseteq 1 .. Len(blocks) + 3
        /\ Fresh(2) # Fresh(3)
    BY <1>2 DEF Fresh
  <1>4. WhileCalls(Fresh(1), Fresh(2), Fresh(3)) \in Seq(Tasks(1 .. Len(blocks) + 3))
    BY <1>3, WhileCallsFit
  <1>5. <<Fresh(1)>> \in Seq(1 .. Len(blocks) + 3 \union {Null})
    BY <1>3
  <1> QED
    BY <1>1, <1>2, <1>3, <1>4, <1>5, EmissionEnding

(* The end of its body leads back to the header. *)
LEMMA EndWhileStep ==
  ASSUME TypeInv, EndWhileStatement
  PROVE  /\ Emission(0, insertBlock, <<Head(agenda).header>>, Null, <<>>)
         /\ Head(agenda).do = "endWhile"
         /\ Head(agenda).header \in Block /\ Head(agenda).end \in Block
         /\ insertBlock' = Head(agenda).end
  <1>1. /\ agenda # <<>> /\ UNCHANGED currentFunction
        /\ agenda' = Replace(agenda, <<>>)
        /\ blocks' = Terminated(blocks, insertBlock, <<Head(agenda).header>>)
        /\ Head(agenda).do = "endWhile"
        /\ insertBlock' = Head(agenda).end
    BY DEF EndWhileStatement, Calls, Proceed, Replace, call
  <1>2. /\ insertBlock \in Block /\ Len(blocks) \in Nat /\ Block = 1 .. Len(blocks)
        /\ Head(agenda) \in Tasks(Block)
    BY <1>1, InBody
  <1>3. Head(agenda).header \in Block /\ Head(agenda).end \in Block
    BY <1>1, <1>2, TaskFields
  <1>4. /\ <<Head(agenda).header>> \in Seq(1 .. Len(blocks) + 0 \union {Null})
        /\ <<>> \in Seq(Tasks(1 .. Len(blocks) + 0))
        /\ blocks' = Terminated(Created(0), insertBlock, <<Head(agenda).header>>)
    BY <1>1, <1>2, <1>3, CreatedNone DEF TypeInv
  <1> QED
    BY <1>1, <1>2, <1>3, <1>4, EmissionEnding

(* do makes the block of its body and enters it. *)
LEMMA DoStep ==
  ASSUME TypeInv, DoStatement
  PROVE  /\ Emission(1, insertBlock, <<Fresh(1)>>, Null, DoCalls(Fresh(1)))
         /\ Fresh(1) \in 1 .. Len(blocks) + 1
         /\ Head(agenda).do = "statement"
  <1>1. /\ agenda # <<>> /\ UNCHANGED currentFunction
        /\ agenda' = Replace(agenda, DoCalls(Fresh(1)))
        /\ blocks' = Terminated(Created(1), insertBlock, <<Fresh(1)>>)
        /\ Head(agenda).do = "statement"
    BY DEF DoStatement, Calls, Proceed, Replace, DoCalls
  <1>2. insertBlock \in Block /\ Len(blocks) \in Nat
    BY <1>1, InBody
  <1>3. Fresh(1) \in 1 .. Len(blocks) + 1
    BY <1>2 DEF Fresh
  <1>4. DoCalls(Fresh(1)) \in Seq(Tasks(1 .. Len(blocks) + 1))
    BY <1>3, DoCallsFit
  <1>5. <<Fresh(1)>> \in Seq(1 .. Len(blocks) + 1 \union {Null})
    BY <1>3
  <1> QED
    BY <1>1, <1>2, <1>3, <1>4, <1>5, EmissionEnding

(* Behind the body the block of the condition and the one after the loop *)
(* are made.                                                             *)
LEMMA EndDoStep ==
  ASSUME TypeInv, EndDoStatement
  PROVE  /\ Emission(2, insertBlock, <<Fresh(1)>>, Null,
                     EndDoCalls(Head(agenda).content, Fresh(2)))
         /\ {Fresh(1), Fresh(2), Head(agenda).content} \subseteq 1 .. Len(blocks) + 2
         /\ Head(agenda).content \in Block
         /\ Head(agenda).do = "doTest"
  <1>1. /\ agenda # <<>> /\ UNCHANGED currentFunction
        /\ agenda' = Replace(agenda, EndDoCalls(Head(agenda).content, Fresh(2)))
        /\ blocks' = Terminated(Created(2), insertBlock, <<Fresh(1)>>)
        /\ Head(agenda).do = "doTest"
    BY DEF EndDoStatement, Calls, Proceed, Replace, EndDoCalls, call
  <1>2. /\ insertBlock \in Block /\ Len(blocks) \in Nat /\ Block = 1 .. Len(blocks)
        /\ Head(agenda) \in Tasks(Block)
    BY <1>1, InBody
  <1>3. /\ {Fresh(1), Fresh(2), Head(agenda).content} \subseteq 1 .. Len(blocks) + 2
        /\ Head(agenda).content \in Block
    BY <1>1, <1>2, TaskFields DEF Fresh
  <1>4. EndDoCalls(Head(agenda).content, Fresh(2)) \in Seq(Tasks(1 .. Len(blocks) + 2))
    BY <1>3, EndDoCallsFit
  <1>5. <<Fresh(1)>> \in Seq(1 .. Len(blocks) + 2 \union {Null})
    BY <1>3
  <1> QED
    BY <1>1, <1>2, <1>3, <1>4, <1>5, EmissionEnding

(* The three parts of an if statement's calls as one sequence. *)
LEMMA SelectionCalls ==
  ASSUME NEW B, NEW c \in B, NEW a \in B, NEW e \in B
  PROVE  /\ <<Condition(c, a), InsertAt(c), Task("statement"), Connect(e)>>
              \o <<InsertAt(a), Task("statement"), Connect(e)>> \o <<InsertAt(e)>>
              = IfElseCalls(c, a, e)
         /\ <<Condition(c, a), InsertAt(c), Task("statement"), Connect(e)>>
              \o <<ConnectFrom(a, e)>> \o <<InsertAt(e)>>
              = IfCalls(c, a, e)
  <1> DEFINE S == Tasks(B)
             first == <<Condition(c, a), InsertAt(c), Task("statement"), Connect(e)>>
             other == <<InsertAt(a), Task("statement"), Connect(e)>>
             none  == <<ConnectFrom(a, e)>>
             last  == <<InsertAt(e)>>
             long  == first \o other \o last
             short == first \o none \o last
  <1>1. /\ Condition(c, a) \in S /\ ConnectFrom(a, e) \in S
        /\ InsertAt(a) \in S /\ InsertAt(c) \in S /\ InsertAt(e) \in S
        /\ Task("statement") \in S /\ Connect(e) \in S
    <2>1. Condition(c, a) \in S /\ ConnectFrom(a, e) \in S
      BY TaskTypes
    <2>2. InsertAt(a) \in S /\ InsertAt(c) \in S /\ InsertAt(e) \in S
      BY TaskTypes
    <2>3. Task("statement") \in S /\ Connect(e) \in S
      BY TaskTypes
    <2> QED
      BY <2>1, <2>2, <2>3
  <1> HIDE DEF S
  <1>2. /\ first \in Seq(S) /\ other \in Seq(S) /\ none \in Seq(S) /\ last \in Seq(S)
        /\ IfElseCalls(c, a, e) \in Seq(S) /\ Len(IfElseCalls(c, a, e)) = 8
        /\ IfCalls(c, a, e) \in Seq(S) /\ Len(IfCalls(c, a, e)) = 6
    BY <1>1 DEF IfElseCalls, IfCalls
  <1>3. long \in Seq(S) /\ Len(long) = 8
    BY <1>2, ConcatProperties
  <1>4. \A i \in 1 .. 8 : long[i] = IfElseCalls(c, a, e)[i]
    BY <1>2, ConcatProperties DEF IfElseCalls
  <1>5. long = IfElseCalls(c, a, e)
    BY <1>2, <1>3, <1>4, SeqEqual
  <1>6. short \in Seq(S) /\ Len(short) = 6
    BY <1>2, ConcatProperties
  <1>7. \A i \in 1 .. 6 : short[i] = IfCalls(c, a, e)[i]
    BY <1>2, ConcatProperties DEF IfCalls
  <1>8. short = IfCalls(c, a, e)
    BY <1>2, <1>6, <1>7, SeqEqual
  <1> QED
    BY <1>5, <1>8

(* if makes four blocks, whether or not there is an else. *)
LEMMA SelectionStep ==
  ASSUME TypeInv, NEW hasElse \in BOOLEAN, SelectionStatement(hasElse)
  PROVE  /\ \E ts \in {IfCalls(Fresh(2), Fresh(3), Fresh(4)),
                       IfElseCalls(Fresh(2), Fresh(3), Fresh(4))} :
              Emission(4, insertBlock, <<Fresh(1)>>, Null, ts)
         /\ {Fresh(1), Fresh(2), Fresh(3), Fresh(4)} \subseteq 1 .. Len(blocks) + 4
         /\ Head(agenda).do = "statement"
  <1>1. /\ agenda # <<>> /\ UNCHANGED currentFunction
        /\ blocks' = Terminated(Created(4), insertBlock, <<Fresh(1)>>)
        /\ Head(agenda).do = "statement"
    BY DEF SelectionStatement, Calls
  <1>2. insertBlock \in Block /\ Len(blocks) \in Nat
    BY <1>1, InBody
  <1>3. /\ {Fresh(1), Fresh(2), Fresh(3), Fresh(4)} \subseteq 1 .. Len(blocks) + 4
        /\ Fresh(2) # Fresh(3) /\ Fresh(3) # Fresh(4) /\ Fresh(2) # Fresh(4)
    BY <1>2 DEF Fresh
  <1>4. \/ agenda' = Replace(agenda, IfElseCalls(Fresh(2), Fresh(3), Fresh(4)))
        \/ agenda' = Replace(agenda, IfCalls(Fresh(2), Fresh(3), Fresh(4)))
    BY <1>3, SelectionCalls DEF SelectionStatement, Proceed, Replace
  <1>5. /\ IfCalls(Fresh(2), Fresh(3), Fresh(4)) \in Seq(Tasks(1 .. Len(blocks) + 4))
        /\ IfElseCalls(Fresh(2), Fresh(3), Fresh(4)) \in Seq(Tasks(1 .. Len(blocks) + 4))
    BY <1>3, IfCallsFit, IfElseCallsFit
  <1>6. <<Fresh(1)>> \in Seq(1 .. Len(blocks) + 4 \union {Null})
    BY <1>3
  <1>7. CASE agenda' = Replace(agenda, IfElseCalls(Fresh(2), Fresh(3), Fresh(4)))
    BY <1>1, <1>2, <1>3, <1>5, <1>6, <1>7, EmissionEnding
  <1>8. CASE agenda' = Replace(agenda, IfCalls(Fresh(2), Fresh(3), Fresh(4)))
    BY <1>1, <1>2, <1>3, <1>5, <1>6, <1>8, EmissionEnding
  <1> QED
    BY <1>4, <1>7, <1>8

(* The block of a label, which a goto or the statement itself has made. *)
LEMMA LabelStep ==
  ASSUME TypeInv, NEW l \in Labels, LabeledStatement(l)
  PROVE  \E n \in {0, 1} : \E b \in 1 .. Len(blocks) + n :
           /\ Emission(n, insertBlock, <<b>>, Null, <<Task("statement")>>)
           /\ \/ n = 0 /\ b = mapLabel[l] /\ b # Null
              \/ n = 1 /\ b = Fresh(1) /\ mapLabel[l] = Null
           /\ insertBlock' = b
           /\ mapLabel' = [mapLabel EXCEPT ![l] = b]
           /\ placed' = [placed EXCEPT ![l] = b]
           /\ placed[l] = Null
           /\ UNCHANGED <<currentFunction, points, unit, statements, operators,
                          loops, loopBlocks, jumps, gotos>>
           /\ Head(agenda).do = "statement"
  <1> DEFINE known == mapLabel[l] # Null
             n == IF known THEN 0 ELSE 1
             b == IF known THEN mapLabel[l] ELSE Fresh(1)
  <1>1. /\ agenda # <<>> /\ UNCHANGED currentFunction
        /\ agenda' = Replace(agenda, <<Task("statement")>>)
        /\ blocks' = Terminated(Created(n), insertBlock, <<b>>)
        /\ Head(agenda).do = "statement"
    BY DEF LabeledStatement, Calls, Proceed, Replace
  <1>2. /\ insertBlock' = b
        /\ mapLabel' = [mapLabel EXCEPT ![l] = b]
        /\ placed' = [placed EXCEPT ![l] = b]
        /\ placed[l] = Null
        /\ UNCHANGED <<currentFunction, points, unit, statements, operators,
                       loops, loopBlocks, jumps, gotos>>
    BY DEF LabeledStatement
  <1>3. /\ insertBlock \in Block /\ Len(blocks) \in Nat /\ Block = 1 .. Len(blocks)
        /\ mapLabel[l] \in Block \union {Null}
    BY <1>1, InBody, TypeParts DEF TypeInv, PlacesTyped
  <1>4. n \in {0, 1} /\ n \in Nat /\ b \in 1 .. Len(blocks) + n
    BY <1>3 DEF Fresh
  <1>5. <<Task("statement")>> \in Seq(Tasks(1 .. Len(blocks) + n))
    BY DEF Tasks, Task
  <1>6. <<b>> \in Seq(1 .. Len(blocks) + n \union {Null})
    BY <1>4
  <1>7. \/ n = 0 /\ b = mapLabel[l] /\ b # Null
        \/ n = 1 /\ b = Fresh(1) /\ mapLabel[l] = Null
    OBVIOUS
  <1> HIDE DEF n, b
  <1>8. Emission(n, insertBlock, <<b>>, Null, <<Task("statement")>>)
    BY <1>1, <1>3, <1>4, <1>5, <1>6, EmissionEnding
  <1> QED
    BY <1>1, <1>2, <1>4, <1>7, <1>8

(* goto ends the current block by a branch to the block of its label, which *)
(* it makes if nobody has, and goes on in a new one.                        *)
LEMMA GotoStep ==
  ASSUME TypeInv, NEW l \in Labels, GotoStatement(l)
  PROVE  \E n \in {1, 2} : \E b \in 1 .. Len(blocks) + n :
           /\ Emission(n, insertBlock, <<b>>, Null, <<>>)
           /\ \/ n = 1 /\ b = mapLabel[l] /\ b # Null
              \/ n = 2 /\ b = Fresh(2) /\ mapLabel[l] = Null
           /\ insertBlock' = Fresh(1)
           /\ mapLabel' = [mapLabel EXCEPT ![l] = b]
           /\ gotos' = gotos \union {[label |-> l, to |-> b]}
           /\ UNCHANGED <<currentFunction, points, unit, statements, operators,
                          loops, loopBlocks, jumps, placed>>
           /\ Head(agenda).do = "statement"
  <1> DEFINE known == mapLabel[l] # Null
             n == IF known THEN 1 ELSE 2
             b == IF known THEN mapLabel[l] ELSE Fresh(2)
  <1>1. /\ agenda # <<>> /\ UNCHANGED currentFunction
        /\ agenda' = Replace(agenda, <<>>)
        /\ blocks' = Terminated(Created(n), insertBlock, <<b>>)
        /\ Head(agenda).do = "statement"
    BY DEF GotoStatement, Calls, Proceed, Replace
  <1>2. /\ insertBlock' = Fresh(1)
        /\ mapLabel' = [mapLabel EXCEPT ![l] = b]
        /\ gotos' = gotos \union {[label |-> l, to |-> b]}
        /\ UNCHANGED <<currentFunction, points, unit, statements, operators,
                       loops, loopBlocks, jumps, placed>>
    BY DEF GotoStatement
  <1>3. /\ insertBlock \in Block /\ Len(blocks) \in Nat /\ Block = 1 .. Len(blocks)
        /\ mapLabel[l] \in Block \union {Null}
    BY <1>1, InBody, TypeParts DEF TypeInv, PlacesTyped
  <1>4. n \in {1, 2} /\ n \in Nat /\ b \in 1 .. Len(blocks) + n
    BY <1>3 DEF Fresh
  <1>5. <<>> \in Seq(Tasks(1 .. Len(blocks) + n))
    OBVIOUS
  <1>6. <<b>> \in Seq(1 .. Len(blocks) + n \union {Null})
    BY <1>4
  <1>7. \/ n = 1 /\ b = mapLabel[l] /\ b # Null
        \/ n = 2 /\ b = Fresh(2) /\ mapLabel[l] = Null
    OBVIOUS
  <1> HIDE DEF n, b
  <1>8. Emission(n, insertBlock, <<b>>, Null, <<>>)
    BY <1>1, <1>3, <1>4, <1>5, <1>6, EmissionEnding
  <1> QED
    BY <1>1, <1>2, <1>4, <1>7, <1>8

(* The two targets of a condition. *)
LEMMA BranchTargets ==
  ASSUME TypeInv, agenda # <<>>, Branching(Head(agenda))
  PROVE  /\ Head(agenda).true \in Block /\ Head(agenda).false \in Block
         /\ [Head(agenda) EXCEPT !.do = "conditionalBranch"]
              = Branch(Head(agenda).true, Head(agenda).false)
  <1>1. Head(agenda) \in Tasks(Block)
    BY InBody
  <1>2. Head(agenda) \in [do : {"condition", "conditionalBranch"}, true : Block, false : Block]
    BY <1>1 DEF Tasks, Branching
  <1> QED
    BY <1>2 DEF Branch

Yes == Head(agenda).true
No  == Head(agenda).false

(* What replaces a condition, and the number of blocks it makes. *)
ConditionPlans ==
  {<<0, LeafCalls(Yes, No)>>, <<0, NotCalls(Yes, No)>>,
   <<1, AndCalls(Fresh(1), Yes, No)>>, <<1, OrCalls(Fresh(1), Yes, No)>>,
   <<2, TernaryCalls(Fresh(1), Fresh(2), Yes, No)>>}

(* A step of emit_condition makes blocks and ends none: its calls will. *)
LEMMA ConditionSteps ==
  ASSUME TypeInv,
         \/ ConditionLeaf \/ ConditionAnd \/ ConditionOr \/ ConditionNot
         \/ ConditionTernary
  PROVE  /\ \E p \in ConditionPlans : Emission(p[1], Null, <<>>, Null, p[2])
         /\ Head(agenda).do = "condition"
         /\ Yes \in Block /\ No \in Block
         /\ UNCHANGED <<currentFunction, insertBlock, mapLabel, points, unit,
                        statements, history>>
  <1>1. agenda # <<>> /\ Head(agenda).do = "condition" /\ UNCHANGED currentFunction
    BY DEF ConditionLeaf, ConditionAnd, ConditionOr, ConditionNot,
           ConditionTernary, ConditionOperator, Calls, ir
  <1>2. /\ Len(blocks) \in Nat /\ Block = 1 .. Len(blocks)
        /\ Yes \in Block /\ No \in Block
    BY <1>1, InBody, BranchTargets DEF Branching, Yes, No
  <1>3. UNCHANGED <<currentFunction, insertBlock, mapLabel, points, unit,
                    statements, history>>
    BY DEF ConditionLeaf, ConditionAnd, ConditionOr, ConditionNot,
           ConditionTernary, ConditionOperator, ir
  <1>4. ASSUME NEW n \in Nat, NEW ts \in Seq(Tasks(1 .. Len(blocks) + n)),
               agenda' = Replace(agenda, ts), blocks' = Created(n)
        PROVE  Emission(n, Null, <<>>, Null, ts)
    BY <1>1, <1>4, EmissionMaking
  <1>5. ASSUME NEW n \in Nat
        PROVE  /\ Yes \in 1 .. Len(blocks) + n
               /\ No \in 1 .. Len(blocks) + n
    BY <1>2
  <1>6. CASE ConditionLeaf
    <2>1. agenda' = Replace(agenda, LeafCalls(Yes, No)) /\ blocks' = Created(0)
      BY <1>1, <1>6, BranchTargets, CreatedNone
      DEF ConditionLeaf, Calls, Proceed, Replace, LeafCalls, ir, TypeInv, call,
          Branching, Yes, No
    <2>2. LeafCalls(Yes, No) \in Seq(Tasks(1 .. Len(blocks) + 0))
      BY <1>5, LeafCallsFit
    <2>3. Emission(0, Null, <<>>, Null, LeafCalls(Yes, No))
      BY <1>4, <2>1, <2>2
    <2> QED
      BY <1>1, <1>2, <1>3, <2>3 DEF ConditionPlans
  <1>7. CASE ConditionNot
    <2>1. agenda' = Replace(agenda, NotCalls(Yes, No)) /\ blocks' = Created(0)
      BY <1>7 DEF ConditionNot, ConditionOperator, Proceed, Replace, NotCalls,
                  call, Yes, No
    <2>2. NotCalls(Yes, No) \in Seq(Tasks(1 .. Len(blocks) + 0))
      BY <1>5, NotCallsFit
    <2>3. Emission(0, Null, <<>>, Null, NotCalls(Yes, No))
      BY <1>4, <2>1, <2>2
    <2> QED
      BY <1>1, <1>2, <1>3, <2>3 DEF ConditionPlans
  <1>8. Fresh(1) \in 1 .. Len(blocks) + 1
    BY <1>2 DEF Fresh
  <1>9. CASE ConditionAnd
    <2>1. agenda' = Replace(agenda, AndCalls(Fresh(1), Yes, No)) /\ blocks' = Created(1)
      BY <1>9 DEF ConditionAnd, ConditionOperator, Proceed, Replace, AndCalls,
                  call, Yes, No
    <2>2. AndCalls(Fresh(1), Yes, No) \in Seq(Tasks(1 .. Len(blocks) + 1))
      BY <1>5, <1>8, AndCallsFit
    <2>3. Emission(1, Null, <<>>, Null, AndCalls(Fresh(1), Yes, No))
      BY <1>4, <2>1, <2>2
    <2> QED
      BY <1>1, <1>2, <1>3, <2>3 DEF ConditionPlans
  <1>10. CASE ConditionOr
    <2>1. agenda' = Replace(agenda, OrCalls(Fresh(1), Yes, No)) /\ blocks' = Created(1)
      BY <1>10 DEF ConditionOr, ConditionOperator, Proceed, Replace, OrCalls,
                   call, Yes, No
    <2>2. OrCalls(Fresh(1), Yes, No) \in Seq(Tasks(1 .. Len(blocks) + 1))
      BY <1>5, <1>8, OrCallsFit
    <2>3. Emission(1, Null, <<>>, Null, OrCalls(Fresh(1), Yes, No))
      BY <1>4, <2>1, <2>2
    <2> QED
      BY <1>1, <1>2, <1>3, <2>3 DEF ConditionPlans
  <1>11. CASE ConditionTernary
    <2>1. /\ agenda' = Replace(agenda, TernaryCalls(Fresh(1), Fresh(2), Yes, No))
          /\ blocks' = Created(2)
      BY <1>11 DEF ConditionTernary, ConditionOperator, Proceed, Replace,
                   TernaryCalls, call, Yes, No
    <2>2. /\ Fresh(1) \in 1 .. Len(blocks) + 2 /\ Fresh(2) \in 1 .. Len(blocks) + 2
          /\ Fresh(1) # Fresh(2)
      BY <1>2 DEF Fresh
    <2>3. TernaryCalls(Fresh(1), Fresh(2), Yes, No) \in Seq(Tasks(1 .. Len(blocks) + 2))
      BY <1>5, <2>2, TernaryCallsFit
    <2>4. Emission(2, Null, <<>>, Null, TernaryCalls(Fresh(1), Fresh(2), Yes, No))
      BY <1>4, <2>1, <2>3
    <2> QED
      BY <1>1, <1>2, <1>3, <2>4 DEF ConditionPlans
  <1> QED
    BY <1>6, <1>7, <1>9, <1>10, <1>11

(* makeConditionalBranch ends the current block with two targets. *)
LEMMA BranchStep ==
  ASSUME TypeInv, MakeConditionalBranch
  PROVE  /\ Emission(0, insertBlock, <<Yes, No>>, Null, <<>>)
         /\ Head(agenda).do = "conditionalBranch"
         /\ Yes \in Block /\ No \in Block
  <1>1. /\ agenda # <<>> /\ UNCHANGED currentFunction
        /\ agenda' = Replace(agenda, <<>>)
        /\ blocks' = Terminated(blocks, insertBlock, <<Yes, No>>)
        /\ Head(agenda).do = "conditionalBranch"
    BY DEF MakeConditionalBranch, Calls, Proceed, Replace, call, Yes, No
  <1>2. /\ insertBlock \in Block /\ Len(blocks) \in Nat /\ Block = 1 .. Len(blocks)
        /\ Yes \in Block /\ No \in Block
    BY <1>1, InBody, BranchTargets DEF Branching, Yes, No
  <1>3. /\ <<Yes, No>> \in Seq(1 .. Len(blocks) + 0 \union {Null})
        /\ <<>> \in Seq(Tasks(1 .. Len(blocks) + 0))
        /\ blocks' = Terminated(Created(0), insertBlock, <<Yes, No>>)
    BY <1>1, <1>2, CreatedNone DEF TypeInv
  <1> QED
    BY <1>1, <1>2, <1>3, EmissionEnding

(* A ternary operator makes three blocks before its condition is emitted. *)
LEMMA ValueStep ==
  ASSUME TypeInv, RvalueTernary
  PROVE  /\ Emission(3, Null, <<>>, Null, ValueCalls(Fresh(1), Fresh(2), Fresh(3)))
         /\ {Fresh(1), Fresh(2), Fresh(3)} \subseteq 1 .. Len(blocks) + 3
         /\ Head(agenda).do = "rvalue"
  <1>1. /\ agenda # <<>> /\ UNCHANGED currentFunction
        /\ agenda' = Replace(agenda, ValueCalls(Fresh(1), Fresh(2), Fresh(3)))
        /\ blocks' = Created(3)
        /\ Head(agenda).do = "rvalue"
    BY DEF RvalueTernary, Calls, Proceed, Replace, ValueCalls
  <1>2. Len(blocks) \in Nat
    BY <1>1, InBody
  <1>3. /\ {Fresh(1), Fresh(2), Fresh(3)} \subseteq 1 .. Len(blocks) + 3
        /\ Fresh(1) # Fresh(2) /\ Fresh(1) # Fresh(3) /\ Fresh(2) # Fresh(3)
    BY <1>2 DEF Fresh
  <1>4. ValueCalls(Fresh(1), Fresh(2), Fresh(3)) \in Seq(Tasks(1 .. Len(blocks) + 3))
    BY <1>3, ValueCallsFit
  <1> QED
    BY <1>1, <1>3, <1>4, EmissionMaking

(* setCurrentBB moves on to a block and changes none. *)
LEMMA InsertStep ==
  ASSUME TypeInv, SetCurrentBasicBlock
  PROVE  /\ Emission(0, Null, <<>>, Null, <<>>)
         /\ Head(agenda).do = "insertAt"
         /\ Head(agenda).block \in Block
         /\ insertBlock' = Head(agenda).block
  <1>1. /\ agenda # <<>> /\ UNCHANGED <<currentFunction, blocks>>
        /\ agenda' = Replace(agenda, <<>>)
        /\ Head(agenda).do = "insertAt"
        /\ insertBlock' = Head(agenda).block
    BY DEF SetCurrentBasicBlock, Calls, Proceed, Replace, call
  <1>2. Head(agenda).block \in Block
    BY <1>1, InBody, TaskFields
  <1>3. <<>> \in Seq(Tasks(1 .. Len(blocks)))
    OBVIOUS
  <1> QED
    BY <1>1, <1>2, <1>3, EmissionQuiet

(* connect ends the current block. *)
LEMMA ConnectStep ==
  ASSUME TypeInv, ConnectCurrent
  PROVE  /\ Emission(0, insertBlock, <<Head(agenda).to>>, Null, <<>>)
         /\ Head(agenda).do = "connect" /\ Head(agenda).to \in Block
  <1>1. /\ agenda # <<>> /\ UNCHANGED currentFunction
        /\ agenda' = Replace(agenda, <<>>)
        /\ blocks' = Terminated(blocks, insertBlock, <<Head(agenda).to>>)
        /\ Head(agenda).do = "connect"
    BY DEF ConnectCurrent, Calls, Proceed, Replace, call
  <1>2. /\ insertBlock \in Block /\ Len(blocks) \in Nat /\ Block = 1 .. Len(blocks)
        /\ Head(agenda).to \in Block
    BY <1>1, InBody, TaskFields
  <1>3. /\ <<Head(agenda).to>> \in Seq(1 .. Len(blocks) + 0 \union {Null})
        /\ <<>> \in Seq(Tasks(1 .. Len(blocks) + 0))
        /\ blocks' = Terminated(Created(0), insertBlock, <<Head(agenda).to>>)
    BY <1>1, <1>2, CreatedNone DEF TypeInv
  <1> QED
    BY <1>1, <1>2, <1>3, EmissionEnding

(* connectBlocks ends a block that is not the current one. *)
LEMMA ConnectBlocksStep ==
  ASSUME TypeInv, ConnectBlocks
  PROVE  /\ Emission(0, Head(agenda).from, <<Head(agenda).to>>, Null, <<>>)
         /\ Head(agenda).do = "connectFrom"
         /\ Head(agenda).from \in Block /\ Head(agenda).to \in Block
  <1>1. /\ agenda # <<>> /\ UNCHANGED currentFunction
        /\ agenda' = Replace(agenda, <<>>)
        /\ blocks' = Terminated(blocks, Head(agenda).from, <<Head(agenda).to>>)
        /\ Head(agenda).do = "connectFrom"
    BY DEF ConnectBlocks, Calls, Proceed, Replace, call
  <1>2. /\ Len(blocks) \in Nat /\ Block = 1 .. Len(blocks)
        /\ Head(agenda).to \in Block /\ Head(agenda).from \in Block
    BY <1>1, InBody, TaskFields
  <1>3. /\ <<Head(agenda).to>> \in Seq(1 .. Len(blocks) + 0 \union {Null})
        /\ <<>> \in Seq(Tasks(1 .. Len(blocks) + 0))
        /\ blocks' = Terminated(Created(0), Head(agenda).from, <<Head(agenda).to>>)
    BY <1>1, <1>2, CreatedNone DEF TypeInv
  <1> QED
    BY <1>1, <1>2, <1>3, EmissionEnding

(* The end of an arm is listed by the phi node of the block it leads to. *)
LEMMA ArmStep ==
  ASSUME TypeInv, ConnectArm
  PROVE  /\ Emission(0, insertBlock, <<Head(agenda).to>>, Head(agenda).to, <<>>)
         /\ Head(agenda).do = "connectPhi" /\ Head(agenda).to \in Block
  <1>1. /\ agenda # <<>> /\ UNCHANGED currentFunction
        /\ agenda' = Replace(agenda, <<>>)
        /\ blocks' = [Terminated(blocks, insertBlock, <<Head(agenda).to>>)
                        EXCEPT ![Head(agenda).to].incoming = Append(@, insertBlock)]
        /\ Head(agenda).do = "connectPhi"
    BY DEF ConnectArm, Calls, Proceed, Replace, call
  <1>2. /\ insertBlock \in Block /\ Len(blocks) \in Nat /\ Block = 1 .. Len(blocks)
        /\ Head(agenda).to \in Block /\ currentFunction \in FunctionNames
    BY <1>1, InBody, TaskFields
  <1>3. Grown(0, insertBlock, <<Head(agenda).to>>, Head(agenda).to)
    BY <1>1, <1>2, GrownByArm DEF TypeInv
  <1>4. <<>> \in Seq(Tasks(1 .. Len(blocks) + 0))
    OBVIOUS
  <1> QED
    BY <1>1, <1>2, <1>3, <1>4 DEF Emission

-----------------------------------------------------------------------------
(* The type invariant is kept.                                             *)
LEMMA BodyTyped ==
  ASSUME TypeInv, NEW n, NEW x, NEW succs, NEW phi, NEW ts,
         Emission(n, x, succs, phi, ts),
         UnitTyped', insertBlock' \in Block', LoopsNest',
         PlacesTyped(Block)', LoopsTyped(Block)'
  PROVE  TypeInv'
  <1>1. /\ blocks' \in Seq(BlocksOver(Block'))
        /\ agenda' \in Seq(Tasks(Block'))
        /\ Block' = 1 .. Len(blocks) + n
    BY EmissionTypes DEF TypeInv
  <1>2. insertBlock' # Null /\ Len(blocks) \in Nat /\ n \in Nat
    BY <1>1, TypeOfBlocks DEF Null, TypeInv, Emission
  <1>3. TypeOK'
    <2>1. TypeOK' <=> (/\ UnitTyped
                       /\ blocks \in Seq(BlocksOver(Block))
                       /\ insertBlock \in Block \union {Null}
                       /\ currentFunction # None => insertBlock # Null
                       /\ agenda \in Seq(Tasks(Block))
                       /\ PlacesTyped(Block) /\ LoopsTyped(Block))'
      BY TypeParts, PTL
    <2> QED
      BY <1>1, <1>2, <2>1
  <1>4. currentFunction' # None
    BY InBody, CodeGeneratorAssumption DEF Emission
  <1> QED
    BY <1>3, <1>4 DEF TypeInv

(* A step that neither starts nor ends a loop keeps the nesting of loops in *)
(* the order of the agenda.                                                 *)
LEMMA LoopsKept ==
  ASSUME TypeInv, NEW n, NEW x, NEW succs, NEW phi, NEW ts,
         Emission(n, x, succs, phi, ts),
         LoopEnds(ts) = {}, ~LoopEnd(Head(agenda)), UNCHANGED loops
  PROVE  LoopsNest'
  <1>1. /\ agenda \in Seq(Tasks(1 .. Len(blocks) + n)) /\ agenda # <<>>
        /\ ts \in Seq(Tasks(1 .. Len(blocks) + n))
        /\ agenda' = Replace(agenda, ts)
    BY EmissionTypes DEF Emission, TypeInv
  <1>2. Len(loops) \in Nat /\ LoopsNest
    BY TypeParts DEF LoopsTyped, TypeInv
  <1> QED
    BY <1>1, <1>2, LoopsStayNested

(* It keeps the type invariant, too, if it is otherwise an ordinary one. *)
LEMMA KeptTyped ==
  ASSUME TypeInv, NEW n, NEW x, NEW succs, NEW phi, NEW ts,
         Emission(n, x, succs, phi, ts),
         UnitTyped', insertBlock' \in Block',
         LoopEnds(ts) = {}, ~LoopEnd(Head(agenda)),
         UNCHANGED <<points, mapLabel, history>>
  PROVE  TypeInv'
  <1>1. PlacesTyped(Block') /\ LoopsTyped(Block')
    BY EmissionTypes DEF TypeInv
  <1>2. PlacesTyped(Block)' /\ LoopsTyped(Block)' /\ UNCHANGED loops
    BY <1>1 DEF PlacesTyped, LoopsTyped, points, history
  <1>3. LoopsNest'
    BY <1>2, LoopsKept
  <1> QED
    BY <1>2, <1>3, BodyTyped

(* The current block of a step that stays where it is. *)
LEMMA CurrentStays ==
  ASSUME TypeInv, NEW n, NEW x, NEW succs, NEW phi, NEW ts,
         Emission(n, x, succs, phi, ts)
  PROVE  insertBlock \in Block' /\ \A b \in Block : b \in Block'
  BY EmissionTypes, InBody DEF Emission, TypeInv

(* The limits of a unit are observed by every step. *)
LEMMA UnitKept ==
  ASSUME TypeInv, UNCHANGED <<unit, currentFunction>>,
         statements' = statements \/ UseStatement,
         operators' = operators \/ UseOperator
  PROVE  UnitTyped'
  <1>1. UnitTyped
    BY TypeParts DEF TypeInv
  <1>2. extent.maxStatements \in Nat /\ extent.maxOperators \in Nat
    BY <1>1, CodeGeneratorAssumption DEF UnitTyped
  <1> QED
    BY <1>1, <1>2 DEF UnitTyped, unit, UseStatement, UseOperator

(* The calls that end no loop. *)
LEMMA NotLoopEnds ==
  ASSUME NEW t, t.do \in {"compound", "statement", "rvalue", "return", "insertAt",
                          "connect", "connectPhi", "connectFrom", "condition",
                          "conditionalBranch"}
  PROVE  ~LoopEnd(t)
  BY DEF LoopEnd

(* Each action keeps the type invariant: blocks, expressions, returns ... *)
LEMMA QuietTyped ==
  ASSUME TypeInv,
         \/ CompoundStatement \/ NestedCompoundStatement \/ ExpressionStatement
         \/ ReturnStatement \/ RvalueLeaf \/ RvalueBinary
  PROVE  TypeInv'
  <1>1. PICK ts : Plain(ts) /\ Emission(0, Null, <<>>, Null, ts)
    BY QuietSteps
  <1>2. UNCHANGED <<points, mapLabel, history, insertBlock>> /\ ~LoopEnd(Head(agenda))
    BY QuietSteps, NotLoopEnds DEF ir
  <1>3. LoopEnds(ts) = {}
    BY <1>1, PlainCalls DEF Emission
  <1>4. UnitTyped'
    BY UnitKept
    DEF CompoundStatement, NestedCompoundStatement, ExpressionStatement,
        ReturnStatement, RvalueLeaf, RvalueBinary, ir
  <1> QED
    BY <1>1, <1>2, <1>3, <1>4, CurrentStays, KeptTyped

(* ... conditions ... *)
LEMMA ConditionTyped ==
  ASSUME TypeInv,
         \/ ConditionLeaf \/ ConditionAnd \/ ConditionOr \/ ConditionNot
         \/ ConditionTernary
  PROVE  TypeInv'
  <1>1. PICK p \in ConditionPlans : Emission(p[1], Null, <<>>, Null, p[2])
    BY ConditionSteps
  <1>2. /\ UNCHANGED <<points, mapLabel, history, insertBlock>>
        /\ ~LoopEnd(Head(agenda)) /\ Yes \in Block /\ No \in Block
        /\ Len(blocks) \in Nat
    BY <1>1, ConditionSteps, NotLoopEnds, InBody DEF Emission
  <1>3. Fresh(1) # Fresh(2)
    BY <1>2 DEF Fresh
  <1>4. LoopEnds(p[2]) = {}
    <2> DEFINE B == {Yes, No, Fresh(1), Fresh(2)}
    <2>0. Yes \in B /\ No \in B /\ Fresh(1) \in B /\ Fresh(2) \in B
      OBVIOUS
    <2> HIDE DEF B
    <2>1. LoopEnds(LeafCalls(Yes, No)) = {} /\ LoopEnds(NotCalls(Yes, No)) = {}
      BY <2>0, LeafCallsFit, NotCallsFit
    <2>2. /\ LoopEnds(AndCalls(Fresh(1), Yes, No)) = {}
          /\ LoopEnds(OrCalls(Fresh(1), Yes, No)) = {}
      BY <2>0, AndCallsFit, OrCallsFit
    <2>3. LoopEnds(TernaryCalls(Fresh(1), Fresh(2), Yes, No)) = {}
      BY <2>0, <1>3, TernaryCallsFit
    <2> QED
      BY <2>1, <2>2, <2>3 DEF ConditionPlans
  <1>5. UnitTyped'
    BY UnitKept
    DEF ConditionLeaf, ConditionAnd, ConditionOr, ConditionNot, ConditionTernary,
        ConditionOperator, ir
  <1> QED
    BY <1>1, <1>2, <1>4, <1>5, CurrentStays, KeptTyped

(* ... branches and changes of the current block ... *)
LEMMA ConnectsTyped ==
  ASSUME TypeInv,
         \/ MakeConditionalBranch \/ RvalueTernary \/ SetCurrentBasicBlock
         \/ ConnectCurrent \/ ConnectBlocks \/ ConnectArm
  PROVE  TypeInv'
  <1>1. UnitTyped'
    BY UnitKept
    DEF MakeConditionalBranch, RvalueTernary, SetCurrentBasicBlock, ConnectCurrent,
        ConnectBlocks, ConnectArm
  <1>2. /\ UNCHANGED <<points, mapLabel, history>>
        /\ insertBlock' = insertBlock \/ SetCurrentBasicBlock
    BY DEF MakeConditionalBranch, RvalueTernary, SetCurrentBasicBlock,
           ConnectCurrent, ConnectBlocks, ConnectArm
  <1>3. /\ LoopEnds(<<>>) = {}
        /\ Head(agenda).do \in {"conditionalBranch", "rvalue", "insertAt", "connect",
                                "connectFrom", "connectPhi"}
    BY DEF LoopEnds, MakeConditionalBranch, RvalueTernary, SetCurrentBasicBlock,
           ConnectCurrent, ConnectBlocks, ConnectArm, Calls
  <1>4. ~LoopEnd(Head(agenda))
    BY <1>3, NotLoopEnds
  <1>5. CASE MakeConditionalBranch
    <2>1. Emission(0, insertBlock, <<Yes, No>>, Null, <<>>)
      BY <1>5, BranchStep
    <2>2. insertBlock' \in Block'
      BY <1>5, <2>1, CurrentStays DEF MakeConditionalBranch
    <2> QED
      BY <1>1, <1>2, <1>3, <1>4, <2>1, <2>2, KeptTyped
  <1>6. CASE RvalueTernary
    <2>1. /\ Emission(3, Null, <<>>, Null, ValueCalls(Fresh(1), Fresh(2), Fresh(3)))
          /\ {Fresh(1), Fresh(2), Fresh(3)} \subseteq 1 .. Len(blocks) + 3
          /\ Len(blocks) \in Nat
      BY <1>6, ValueStep, TypeOfBlocks DEF TypeInv
    <2>2. Fresh(1) # Fresh(2) /\ Fresh(1) # Fresh(3) /\ Fresh(2) # Fresh(3)
      BY <2>1 DEF Fresh
    <2>3. LoopEnds(ValueCalls(Fresh(1), Fresh(2), Fresh(3))) = {}
      BY <2>1, <2>2, ValueCallsFit
    <2>4. insertBlock' \in Block'
      BY <1>6, <2>1, CurrentStays DEF RvalueTernary
    <2> QED
      BY <1>1, <1>2, <1>4, <2>1, <2>3, <2>4, KeptTyped
  <1>7. CASE SetCurrentBasicBlock
    <2>1. /\ Emission(0, Null, <<>>, Null, <<>>)
          /\ insertBlock' = Head(agenda).block /\ Head(agenda).block \in Block
      BY <1>7, InsertStep
    <2>2. insertBlock' \in Block'
      BY <2>1, CurrentStays
    <2> QED
      BY <1>1, <1>2, <1>3, <1>4, <2>1, <2>2, KeptTyped
  <1>8. CASE ConnectCurrent
    <2>1. Emission(0, insertBlock, <<Head(agenda).to>>, Null, <<>>)
      BY <1>8, ConnectStep
    <2>2. insertBlock' \in Block'
      BY <1>8, <2>1, CurrentStays DEF ConnectCurrent
    <2> QED
      BY <1>1, <1>2, <1>3, <1>4, <2>1, <2>2, KeptTyped
  <1>9. CASE ConnectBlocks
    <2>1. Emission(0, Head(agenda).from, <<Head(agenda).to>>, Null, <<>>)
      BY <1>9, ConnectBlocksStep
    <2>2. insertBlock' \in Block'
      BY <1>9, <2>1, CurrentStays DEF ConnectBlocks
    <2> QED
      BY <1>1, <1>2, <1>3, <1>4, <2>1, <2>2, KeptTyped
  <1>10. CASE ConnectArm
    <2>1. Emission(0, insertBlock, <<Head(agenda).to>>, Head(agenda).to, <<>>)
      BY <1>10, ArmStep
    <2>2. insertBlock' \in Block'
      BY <1>10, <2>1, CurrentStays DEF ConnectArm
    <2> QED
      BY <1>1, <1>2, <1>3, <1>4, <2>1, <2>2, KeptTyped
  <1> QED
    BY <1>5, <1>6, <1>7, <1>8, <1>9, <1>10

(* Fresh blocks are blocks of the module after the step. *)
LEMMA FreshTyped ==
  ASSUME TypeInv, NEW n, NEW x, NEW succs, NEW phi, NEW ts,
         Emission(n, x, succs, phi, ts)
  PROVE  /\ n >= 1 => Fresh(1) \in Block'
         /\ n >= 2 => Fresh(2) \in Block'
         /\ n >= 3 => Fresh(3) \in Block'
         /\ n >= 4 => Fresh(4) \in Block'
  <1>1. n \in Nat /\ Len(blocks) \in Nat /\ Block' = 1 .. Len(blocks) + n
    BY EmissionTypes, TypeOfBlocks DEF Emission, TypeInv
  <1> QED
    BY <1>1 DEF Fresh

(* ... jumps ... *)
LEMMA JumpTyped ==
  ASSUME TypeInv, MakeReturn \/ BreakStatement \/ ContinueStatement
  PROVE  TypeInv'
  <1>1. PICK succs : Emission(1, insertBlock, succs, Null, <<>>)
    BY JumpSteps
  <1>2. /\ insertBlock' = Fresh(1) /\ ~LoopEnd(Head(agenda))
        /\ UNCHANGED <<mapLabel, points, loops, loopBlocks, placed, gotos>>
        /\ LoopEnds(<<>>) = {}
    BY JumpSteps, NotLoopEnds DEF LoopEnds
  <1>3. insertBlock' \in Block'
    BY <1>1, <1>2, FreshTyped
  <1>4. UnitTyped'
    BY UnitKept DEF MakeReturn, BreakStatement, ContinueStatement, Jump
  <1>5. LoopsNest'
    BY <1>1, <1>2, LoopsKept
  <1>6. PlacesTyped(Block') /\ LoopsTyped(Block')
    BY <1>1, EmissionTypes DEF TypeInv
  <1>7. PlacesTyped(Block)'
    BY <1>2, <1>6 DEF PlacesTyped, points
  <1>8. \/ jumps' = jumps
        \/ /\ loops # <<>>
           /\ \E k \in {"break", "continue"}, p \in {breakPoint, continuePoint} :
                jumps' = jumps \union {[loop |-> Head(loops), kind |-> k, to |-> p]}
    BY DEF MakeReturn, BreakStatement, ContinueStatement, Jump, history
  <1>9. loops # <<>> => Head(loops) \in DOMAIN loopBlocks
    BY <1>6 DEF LoopsTyped
  <1>10. LoopsTyped(Block)'
    BY <1>2, <1>6, <1>8, <1>9 DEF LoopsTyped, PlacesTyped
  <1> QED
    BY <1>1, <1>3, <1>4, <1>5, <1>7, <1>10, BodyTyped

(* One more loop is entered. *)
LEMMA LoopEntered ==
  ASSUME TypeInv, NEW n, NEW x, NEW succs, NEW phi, NEW ts,
         Emission(n, x, succs, phi, ts),
         ~LoopEnd(Head(agenda)), NEW i, LoopEnds(ts) = {i},
         NEW r \in [test : Block' \union {Null}, end : Block' \union {Null}],
         loopBlocks' = Append(loopBlocks, r),
         loops' = <<Len(loopBlocks')>> \o loops,
         UNCHANGED jumps
  PROVE  LoopsTyped(Block)' /\ LoopsNest'
  <1>1. /\ loops \in Seq(DOMAIN loopBlocks)
        /\ loopBlocks \in Seq([test : Block' \union {Null}, end : Block' \union {Null}])
        /\ jumps \subseteq [loop : DOMAIN loopBlocks, kind : {"break", "continue"},
                            to : Block' \union {Null}]
    BY EmissionTypes DEF TypeInv, LoopsTyped
  <1>2. /\ loopBlocks' \in Seq([test : Block' \union {Null}, end : Block' \union {Null}])
        /\ Len(loopBlocks') = Len(loopBlocks) + 1
        /\ DOMAIN loopBlocks = 1 .. Len(loopBlocks)
        /\ DOMAIN loopBlocks' = 1 .. Len(loopBlocks) + 1
        /\ Len(loopBlocks) \in Nat
    <2> DEFINE S == [test : Block' \union {Null}, end : Block' \union {Null}]
    <2>1. loopBlocks \in Seq(S) /\ r \in S
      BY <1>1
    <2> HIDE DEF S
    <2>2. loopBlocks' \in Seq(S) /\ Len(loopBlocks') = Len(loopBlocks) + 1
      BY <2>1, AppendProperties
    <2>3. DOMAIN loopBlocks = 1 .. Len(loopBlocks) /\ Len(loopBlocks) \in Nat
      BY <2>1
    <2>4. DOMAIN loopBlocks' = 1 .. Len(loopBlocks')
      BY <2>2
    <2> QED
      BY <2>2, <2>3, <2>4 DEF S
  <1>3. DOMAIN loopBlocks \subseteq DOMAIN loopBlocks'
    BY <1>2
  <1>4. /\ loops \in Seq(DOMAIN loopBlocks')
        /\ <<Len(loopBlocks')>> \in Seq(DOMAIN loopBlocks')
        /\ Len(<<Len(loopBlocks')>>) = 1
    BY <1>1, <1>2, <1>3, SeqMonotonic
  <1>5. loops' \in Seq(DOMAIN loopBlocks') /\ Len(loops') = 1 + Len(loops)
    BY <1>4, ConcatProperties
  <1>6. jumps' \subseteq [loop : DOMAIN loopBlocks', kind : {"break", "continue"},
                          to : Block' \union {Null}]
    BY <1>1, <1>3
  <1>7. LoopsTyped(Block)'
    BY <1>2, <1>5, <1>6 DEF LoopsTyped
  <1>8. /\ agenda \in Seq(Tasks(1 .. Len(blocks) + n)) /\ agenda # <<>>
        /\ ts \in Seq(Tasks(1 .. Len(blocks) + n))
        /\ agenda' = Replace(agenda, ts)
    BY EmissionTypes DEF Emission, TypeInv
  <1>9. Len(loops) \in Nat /\ LoopsNest
    BY <1>1 DEF TypeInv
  <1>10. Len(loops') = Len(loops) + 1
    BY <1>5, <1>9
  <1>11. LoopsNest'
    BY <1>8, <1>9, <1>10, LoopsStayNested
  <1> QED
    BY <1>7, <1>11

(* The innermost loop is left. *)
LEMMA LoopLeft ==
  ASSUME TypeInv, NEW n, NEW x, NEW succs, NEW phi, NEW ts,
         Emission(n, x, succs, phi, ts),
         LoopEnd(Head(agenda)), LoopEnds(ts) = {}, loops' = Tail(loops)
  PROVE  /\ LoopsNest' /\ loops # <<>>
         /\ loops' \in Seq(DOMAIN loopBlocks)
         /\ Head(loops) \in DOMAIN loopBlocks
  <1>1. loops \in Seq(DOMAIN loopBlocks) /\ LoopsNest
    BY TypeParts DEF TypeInv, LoopsTyped
  <1>2. /\ agenda \in Seq(Tasks(1 .. Len(blocks) + n)) /\ agenda # <<>>
        /\ ts \in Seq(Tasks(1 .. Len(blocks) + n))
        /\ agenda' = Replace(agenda, ts)
    BY EmissionTypes DEF Emission, TypeInv
  <1>3. loops # <<>>
    <2>1. PICK depth \in [DOMAIN agenda -> Nat] : Depths(agenda, Len(loops), depth)
      BY <1>1 DEF LoopsNest
    <2>2. 1 \in DOMAIN agenda /\ Head(agenda) = agenda[1]
      BY <1>2
    <2>3. depth[1] \in 1 .. Len(loops)
      BY <2>1, <2>2 DEF Depths
    <2> QED
      BY <1>1, <2>3
  <1>4. /\ loops' \in Seq(DOMAIN loopBlocks) /\ Head(loops) \in DOMAIN loopBlocks
        /\ Len(loops') = Len(loops) - 1 /\ Len(loops) \in Nat
    BY <1>1, <1>3, HeadTailProperties
  <1>5. LoopsNest'
    BY <1>1, <1>2, <1>4, LoopsStayNested
  <1> QED
    BY <1>3, <1>4, <1>5

(* ... the start of a while loop ... *)
LEMMA WhileTyped == TypeInv /\ WhileStatement => TypeInv'
  <1> SUFFICES ASSUME TypeInv, WhileStatement PROVE TypeInv'
    OBVIOUS
  <1> DEFINE ts == WhileCalls(Fresh(1), Fresh(2), Fresh(3))
  <1>1. /\ Emission(3, insertBlock, <<Fresh(1)>>, Null, ts)
        /\ {Fresh(1), Fresh(2), Fresh(3)} \subseteq 1 .. Len(blocks) + 3
        /\ ~LoopEnd(Head(agenda))
    BY WhileStep, NotLoopEnds
  <1>2. LoopEnds(ts) = {4}
    <2>1. Fresh(2) # Fresh(3)
      BY TypeOfBlocks DEF Fresh, TypeInv
    <2> QED
      BY <1>1, <2>1, WhileCallsFit
  <1> HIDE DEF ts
  <1>3. Fresh(1) \in Block' /\ Fresh(2) \in Block' /\ Fresh(3) \in Block'
    BY <1>1, FreshTyped
  <1>4. /\ insertBlock' = Fresh(1) /\ breakPoint' = Fresh(3) /\ continuePoint' = Fresh(2)
        /\ loopBlocks' = Append(loopBlocks, [test |-> Fresh(1), end |-> Fresh(3)])
        /\ loops' = <<Len(loopBlocks')>> \o loops
        /\ UNCHANGED <<mapLabel, jumps, placed, gotos>>
    BY DEF WhileStatement
  <1>5. [test |-> Fresh(1), end |-> Fresh(3)]
          \in [test : Block' \union {Null}, end : Block' \union {Null}]
    BY <1>3
  <1>6. LoopsTyped(Block)' /\ LoopsNest'
    BY <1>1, <1>2, <1>4, <1>5, LoopEntered
  <1>7. PlacesTyped(Block)'
    BY <1>1, <1>3, <1>4, EmissionTypes DEF PlacesTyped, TypeInv
  <1>8. UnitTyped'
    BY UnitKept DEF WhileStatement
  <1> QED
    BY <1>1, <1>3, <1>4, <1>6, <1>7, <1>8, BodyTyped

(* ... of a do loop ... *)
LEMMA DoTyped == TypeInv /\ DoStatement => TypeInv'
  <1> SUFFICES ASSUME TypeInv, DoStatement PROVE TypeInv'
    OBVIOUS
  <1> DEFINE ts == DoCalls(Fresh(1))
  <1>1. /\ Emission(1, insertBlock, <<Fresh(1)>>, Null, ts)
        /\ LoopEnds(ts) = {2} /\ ~LoopEnd(Head(agenda))
    <2>1. /\ Emission(1, insertBlock, <<Fresh(1)>>, Null, ts)
          /\ Fresh(1) \in 1 .. Len(blocks) + 1 /\ ~LoopEnd(Head(agenda))
      BY DoStep, NotLoopEnds
    <2>2. LoopEnds(ts) = {2}
      BY <2>1, DoCallsFit
    <2> QED
      BY <2>1, <2>2
  <1> HIDE DEF ts
  <1>2. Fresh(1) \in Block'
    BY <1>1, FreshTyped
  <1>3. /\ insertBlock' = Fresh(1)
        /\ loopBlocks' = Append(loopBlocks, [test |-> Null, end |-> Null])
        /\ loops' = <<Len(loopBlocks')>> \o loops
        /\ UNCHANGED <<mapLabel, points, jumps, placed, gotos>>
    BY DEF DoStatement
  <1>4. [test |-> Null, end |-> Null]
          \in [test : Block' \union {Null}, end : Block' \union {Null}]
    OBVIOUS
  <1>5. LoopsTyped(Block)' /\ LoopsNest'
    BY <1>1, <1>3, <1>4, LoopEntered
  <1>6. PlacesTyped(Block)'
    BY <1>1, <1>3, EmissionTypes DEF PlacesTyped, TypeInv, points
  <1>7. UnitTyped'
    BY UnitKept DEF DoStatement
  <1> QED
    BY <1>1, <1>2, <1>3, <1>5, <1>6, <1>7, BodyTyped

(* ... the end of either, where the enclosing loop is the innermost again *)
(* ...                                                                    *)
LEMMA EndWhileTyped == TypeInv /\ EndWhileStatement => TypeInv'
  <1> SUFFICES ASSUME TypeInv, EndWhileStatement PROVE TypeInv'
    OBVIOUS
  <1>1. /\ Emission(0, insertBlock, <<Head(agenda).header>>, Null, <<>>)
        /\ LoopEnds(<<>>) = {} /\ LoopEnd(Head(agenda))
        /\ insertBlock' = Head(agenda).end /\ Head(agenda).end \in Block
    BY EndWhileStep DEF LoopEnds, LoopEnd
  <1>2. /\ UNCHANGED <<mapLabel, points, loopBlocks, jumps, placed, gotos>>
        /\ loops' = Tail(loops)
    BY DEF EndWhileStatement
  <1>3. LoopsNest' /\ loops' \in Seq(DOMAIN loopBlocks)
    BY <1>1, <1>2, LoopLeft
  <1>4. PlacesTyped(Block') /\ LoopsTyped(Block') /\ insertBlock' \in Block'
    BY <1>1, EmissionTypes, CurrentStays DEF TypeInv
  <1>5. PlacesTyped(Block)' /\ LoopsTyped(Block)'
    BY <1>2, <1>3, <1>4 DEF PlacesTyped, LoopsTyped, points
  <1>6. UnitTyped'
    BY UnitKept DEF EndWhileStatement
  <1> QED
    BY <1>1, <1>3, <1>4, <1>5, <1>6, BodyTyped

(* ... with its condition still to come for a do loop ... *)
LEMMA EndDoTyped == TypeInv /\ EndDoStatement => TypeInv'
  <1> SUFFICES ASSUME TypeInv, EndDoStatement PROVE TypeInv'
    OBVIOUS
  <1> DEFINE ts == EndDoCalls(Head(agenda).content, Fresh(2))
  <1>1. /\ Emission(2, insertBlock, <<Fresh(1)>>, Null, ts)
        /\ LoopEnd(Head(agenda)) /\ Head(agenda).content \in Block
    BY EndDoStep DEF LoopEnd
  <1>2. LoopEnds(ts) = {}
    <2>1. /\ Head(agenda).content \in 1 .. Len(blocks) + 2
          /\ Fresh(2) \in 1 .. Len(blocks) + 2
      BY EndDoStep
    <2> QED
      BY <2>1, EndDoCallsFit
  <1> HIDE DEF ts
  <1>3. /\ Fresh(1) \in Block' /\ Fresh(2) \in Block' /\ Head(agenda).content \in Block'
        /\ PlacesTyped(Block') /\ LoopsTyped(Block')
    BY <1>1, FreshTyped, EmissionTypes, CurrentStays DEF TypeInv
  <1> DEFINE r == [test |-> Fresh(1), end |-> Fresh(2)]
             R == [test : Block' \union {Null}, end : Block' \union {Null}]
  <1>4. /\ insertBlock' = Fresh(1) /\ breakPoint' = Fresh(2)
        /\ continuePoint' = Head(agenda).content
        /\ loopBlocks' = [loopBlocks EXCEPT ![Head(loops)] = r]
        /\ loops' = Tail(loops)
        /\ UNCHANGED <<mapLabel, jumps, placed, gotos>>
    BY DEF EndDoStatement, call
  <1>5. /\ LoopsNest' /\ loops' \in Seq(DOMAIN loopBlocks)
        /\ Head(loops) \in DOMAIN loopBlocks
    BY <1>1, <1>2, <1>4, LoopLeft
  <1>6. loopBlocks' \in Seq(R) /\ DOMAIN loopBlocks' = DOMAIN loopBlocks
    <2>1. r \in R /\ loopBlocks \in Seq(R)
      BY <1>3 DEF LoopsTyped
    <2> HIDE DEF r, R
    <2>2. DOMAIN loopBlocks = 1 .. Len(loopBlocks)
      BY <2>1
    <2> QED
      BY <1>4, <1>5, <2>1, <2>2, ExceptSeq
  <1>7. PlacesTyped(Block)' /\ LoopsTyped(Block)'
    BY <1>3, <1>4, <1>5, <1>6 DEF PlacesTyped, LoopsTyped
  <1>8. UnitTyped'
    BY UnitKept DEF EndDoStatement
  <1> QED
    BY <1>1, <1>3, <1>4, <1>5, <1>7, <1>8, BodyTyped

(* ... if statements ... *)
LEMMA SelectionTyped ==
  ASSUME TypeInv, NEW hasElse \in BOOLEAN, SelectionStatement(hasElse)
  PROVE  TypeInv'
  <1>1. PICK ts \in {IfCalls(Fresh(2), Fresh(3), Fresh(4)),
                     IfElseCalls(Fresh(2), Fresh(3), Fresh(4))} :
          Emission(4, insertBlock, <<Fresh(1)>>, Null, ts)
    BY SelectionStep
  <1>2. /\ {Fresh(1), Fresh(2), Fresh(3), Fresh(4)} \subseteq 1 .. Len(blocks) + 4
        /\ ~LoopEnd(Head(agenda)) /\ Len(blocks) \in Nat
    BY SelectionStep, NotLoopEnds, TypeOfBlocks DEF TypeInv
  <1>3. Fresh(2) # Fresh(3) /\ Fresh(3) # Fresh(4) /\ Fresh(2) # Fresh(4)
    BY <1>2 DEF Fresh
  <1>4. LoopEnds(ts) = {}
    <2> DEFINE B == 1 .. Len(blocks) + 4
    <2>1. Fresh(2) \in B /\ Fresh(3) \in B /\ Fresh(4) \in B
      BY <1>2
    <2> HIDE DEF B
    <2>2. LoopEnds(IfCalls(Fresh(2), Fresh(3), Fresh(4))) = {}
      BY <2>1, <1>3, IfCallsFit
    <2>3. LoopEnds(IfElseCalls(Fresh(2), Fresh(3), Fresh(4))) = {}
      BY <2>1, <1>3, IfElseCallsFit
    <2> QED
      BY <2>2, <2>3
  <1>5. /\ insertBlock' = Fresh(1) /\ UNCHANGED <<points, mapLabel, history>>
        /\ Fresh(1) \in Block'
    BY <1>1, FreshTyped DEF SelectionStatement
  <1>6. UnitTyped'
    BY UnitKept DEF SelectionStatement
  <1> QED
    BY <1>1, <1>2, <1>4, <1>5, <1>6, KeptTyped

(* ... labels and gotos ... *)
LEMMA LabelTyped ==
  ASSUME TypeInv, NEW l \in Labels, LabeledStatement(l) \/ GotoStatement(l)
  PROVE  TypeInv'
  <1>1. UNCHANGED <<currentFunction, points, unit, statements, operators, loops,
                    loopBlocks, jumps>>
    BY DEF LabeledStatement, GotoStatement
  <1>2. UnitTyped'
    BY <1>1, UnitKept
  <1>3. CASE LabeledStatement(l)
    <2>1. PICK n \in {0, 1} : \E b \in 1 .. Len(blocks) + n :
            /\ Emission(n, insertBlock, <<b>>, Null, <<Task("statement")>>)
            /\ insertBlock' = b
            /\ mapLabel' = [mapLabel EXCEPT ![l] = b]
            /\ placed' = [placed EXCEPT ![l] = b]
            /\ UNCHANGED gotos
            /\ ~LoopEnd(Head(agenda))
      BY <1>3, LabelStep, NotLoopEnds
    <2>2. PICK b \in 1 .. Len(blocks) + n :
            /\ Emission(n, insertBlock, <<b>>, Null, <<Task("statement")>>)
            /\ insertBlock' = b
            /\ mapLabel' = [mapLabel EXCEPT ![l] = b]
            /\ placed' = [placed EXCEPT ![l] = b]
            /\ UNCHANGED gotos
            /\ ~LoopEnd(Head(agenda))
      BY <2>1
    <2>3. b \in Block' /\ PlacesTyped(Block') /\ LoopsTyped(Block')
      BY <2>2, EmissionTypes DEF TypeInv
    <2>4. LoopEnds(<<Task("statement")>>) = {}
      BY TaskDos, NotLoopEnds DEF LoopEnds
    <2>5. LoopsNest'
      BY <1>1, <2>2, <2>4, LoopsKept
    <2>6. PlacesTyped(Block)' /\ LoopsTyped(Block)'
      BY <1>1, <2>2, <2>3 DEF PlacesTyped, LoopsTyped, points
    <2> QED
      BY <1>2, <2>2, <2>3, <2>5, <2>6, BodyTyped
  <1>4. CASE GotoStatement(l)
    <2>1. PICK n \in {1, 2} : \E b \in 1 .. Len(blocks) + n :
            /\ Emission(n, insertBlock, <<b>>, Null, <<>>)
            /\ insertBlock' = Fresh(1)
            /\ mapLabel' = [mapLabel EXCEPT ![l] = b]
            /\ gotos' = gotos \union {[label |-> l, to |-> b]}
            /\ UNCHANGED placed
            /\ ~LoopEnd(Head(agenda))
      BY <1>4, GotoStep, NotLoopEnds
    <2>2. PICK b \in 1 .. Len(blocks) + n :
            /\ Emission(n, insertBlock, <<b>>, Null, <<>>)
            /\ insertBlock' = Fresh(1)
            /\ mapLabel' = [mapLabel EXCEPT ![l] = b]
            /\ gotos' = gotos \union {[label |-> l, to |-> b]}
            /\ UNCHANGED placed
            /\ ~LoopEnd(Head(agenda))
      BY <2>1
    <2>3. /\ b \in Block' /\ PlacesTyped(Block') /\ LoopsTyped(Block')
          /\ Fresh(1) \in Block'
      BY <2>2, EmissionTypes, FreshTyped DEF TypeInv
    <2>4. LoopEnds(<<>>) = {}
      BY DEF LoopEnds
    <2>5. LoopsNest'
      BY <1>1, <2>2, <2>4, LoopsKept
    <2>6. PlacesTyped(Block)' /\ LoopsTyped(Block)'
      BY <1>1, <2>2, <2>3 DEF PlacesTyped, LoopsTyped, points
    <2> QED
      BY <1>2, <2>2, <2>3, <2>5, <2>6, BodyTyped
  <1> QED
    BY <1>3, <1>4

(* The beginning and the end of a function. *)
LEMMA DefineTyped ==
  ASSUME TypeInv, NEW f \in FunctionNames, DefineFunction(f)
  PROVE  /\ TypeInv'
         /\ blocks' \in Seq(BlocksOver(Block')) /\ Len(blocks') = Len(blocks) + 1
         /\ \A b \in Block : blocks'[b] = blocks[b]
         /\ blocks'[Fresh(1)] = [of |-> f, terminators |-> <<>>, incoming |-> <<>>]
         /\ Block' = 1 .. Len(blocks) + 1
  <1> DEFINE B == 1 .. Len(blocks) + 1
             new == [of |-> f, terminators |-> <<>>, incoming |-> <<>>]
  <1>1. /\ blocks \in Seq(BlocksOver(1 .. Len(blocks))) /\ Len(blocks) \in Nat
        /\ Block = 1 .. Len(blocks)
    BY TypeOfBlocks DEF TypeInv
  <1>2. Block \subseteq B
    BY <1>1
  <1>3. blocks \in Seq(BlocksOver(B))
    <2>1. BlocksOver(1 .. Len(blocks)) \subseteq BlocksOver(B)
      BY <1>1, <1>2, TasksGrow
    <2> QED
      BY <1>1, <2>1, SeqMonotonic
  <1>4. new \in BlocksOver(B)
    BY DEF BlocksOver
  <1>5. blocks' = Append(blocks, new)
    BY DEF DefineFunction, EmptyBlock
  <1> HIDE DEF new
  <1>6. /\ blocks' \in Seq(BlocksOver(B)) /\ Len(blocks') = Len(blocks) + 1
        /\ \A b \in 1 .. Len(blocks) : blocks'[b] = blocks[b]
        /\ blocks'[Len(blocks) + 1] = new
    <2> HIDE DEF B
    <2> QED
      BY <1>3, <1>4, <1>5, AppendProperties
  <1>7. Block' = B
    <2>1. DOMAIN blocks' = 1 .. Len(blocks')
      BY <1>6
    <2> QED
      BY <1>6, <2>1 DEF Block
  <1>8. PlacesTyped(B) /\ LoopsTyped(B) /\ UnitTyped
    BY <1>2, TypeParts, PlacesGrow DEF TypeInv
  <1>9. PlacesTyped(Block)' /\ LoopsTyped(Block)' /\ UnitTyped'
    <2>1. /\ UNCHANGED <<points, extent, statements, operators, loops, loopBlocks, jumps>>
          /\ mapLabel' \in {mapLabel, NoLabels} /\ placed' = NoLabels /\ gotos' = {}
          /\ declared' = declared \union {f} /\ defined' = defined \union {f}
          /\ currentFunction' = f
      BY DEF DefineFunction
    <2>2. NoLabels \in [Labels -> B \union {Null}]
      BY DEF NoLabels
    <2>3. PlacesTyped(Block)'
      BY <1>7, <1>8, <2>1, <2>2 DEF PlacesTyped, points
    <2>4. LoopsTyped(Block)'
      BY <1>7, <1>8, <2>1 DEF LoopsTyped
    <2> QED
      BY <1>8, <2>1, <2>3, <2>4 DEF UnitTyped
  <1>10. /\ agenda' = <<Task("compound")>> /\ insertBlock' = Len(blocks) + 1
         /\ currentFunction' = f
    BY DEF DefineFunction, Fresh
  <1>11. agenda' \in Seq(Tasks(Block')) /\ insertBlock' \in Block' /\ insertBlock' # Null
    BY <1>1, <1>7, <1>10 DEF Tasks, Task, Null
  <1>12. TypeOK'
    <2>1. TypeOK' <=> (/\ UnitTyped
                       /\ blocks \in Seq(BlocksOver(Block))
                       /\ insertBlock \in Block \union {Null}
                       /\ currentFunction # None => insertBlock # Null
                       /\ agenda \in Seq(Tasks(Block))
                       /\ PlacesTyped(Block) /\ LoopsTyped(Block))'
      BY TypeParts, PTL
    <2> QED
      BY <1>6, <1>7, <1>9, <1>11, <2>1
  <1>13. currentFunction' # None
    BY <1>10, CodeGeneratorAssumption
  <1>14. LoopsNest'
    <2>1. \A k \in DOMAIN agenda' : ~LoopEnd(agenda'[k])
      BY <1>10, TaskDos, NotLoopEnds
    <2>2. Depths(agenda', Len(loops'), [k \in DOMAIN agenda' |-> 0])
      BY <2>1 DEF Depths
    <2>3. [k \in DOMAIN agenda' |-> 0] \in [DOMAIN agenda' -> Nat]
      OBVIOUS
    <2> QED
      BY <2>2, <2>3 DEF LoopsNest
  <1> QED
    BY <1>1, <1>6, <1>7, <1>12, <1>13, <1>14 DEF TypeInv, Fresh, new

(* The end of a function: its last block ends, if it has not. *)
LEMMA FinishTyped ==
  ASSUME TypeInv, FinishFunction
  PROVE  /\ TypeInv'
         /\ insertBlock \in Block
         /\ IF blocks[insertBlock].terminators = <<>>
              THEN Grown(0, insertBlock, <<>>, Null) ELSE blocks' = blocks
         /\ Block' = Block
  <1>1. /\ currentFunction \in FunctionNames /\ insertBlock \in Block
        /\ agenda = <<>> /\ UnitTyped
        /\ blocks \in Seq(BlocksOver(Block))
    BY TypeParts DEF TypeInv, FinishFunction, UnitTyped
  <1>2. Len(blocks) \in Nat /\ Block = 1 .. Len(blocks)
    BY TypeOfBlocks DEF TypeInv
  <1>3. IF blocks[insertBlock].terminators = <<>>
          THEN Grown(0, insertBlock, <<>>, Null) ELSE blocks' = blocks
    <2>1. CASE blocks[insertBlock].terminators = <<>>
      <3>1. blocks' = Terminated(Created(0), insertBlock, <<>>)
        BY <2>1, CreatedNone DEF FinishFunction, TypeInv
      <3>2. <<>> \in Seq(1 .. Len(blocks) + 0 \union {Null})
        OBVIOUS
      <3>3. Grown(0, insertBlock, <<>>, Null)
        BY <1>1, <3>1, <3>2, GrownByTerminated DEF TypeInv
      <3> QED
        BY <2>1, <3>3
    <2>2. CASE blocks[insertBlock].terminators # <<>>
      BY <2>2 DEF FinishFunction
    <2> QED
      BY <2>1, <2>2
  <1>4. blocks' \in Seq(BlocksOver(Block)) /\ Len(blocks') = Len(blocks)
    BY <1>1, <1>2, <1>3 DEF Grown
  <1>5. Block' = Block
    <2>1. DOMAIN blocks' = 1 .. Len(blocks')
      BY <1>4
    <2> QED
      BY <1>2, <1>4, <2>1 DEF Block
  <1>6. /\ UNCHANGED <<unit, insertBlock, mapLabel, points, agenda, statements,
                       operators, history>>
        /\ currentFunction' = None
    BY DEF FinishFunction
  <1>7. PlacesTyped(Block) /\ LoopsTyped(Block) /\ UnitTyped /\ LoopsNest
    BY TypeParts DEF TypeInv
  <1>8. PlacesTyped(Block)' /\ LoopsTyped(Block)' /\ UnitTyped'
    BY <1>5, <1>6, <1>7
    DEF PlacesTyped, LoopsTyped, UnitTyped, unit, points, history
  <1>9. LoopsNest'
    BY <1>6, <1>7 DEF LoopsNest, history
  <1>10. agenda' = <<>> /\ agenda' \in Seq(Tasks(Block'))
    BY <1>1, <1>6
  <1>11. TypeOK'
    <2>1. TypeOK' <=> (/\ UnitTyped
                       /\ blocks \in Seq(BlocksOver(Block))
                       /\ insertBlock \in Block \union {Null}
                       /\ currentFunction # None => insertBlock # Null
                       /\ agenda \in Seq(Tasks(Block))
                       /\ PlacesTyped(Block) /\ LoopsTyped(Block))'
      BY TypeParts, PTL
    <2> QED
      BY <1>1, <1>4, <1>5, <1>6, <1>8, <1>10, <2>1
  <1> QED
    BY <1>1, <1>3, <1>5, <1>9, <1>10, <1>11 DEF TypeInv

(* ... and declarations. *)
LEMMA DeclareTyped ==
  ASSUME TypeInv, NEW f \in FunctionNames, DeclareFunction(f) \/ InnerDeclaration(f)
  PROVE  TypeInv'
  <1>1. /\ UNCHANGED <<extent, defined, currentFunction, blocks, insertBlock, points,
                       agenda, statements, operators, history>>
        /\ declared' = declared \union {f} /\ mapLabel' = NoLabels
    BY DEF DeclareFunction, InnerDeclaration, StartPrototype
  <1>2. /\ UnitTyped /\ PlacesTyped(Block) /\ LoopsTyped(Block) /\ LoopsNest
        /\ blocks \in Seq(BlocksOver(Block)) /\ agenda \in Seq(Tasks(Block))
        /\ insertBlock \in Block \union {Null}
        /\ currentFunction # None => insertBlock # Null
        /\ agenda # <<>> => currentFunction # None
    BY TypeParts DEF TypeInv
  <1>3. UnitTyped'
    BY <1>1, <1>2 DEF UnitTyped
  <1>4. Block' = Block
    BY <1>1 DEF Block
  <1>5. NoLabels \in [Labels -> Block \union {Null}]
    BY DEF NoLabels
  <1>6. PlacesTyped(Block)' /\ LoopsTyped(Block)'
    BY <1>1, <1>2, <1>4, <1>5 DEF PlacesTyped, LoopsTyped, points, history
  <1>7. LoopsNest'
    BY <1>1, <1>2 DEF LoopsNest, history
  <1>8. TypeOK'
    <2>1. TypeOK' <=> (/\ UnitTyped
                       /\ blocks \in Seq(BlocksOver(Block))
                       /\ insertBlock \in Block \union {Null}
                       /\ currentFunction # None => insertBlock # Null
                       /\ agenda \in Seq(Tasks(Block))
                       /\ PlacesTyped(Block) /\ LoopsTyped(Block))'
      BY TypeParts, PTL
    <2> QED
      BY <1>1, <1>2, <1>3, <1>4, <1>6, <2>1
  <1> QED
    BY <1>1, <1>2, <1>7, <1>8 DEF TypeInv

(* It holds before anything is emitted ... *)
LEMMA TypeInit == Init => TypeInv
  <1> SUFFICES ASSUME Init PROVE TypeInv
    OBVIOUS
  <1> USE DEF Init
  <1>1. extent.maxStatements \in Nat /\ extent.maxOperators \in Nat
    BY CodeGeneratorAssumption
  <1>2. Block = {} /\ Len(loops) = 0 /\ DOMAIN agenda = {} /\ DOMAIN loopBlocks = {}
    BY DEF Block
  <1>3. UnitTyped
    BY <1>1 DEF UnitTyped
  <1>4. PlacesTyped(Block) /\ LoopsTyped(Block)
    BY <1>2 DEF PlacesTyped, LoopsTyped, NoLabels
  <1>5. TypeOK
    BY <1>2, <1>3, <1>4, TypeParts
  <1>6. Depths(agenda, Len(loops), [k \in DOMAIN agenda |-> 0])
    BY <1>2 DEF Depths
  <1>7. [k \in DOMAIN agenda |-> 0] \in [DOMAIN agenda -> Nat]
    OBVIOUS
  <1>8. LoopsNest
    BY <1>6, <1>7 DEF LoopsNest
  <1> QED
    BY <1>5, <1>8 DEF TypeInv

(* ... and every step keeps it. *)
LEMMA TypeStep == TypeInv /\ [Next]_vars => TypeInv'
  <1> SUFFICES ASSUME TypeInv, [Next]_vars PROVE TypeInv'
    OBVIOUS
  <1>1. CASE UNCHANGED vars
    <2>1. UNCHANGED <<extent, declared, defined, currentFunction, blocks,
                      insertBlock, breakPoint, continuePoint, mapLabel, agenda,
                      statements, operators, loops, loopBlocks, jumps, placed, gotos>>
      BY <1>1 DEF vars, ir, points, unit, history
    <2>2. TypeOK' <=> TypeOK
      BY <2>1 DEF TypeOK, Block
    <2>3. LoopsNest' <=> LoopsNest
      BY <2>1 DEF LoopsNest
    <2> QED
      BY <2>1, <2>2, <2>3 DEF TypeInv
  <1>2. ASSUME NEW f \in FunctionNames,
               DeclareFunction(f) \/ DefineFunction(f) \/ InnerDeclaration(f)
        PROVE  TypeInv'
    BY <1>2, DeclareTyped, DefineTyped
  <1>3. CASE FinishFunction
    BY <1>3, FinishTyped
  <1>4. CASE Statement
    <2>1. extent.labels \subseteq Labels
      BY TypeParts, CodeGeneratorAssumption DEF TypeInv, UnitTyped
    <2> QED
      BY <1>4, <2>1, QuietTyped, JumpTyped, WhileTyped, EndWhileTyped, DoTyped,
         EndDoTyped, SelectionTyped, LabelTyped DEF Statement
  <1>5. CASE Expression
    BY <1>5, QuietTyped, ConditionTyped, ConnectsTyped DEF Expression
  <1> QED
    BY <1>1, <1>2, <1>3, <1>4, <1>5 DEF Next

(* The variables of the code generator keep their types, for every kind of *)
(* translation unit: in particular every block an instruction or a label   *)
(* refers to exists, and a loop that ends has been entered. *)
THEOREM GeneratorTypes == Spec => []TypeOK
  <1>1. TypeInv => TypeOK
    BY DEF TypeInv
  <1> QED
    BY <1>1, TypeInit, TypeStep, PTL DEF Spec

-----------------------------------------------------------------------------
(* Blocks that end once.                                                   *)
(*                                                                         *)
(* A block without an end is waited for by exactly one thing: it is the    *)
(* current block, or one call of the agenda opens it, or it is the block   *)
(* of a label that gotos have named and no statement has placed.  The      *)
(* label map must be cleared between two functions for this: a unit that   *)
(* uses labels declares no function ahead of its definition.               *)
SoundUnit == \/ extent.labels = {}
             \/ extent.prototyped = {} /\ extent.innerPrototyped = {}

Open    == {b \in Block : blocks[b].terminators = <<>>}
Current == IF currentFunction = None \/ OpensNext(agenda) THEN {} ELSE {insertBlock}
Named   == {l \in Labels : mapLabel[l] # Null /\ placed[l] = Null}
Pending == {mapLabel[l] : l \in Named}

BlocksFit ==
  /\ Alternates(agenda) /\ Distinct(agenda)
  /\ Open = Opened(agenda) \union Current \union Pending
  /\ Opened(agenda) \cap Current = {}
  /\ Pending \cap (Opened(agenda) \union Current) = {}
  /\ \A b \in Block : Len(blocks[b].terminators) <= 1

(* The labels of the function that is emitted. *)
LabelsFit ==
  /\ extent.labels = {} => mapLabel = NoLabels /\ placed = NoLabels
  /\ extent.labels # {} => declared = defined
  /\ ~Finished =>
       /\ \A l \in Labels : placed[l] # Null => placed[l] = mapLabel[l]
       /\ \A l, m \in Labels : mapLabel[l] # Null /\ mapLabel[l] = mapLabel[m] => l = m
       /\ \A g \in gotos : g.to = mapLabel[g.label]
       /\ \A l \in Named : \E g \in gotos : g.label = l
  /\ Finished => Named = {}

Fit    == BlocksFit /\ LabelsFit /\ LabelsAreLocal /\ GotoReachesLabel
FitInv == TypeInv /\ (SoundUnit => Fit)


(* Where the code goes after a step: into the current block, unless a call *)
(* that opens another block is next. *)
After(ts) == IF (IF ts = <<>> THEN Closer(Head(agenda)) ELSE Opener(ts[1]))
               THEN {} ELSE {insertBlock'}
Made(n)   == Len(blocks) + 1 .. Len(blocks) + n

(* The blocks without an end that a step leaves are those it found or made,*)
(* except the one it ends: none is forgotten, none is waited for twice. *)
Balanced(x, made, ts, pending, pendingNext) ==
  /\ Fits(Head(agenda), ts) /\ Distinct(ts)
  /\ x \in {Null} \union Current \union Opens(Head(agenda))
  /\ Opened(ts) \cap After(ts) = {}
  /\ pendingNext \cap (Opened(ts) \union After(ts)) = {}
  /\ Opened(ts) \union After(ts) \union pendingNext
       = (made \union Current \union Opens(Head(agenda)) \union pending) \ {x}

(* The step leaves open what was open or is made, without the block it *)
(* ends; and no block has two ends if the one it ends had none.        *)
LEMMA OpenAfter ==
  ASSUME TypeInv, NEW n, NEW x, NEW succs, NEW phi, NEW ts,
         Emission(n, x, succs, phi, ts), x = Null \/ x \in Open
  PROVE  /\ Open' = (Open \union Made(n)) \ {x}
         /\ Open \cap Made(n) = {}
         /\ (\A b \in Block : Len(blocks[b].terminators) <= 1)
              => \A b \in Block' : Len(blocks'[b].terminators) <= 1
  <1>1. /\ Len(blocks) \in Nat /\ Block = 1 .. Len(blocks) /\ n \in Nat
        /\ Block' = 1 .. Len(blocks) + n
        /\ blocks \in Seq(BlocksOver(Block))
    <2>1. TypeOK /\ n \in Nat
      BY DEF TypeInv, Emission
    <2>2. Len(blocks) \in Nat /\ Block = 1 .. Len(blocks)
      BY <2>1, TypeOfBlocks
    <2>3. Block' = 1 .. Len(blocks) + n
      BY <2>1, EmissionTypes
    <2>4. blocks \in Seq(BlocksOver(Block))
      BY <2>1, TypeParts
    <2> QED
      BY <2>1, <2>2, <2>3, <2>4
  <1>2. \A b \in Block' : blocks'[b].terminators =
          IF b = x THEN Append(Terms(b), succs) ELSE Terms(b)
    BY <1>1 DEF Emission, Grown
  <1>4. \A b \in Block' : b \in Block \/ b \in Made(n)
    BY <1>1 DEF Made
  <1>5. \A b \in Made(n) : b \notin Block /\ b # x /\ b \in Block' /\ Terms(b) = <<>>
    BY <1>1 DEF Made, Terms, Open, Null
  <1>6. x \in Block' => Append(Terms(x), succs) # <<>> /\ Len(Append(Terms(x), succs)) = 1
    BY <1>1, <1>4, <1>5 DEF Open, Terms, Null
  <1>7. Open' = {b \in Block' : blocks'[b].terminators = <<>>}
    BY DEF Open
  <1>8. ASSUME NEW b
        PROVE  b \in Open' <=> b \in (Open \union Made(n)) \ {x}
    <2>1. CASE b \in Block
      <3>1. b \notin Made(n) /\ b \in Block'
        BY <1>1, <1>5, <2>1
      <3>2. b \in Open' <=> blocks'[b].terminators = <<>>
        BY <1>7, <3>1
      <3>3. b \in Open <=> blocks[b].terminators = <<>>
        BY <2>1 DEF Open
      <3>4. CASE b = x
        BY <1>2, <1>6, <3>1, <3>2, <3>4
      <3>5. CASE b # x
        BY <1>2, <2>1, <3>1, <3>2, <3>3, <3>5 DEF Terms
      <3> QED
        BY <3>4, <3>5
    <2>2. CASE b \notin Block
      BY <1>1, <1>2, <1>4, <1>5, <1>7, <2>2 DEF Open
    <2> QED
      BY <2>1, <2>2
  <1>9. Open \cap Made(n) = {}
    BY <1>5 DEF Open
  <1>10. ASSUME \A b \in Block : Len(blocks[b].terminators) <= 1, NEW b \in Block'
         PROVE  Len(blocks'[b].terminators) <= 1
    <2>1. CASE b = x
      <3> DEFINE last == Append(Terms(x), succs)
      <3>1. blocks'[b].terminators = last /\ Len(last) = 1
        BY <1>2, <1>6, <2>1
      <3> HIDE DEF last
      <3> QED
        BY <3>1
    <2>2. CASE b # x
      BY <1>2, <1>4, <1>5, <1>10, <2>2 DEF Terms
    <2> QED
      BY <2>1, <2>2
  <1> QED
    BY <1>8, <1>9, <1>10

(* If the step balances what it makes and what its calls open, each open *)
(* block is still waited for by exactly one thing.                       *)
LEMMA BlocksStayFit ==
  ASSUME TypeInv, BlocksFit, NEW n, NEW x, NEW succs, NEW phi, NEW ts,
         Emission(n, x, succs, phi, ts),
         Balanced(x, Made(n), ts, Pending, Pending')
  PROVE  BlocksFit'
  <1> DEFINE t == Head(agenda)
             rest == Opened(agenda) \ Opens(t)
  <1>1. /\ agenda # <<>> /\ agenda' = Replace(agenda, ts)
        /\ ts \in Seq(Tasks(1 .. Len(blocks) + n))
        /\ agenda \in Seq(Tasks(1 .. Len(blocks) + n))
    BY EmissionTypes DEF Emission, TypeInv
  <1>2. /\ Alternates(agenda) /\ Distinct(agenda)
        /\ Open = Opened(agenda) \union Current \union Pending
        /\ Opened(agenda) \cap Current = {}
        /\ Pending \cap (Opened(agenda) \union Current) = {}
        /\ \A b \in Block : Len(blocks[b].terminators) <= 1
    BY DEF BlocksFit
  <1>3. /\ Fits(t, ts) /\ Distinct(ts)
        /\ x \in {Null} \union Current \union Opens(t)
        /\ Opened(ts) \cap After(ts) = {}
        /\ Pending' \cap (Opened(ts) \union After(ts)) = {}
        /\ Opened(ts) \union After(ts) \union Pending'
             = (Made(n) \union Current \union Opens(t) \union Pending) \ {x}
    BY DEF Balanced
  <1>4. Opens(t) \subseteq Opened(agenda)
    <2>1. 1 \in DOMAIN agenda /\ t = agenda[1]
      BY <1>1, ReplaceIndex
    <2> QED
      BY <2>1, OpenedMember
  <1>5. x = Null \/ x \in Open
    BY <1>2, <1>3, <1>4
  <1>6. /\ Open' = (Open \union Made(n)) \ {x}
        /\ Open \cap Made(n) = {}
        /\ \A b \in Block' : Len(blocks'[b].terminators) <= 1
    BY <1>2, <1>5, OpenAfter
  <1> HIDE DEF t
  <1>7. Opened(ts) \cap rest = {}
    BY <1>2, <1>3, <1>6
  <1>8. /\ Distinct(agenda') /\ Opened(agenda') = Opened(ts) \union rest
    BY <1>1, <1>2, <1>3, <1>7, ReplaceOpened DEF t
  <1>9. /\ Alternates(agenda')
        /\ OpensNext(agenda') <=> IF ts = <<>> THEN Closer(t) ELSE Opener(ts[1])
    BY <1>1, <1>2, <1>3, ReplaceAlternates DEF t
  <1>10. Current' = After(ts)
    <2>1. currentFunction' # None
      BY <1>1 DEF Emission, TypeInv
    <2> QED
      BY <1>9, <2>1 DEF Current, After, t
  <1>11. x \notin rest /\ x \notin Pending
    BY <1>2, <1>3, <1>4, <1>5, TypeOfBlocks DEF Open, TypeInv
  <1>12. Open' = Opened(agenda') \union Current' \union Pending'
    BY <1>2, <1>3, <1>4, <1>6, <1>8, <1>10, <1>11
  <1>13. Opened(agenda') \cap Current' = {}
    BY <1>2, <1>3, <1>4, <1>6, <1>8, <1>10
  <1>14. Pending' \cap (Opened(agenda') \union Current') = {}
    BY <1>2, <1>3, <1>4, <1>6, <1>8, <1>10
  <1> QED
    BY <1>6, <1>8, <1>9, <1>12, <1>13, <1>14 DEF BlocksFit

(* Steps that neither name nor place a label. *)
Settles(n, x, ts) ==
  /\ Fits(Head(agenda), ts) /\ Distinct(ts)
  /\ x \in {Null} \union Current \union Opens(Head(agenda))
  /\ Opened(ts) \cap After(ts) = {}
  /\ Opened(ts) \union After(ts)
       = (Made(n) \union Current \union Opens(Head(agenda))) \ {x}

(* The blocks of labels are then the same as before. *)
LEMMA SettledFit ==
  ASSUME TypeInv, BlocksFit, NEW n, NEW x, NEW succs, NEW phi, NEW ts,
         Emission(n, x, succs, phi, ts), Settles(n, x, ts),
         UNCHANGED <<mapLabel, placed>>
  PROVE  BlocksFit'
  <1>1. Pending' = Pending
    BY DEF Pending, Named
  <1>2. Opens(Head(agenda)) \subseteq Opened(agenda)
    <2>1. 1 \in DOMAIN agenda /\ Head(agenda) = agenda[1]
      <3>1. /\ agenda # <<>> /\ ts \in Seq(Tasks(1 .. Len(blocks) + n))
            /\ agenda \in Seq(Tasks(1 .. Len(blocks) + n))
        BY EmissionTypes DEF Emission, TypeInv
      <3> QED
        BY <3>1, ReplaceIndex
    <2> QED
      BY <2>1, OpenedMember
  <1>3. Pending \cap Made(n) = {} /\ Null \notin Pending
    <2>1. Pending \subseteq Block
      BY DEF BlocksFit, Open
    <2>2. Block \cap Made(n) = {} /\ Null \notin Block
      BY TypeOfBlocks DEF TypeInv, Made
    <2> QED
      BY <2>1, <2>2
  <1>4. Balanced(x, Made(n), ts, Pending, Pending')
    BY <1>1, <1>2, <1>3 DEF Balanced, Settles, BlocksFit
  <1> QED
    BY <1>4, BlocksStayFit

(* Unless the next call opens a block, the current one is open; made blocks *)
(* are new and differ.                                                      *)
LEMMA HeadFacts ==
  ASSUME TypeInv, agenda # <<>>
  PROVE  /\ Current = IF Opener(Head(agenda)) THEN {} ELSE {insertBlock}
         /\ insertBlock # Null /\ insertBlock \notin Made(1)
         /\ Fits(Head(agenda), <<>>) /\ Distinct(<<>>) /\ Opened(<<>>) = {}
         /\ Made(0) = {} /\ Made(1) = {Fresh(1)} /\ Made(2) = {Fresh(1), Fresh(2)}
         /\ Made(3) = {Fresh(1), Fresh(2), Fresh(3)}
         /\ Made(4) = {Fresh(1), Fresh(2), Fresh(3), Fresh(4)}
         /\ \A k, m \in 1 .. 4 : Fresh(k) # insertBlock /\ Fresh(k) # Null
                                 /\ (k # m => Fresh(k) # Fresh(m))
  <1>1. insertBlock \in Block /\ Len(blocks) \in Nat /\ Block = 1 .. Len(blocks)
    BY InBody
  <1>2. Current = IF Opener(Head(agenda)) THEN {} ELSE {insertBlock}
    BY DEF Current, OpensNext, TypeInv
  <1>3. Fits(Head(agenda), <<>>) /\ Distinct(<<>>) /\ Opened(<<>>) = {}
    BY DEF Fits, Distinct, Opened, Linked
  <1>4. /\ Made(0) = {} /\ Made(1) = {Fresh(1)} /\ Made(2) = {Fresh(1), Fresh(2)}
        /\ Made(3) = {Fresh(1), Fresh(2), Fresh(3)}
    BY <1>1 DEF Made, Fresh
  <1>5. Made(4) = {Fresh(1), Fresh(2), Fresh(3), Fresh(4)}
    BY <1>1 DEF Made, Fresh
  <1> QED
    BY <1>1, <1>2, <1>3, <1>4, <1>5 DEF Fresh, Null

(* Each action settles its blocks. *)
LEMMA QuietSettles ==
  ASSUME TypeInv, NEW ts, Plain(ts), Emission(0, Null, <<>>, Null, ts),
         UNCHANGED insertBlock, Head(agenda).do \in {"compound", "statement", "rvalue"}
  PROVE  Settles(0, Null, ts)
  <1>1. agenda # <<>> /\ ts \in Seq(Tasks(1 .. Len(blocks) + 0))
    BY DEF Emission
  <1>2. /\ Linked(ts) /\ Distinct(ts) /\ Opened(ts) = {}
        /\ ts # <<>> => ~Closer(ts[Len(ts)]) /\ ~Opener(ts[1])
    BY <1>1, PlainCalls
  <1>3. /\ ~Closer(Head(agenda)) /\ ~Opener(Head(agenda)) /\ Opens(Head(agenda)) = {}
    BY DEF Closer, Opener, Opens
  <1>4. Current = {insertBlock} /\ insertBlock # Null /\ Made(0) = {}
    BY <1>1, <1>3, HeadFacts
  <1> QED
    BY <1>2, <1>3, <1>4 DEF Settles, Fits, After

(* A statement's call: the current block ends, code goes on in the first   *)
(* block made, and the calls put on the agenda open the others. *)
LEMMA MakingSettles ==
  ASSUME TypeInv, BlocksFit, agenda # <<>>,
         Head(agenda).do \in {"statement", "return", "doTest"},
         NEW n \in 1 .. 4, NEW ts, Linked(ts), Distinct(ts),
         ts # <<>> => ~Closer(ts[Len(ts)]) /\ ~Opener(ts[1]),
         insertBlock' = Fresh(1), Opened(ts) = Made(n) \ {Fresh(1)}
  PROVE  Settles(n, insertBlock, ts)
  <1>1. /\ ~Closer(Head(agenda)) /\ ~Opener(Head(agenda)) /\ Opens(Head(agenda)) = {}
    BY DEF Closer, Opener, Opens
  <1>2. Current = {insertBlock} /\ insertBlock \notin Made(n)
    <2>1. insertBlock \in Block /\ Len(blocks) \in Nat /\ Block = 1 .. Len(blocks)
      BY InBody
    <2> QED
      BY <1>1, <2>1, HeadFacts DEF Made
  <1>3. Fresh(1) \in Made(n)
    BY InBody DEF Fresh, Made
  <1>4. Fits(Head(agenda), ts) /\ After(ts) = {Fresh(1)}
    BY <1>1 DEF Fits, After
  <1> QED
    BY <1>1, <1>2, <1>3, <1>4 DEF Settles

(* A condition or a value: the blocks made are opened later. *)
LEMMA ExpressionSettles ==
  ASSUME TypeInv, BlocksFit, agenda # <<>>,
         Head(agenda).do \in {"condition", "rvalue"},
         NEW n \in 0 .. 3, NEW ts, Linked(ts), Distinct(ts),
         ts # <<>>, Closer(ts[Len(ts)]) <=> Closer(Head(agenda)), ~Opener(ts[1]),
         insertBlock' = insertBlock, Opened(ts) = Made(n)
  PROVE  Settles(n, Null, ts)
  <1>1. /\ ~Opener(Head(agenda)) /\ Opens(Head(agenda)) = {}
    BY DEF Opener, Opens
  <1>2. Current = {insertBlock} /\ insertBlock \notin Made(n) /\ Null \notin Made(n)
        /\ insertBlock # Null
    <2>1. insertBlock \in Block /\ Len(blocks) \in Nat /\ Block = 1 .. Len(blocks)
      BY InBody
    <2> QED
      BY <1>1, <2>1, HeadFacts DEF Made, Null
  <1>3. Fits(Head(agenda), ts) /\ After(ts) = {insertBlock}
    BY DEF Fits, After
  <1> QED
    BY <1>1, <1>2, <1>3 DEF Settles

(* A call with nothing put in its place. *)
LEMMA ClosingSettles ==
  ASSUME TypeInv, BlocksFit, agenda # <<>>
  PROVE  /\ Head(agenda).do \in {"connect", "connectPhi", "conditionalBranch"}
              => Settles(0, insertBlock, <<>>)
         /\ Head(agenda).do = "connectFrom" => Settles(0, Head(agenda).from, <<>>)
         /\ Head(agenda).do = "insertAt" /\ insertBlock' = Head(agenda).block
              => Settles(0, Null, <<>>)
         /\ Head(agenda).do = "endWhile" /\ insertBlock' = Head(agenda).end
              => Settles(0, insertBlock, <<>>)
  <1> DEFINE t == Head(agenda)
  <1>1. /\ Current = IF Opener(t) THEN {} ELSE {insertBlock}
        /\ Fits(t, <<>>) /\ Distinct(<<>>) /\ Opened(<<>>) = {} /\ Made(0) = {}
    BY HeadFacts
  <1>2. Opens(t) \subseteq Opened(agenda) /\ Opens(t) \subseteq Block
    <2>1. agenda \in Seq(Tasks(Block)) /\ agenda # <<>>
      BY TypeParts DEF TypeInv
    <2>2. 1 \in DOMAIN agenda /\ t = agenda[1] /\ t \in Tasks(Block)
      BY <2>1
    <2> QED
      BY <2>2, OpenedMember, TaskFields
  <1>3. Null \notin Block
    BY TypeOfBlocks DEF TypeInv
  <1> HIDE DEF t
  <1>4. CASE t.do \in {"connect", "connectPhi", "conditionalBranch"}
    <2>1. Closer(t) /\ ~Opener(t) /\ Opens(t) = {}
      BY <1>4 DEF Closer, Opener, Opens
    <2> QED
      BY <1>1, <1>4, <2>1 DEF Settles, After, t
  <1>5. CASE t.do = "connectFrom"
    <2>1. Closer(t) /\ Opener(t) /\ Opens(t) = {t.from}
      BY <1>5 DEF Closer, Opener, Opens
    <2> QED
      BY <1>1, <1>5, <2>1 DEF Settles, After, t
  <1>6. CASE t.do = "insertAt"
    <2>1. ~Closer(t) /\ Opener(t) /\ Opens(t) = {t.block}
      BY <1>6 DEF Closer, Opener, Opens
    <2> QED
      BY <1>1, <1>2, <1>3, <1>6, <2>1 DEF Settles, After, t
  <1>7. CASE t.do = "endWhile"
    <2>1. ~Closer(t) /\ ~Opener(t) /\ Opens(t) = {t.end}
      BY <1>7 DEF Closer, Opener, Opens
    <2>2. t.end # insertBlock
      BY <1>1, <1>2, <2>1 DEF BlocksFit
    <2> QED
      BY <1>1, <1>2, <1>7, <2>1, <2>2 DEF Settles, After, t
  <1> QED
    BY <1>4, <1>5, <1>6, <1>7 DEF t

(* The calls with the blocks that a step makes: what they open, what they  *)
(* branch to, the blocks that get a phi node, and whether they end the     *)
(* current block. *)
Shaped(ts, opened, aimed, phis, closes) ==
  /\ ts # <<>> /\ Linked(ts) /\ Distinct(ts) /\ ~Opener(ts[1])
  /\ Closer(ts[Len(ts)]) <=> closes
  /\ Opened(ts) = opened /\ Aimed(ts) = aimed /\ PhiEnds(ts) = phis

(* The calls of statements and values. *)
LEMMA StatementShapes ==
  ASSUME TypeInv, agenda # <<>>
  PROVE  /\ Shaped(WhileCalls(Fresh(1), Fresh(2), Fresh(3)), {Fresh(2), Fresh(3)},
                   {Fresh(1), Fresh(2), Fresh(3)}, {}, FALSE)
         /\ Shaped(DoCalls(Fresh(1)), {}, {Fresh(1)}, {}, FALSE)
         /\ Shaped(EndDoCalls(Head(agenda).content, Fresh(2)), {Fresh(2)},
                   {Head(agenda).content, Fresh(2)}, {}, FALSE)
         /\ \A ts \in {IfCalls(Fresh(2), Fresh(3), Fresh(4)),
                       IfElseCalls(Fresh(2), Fresh(3), Fresh(4))} :
              Shaped(ts, {Fresh(2), Fresh(3), Fresh(4)},
                     {Fresh(2), Fresh(3), Fresh(4)}, {}, FALSE)
         /\ Shaped(ValueCalls(Fresh(1), Fresh(2), Fresh(3)),
                   {Fresh(1), Fresh(2), Fresh(3)}, {Fresh(1), Fresh(2)},
                   {Fresh(3)}, FALSE)
  <1> DEFINE content == Head(agenda).content
             B == {content, Fresh(1), Fresh(2), Fresh(3), Fresh(4)}
  <1>1. /\ Fresh(1) \in B /\ Fresh(2) \in B /\ Fresh(3) \in B /\ Fresh(4) \in B
        /\ content \in B
    OBVIOUS
  <1>2. /\ Fresh(1) # Fresh(2) /\ Fresh(1) # Fresh(3) /\ Fresh(2) # Fresh(3)
        /\ Fresh(2) # Fresh(4) /\ Fresh(3) # Fresh(4)
    BY InBody DEF Fresh
  <1> HIDE DEF B, content
  <1>3. Shaped(WhileCalls(Fresh(1), Fresh(2), Fresh(3)), {Fresh(2), Fresh(3)},
               {Fresh(1), Fresh(2), Fresh(3)}, {}, FALSE)
    <2> DEFINE ts == WhileCalls(Fresh(1), Fresh(2), Fresh(3))
    <2>1. /\ ts # <<>> /\ Linked(ts) /\ Distinct(ts) /\ ~Opener(ts[1])
          /\ ~Closer(ts[Len(ts)])
      BY <1>1, <1>2, WhileCallsFit
    <2>2. Opened(ts) = {Fresh(2), Fresh(3)}
      BY <1>1, <1>2, WhileCallsFit
    <2>3. Aimed(ts) = {Fresh(1), Fresh(2), Fresh(3)}
      BY <1>1, <1>2, WhileCallsFit
    <2>4. PhiEnds(ts) = {}
      BY <1>1, <1>2, WhileCallsFit
    <2> HIDE DEF ts
    <2> QED
      BY <2>1, <2>2, <2>3, <2>4 DEF Shaped, ts
  <1>4. Shaped(DoCalls(Fresh(1)), {}, {Fresh(1)}, {}, FALSE)
    BY <1>1, DoCallsFit DEF Shaped
  <1>5. Shaped(EndDoCalls(content, Fresh(2)), {Fresh(2)}, {content, Fresh(2)}, {}, FALSE)
    <2> DEFINE ts == EndDoCalls(content, Fresh(2))
    <2>1. /\ ts # <<>> /\ Linked(ts) /\ Distinct(ts) /\ ~Opener(ts[1])
          /\ ~Closer(ts[Len(ts)])
      BY <1>1, EndDoCallsFit
    <2>2. Opened(ts) = {Fresh(2)}
      BY <1>1, EndDoCallsFit
    <2>3. Aimed(ts) = {content, Fresh(2)}
      BY <1>1, EndDoCallsFit
    <2>4. PhiEnds(ts) = {}
      BY <1>1, EndDoCallsFit
    <2> HIDE DEF ts
    <2> QED
      BY <2>1, <2>2, <2>3, <2>4 DEF Shaped, ts
  <1>6. Shaped(IfCalls(Fresh(2), Fresh(3), Fresh(4)), {Fresh(2), Fresh(3), Fresh(4)},
               {Fresh(2), Fresh(3), Fresh(4)}, {}, FALSE)
    BY <1>1, <1>2, IfCallsFit DEF Shaped
  <1>7. Shaped(IfElseCalls(Fresh(2), Fresh(3), Fresh(4)), {Fresh(2), Fresh(3), Fresh(4)},
               {Fresh(2), Fresh(3), Fresh(4)}, {}, FALSE)
    <2> DEFINE ts == IfElseCalls(Fresh(2), Fresh(3), Fresh(4))
    <2>1. /\ ts # <<>> /\ Linked(ts) /\ Distinct(ts) /\ ~Opener(ts[1])
          /\ ~Closer(ts[Len(ts)])
      BY <1>1, <1>2, IfElseCallsFit
    <2>2. Opened(ts) = {Fresh(2), Fresh(3), Fresh(4)}
      BY <1>1, <1>2, IfElseCallsFit
    <2>3. Aimed(ts) = {Fresh(2), Fresh(3), Fresh(4)}
      BY <1>1, <1>2, IfElseCallsFit
    <2>4. PhiEnds(ts) = {}
      BY <1>1, <1>2, IfElseCallsFit
    <2> HIDE DEF ts
    <2> QED
      BY <2>1, <2>2, <2>3, <2>4 DEF Shaped, ts
  <1>8. Shaped(ValueCalls(Fresh(1), Fresh(2), Fresh(3)),
               {Fresh(1), Fresh(2), Fresh(3)}, {Fresh(1), Fresh(2)}, {Fresh(3)}, FALSE)
    <2> DEFINE ts == ValueCalls(Fresh(1), Fresh(2), Fresh(3))
    <2>1. /\ ts # <<>> /\ Linked(ts) /\ Distinct(ts) /\ ~Opener(ts[1])
          /\ ~Closer(ts[Len(ts)])
      BY <1>1, <1>2, ValueCallsFit
    <2>2. Opened(ts) = {Fresh(1), Fresh(2), Fresh(3)}
      BY <1>1, <1>2, ValueCallsFit
    <2>3. Aimed(ts) = {Fresh(1), Fresh(2)}
      BY <1>1, <1>2, ValueCallsFit
    <2>4. PhiEnds(ts) = {Fresh(3)}
      BY <1>1, <1>2, ValueCallsFit
    <2> HIDE DEF ts
    <2> QED
      BY <2>1, <2>2, <2>3, <2>4 DEF Shaped, ts
  <1> QED
    BY <1>3, <1>4, <1>5, <1>6, <1>7, <1>8 DEF content

(* The calls of conditions all end the current block. *)
LEMMA ConditionShapes ==
  ASSUME TypeInv, agenda # <<>>
  PROVE  /\ Shaped(LeafCalls(Yes, No), {}, {Yes, No}, {}, TRUE)
         /\ Shaped(NotCalls(Yes, No), {}, {Yes, No}, {}, TRUE)
         /\ Shaped(AndCalls(Fresh(1), Yes, No), {Fresh(1)}, {Fresh(1), Yes, No}, {}, TRUE)
         /\ Shaped(OrCalls(Fresh(1), Yes, No), {Fresh(1)}, {Fresh(1), Yes, No}, {}, TRUE)
         /\ Shaped(TernaryCalls(Fresh(1), Fresh(2), Yes, No), {Fresh(1), Fresh(2)},
                   {Fresh(1), Fresh(2), Yes, No}, {}, TRUE)
  <1> DEFINE B == {Yes, No, Fresh(1), Fresh(2)}
  <1>1. Yes \in B /\ No \in B /\ Fresh(1) \in B /\ Fresh(2) \in B
    OBVIOUS
  <1>2. Fresh(1) # Fresh(2)
    BY InBody DEF Fresh
  <1> HIDE DEF B
  <1>3. /\ Shaped(LeafCalls(Yes, No), {}, {Yes, No}, {}, TRUE)
        /\ Shaped(NotCalls(Yes, No), {}, {Yes, No}, {}, TRUE)
    BY <1>1, LeafCallsFit, NotCallsFit DEF Shaped
  <1>4. Shaped(AndCalls(Fresh(1), Yes, No), {Fresh(1)}, {Fresh(1), Yes, No}, {}, TRUE)
    <2> DEFINE ts == AndCalls(Fresh(1), Yes, No)
    <2>1. /\ ts # <<>> /\ Linked(ts) /\ Distinct(ts) /\ ~Opener(ts[1])
          /\ Closer(ts[Len(ts)])
      BY <1>1, AndCallsFit
    <2>2. Opened(ts) = {Fresh(1)}
      BY <1>1, AndCallsFit
    <2>3. Aimed(ts) = {Fresh(1), Yes, No}
      BY <1>1, AndCallsFit
    <2>4. PhiEnds(ts) = {}
      BY <1>1, AndCallsFit
    <2> HIDE DEF ts
    <2> QED
      BY <2>1, <2>2, <2>3, <2>4 DEF Shaped, ts
  <1>5. Shaped(OrCalls(Fresh(1), Yes, No), {Fresh(1)}, {Fresh(1), Yes, No}, {}, TRUE)
    <2> DEFINE ts == OrCalls(Fresh(1), Yes, No)
    <2>1. /\ ts # <<>> /\ Linked(ts) /\ Distinct(ts) /\ ~Opener(ts[1])
          /\ Closer(ts[Len(ts)])
      BY <1>1, OrCallsFit
    <2>2. Opened(ts) = {Fresh(1)}
      BY <1>1, OrCallsFit
    <2>3. Aimed(ts) = {Fresh(1), Yes, No}
      BY <1>1, OrCallsFit
    <2>4. PhiEnds(ts) = {}
      BY <1>1, OrCallsFit
    <2> HIDE DEF ts
    <2> QED
      BY <2>1, <2>2, <2>3, <2>4 DEF Shaped, ts
  <1>6. Shaped(TernaryCalls(Fresh(1), Fresh(2), Yes, No), {Fresh(1), Fresh(2)},
               {Fresh(1), Fresh(2), Yes, No}, {}, TRUE)
    <2> DEFINE ts == TernaryCalls(Fresh(1), Fresh(2), Yes, No)
    <2>1. /\ ts # <<>> /\ Linked(ts) /\ Distinct(ts) /\ ~Opener(ts[1])
          /\ Closer(ts[Len(ts)])
      BY <1>1, <1>2, TernaryCallsFit
    <2>2. Opened(ts) = {Fresh(1), Fresh(2)}
      BY <1>1, <1>2, TernaryCallsFit
    <2>3. Aimed(ts) = {Fresh(1), Fresh(2), Yes, No}
      BY <1>1, <1>2, TernaryCallsFit
    <2>4. PhiEnds(ts) = {}
      BY <1>1, <1>2, TernaryCallsFit
    <2> HIDE DEF ts
    <2> QED
      BY <2>1, <2>2, <2>3, <2>4 DEF Shaped, ts
  <1> QED
    BY <1>3, <1>4, <1>5, <1>6

(* The steps of a function's body, other than those at a label or a goto. *)
Ordinary ==
  \/ CompoundStatement \/ NestedCompoundStatement \/ ExpressionStatement
  \/ ReturnStatement \/ RvalueLeaf \/ RvalueBinary
  \/ MakeReturn \/ BreakStatement \/ ContinueStatement
  \/ WhileStatement \/ EndWhileStatement \/ DoStatement \/ EndDoStatement
  \/ \E hasElse \in BOOLEAN : SelectionStatement(hasElse)
  \/ Expression

(* The blocks a condition makes are opened by its calls. *)
LEMMA ConditionSettles ==
  ASSUME TypeInv, BlocksFit, Head(agenda).do = "condition",
         Yes \in Block, No \in Block, NEW p \in ConditionPlans,
         Emission(p[1], Null, <<>>, Null, p[2]), UNCHANGED insertBlock
  PROVE  Settles(p[1], Null, p[2])
  <1>1. agenda # <<>> /\ Closer(Head(agenda))
    BY DEF Emission, Closer
  <1>2. Len(blocks) \in Nat /\ Block = 1 .. Len(blocks)
    BY <1>1, InBody
  <1>3. /\ Made(0) = {} /\ Made(1) = {Fresh(1)} /\ Made(2) = {Fresh(1), Fresh(2)}
        /\ Fresh(1) # Fresh(2)
    BY <1>1, HeadFacts
  <1>4. ASSUME NEW n \in 0 .. 3, NEW ts, NEW aimed,
               Shaped(ts, Made(n), aimed, {}, TRUE)
        PROVE  Settles(n, Null, ts)
    <2>1. /\ Linked(ts) /\ Distinct(ts) /\ ts # <<>> /\ Opened(ts) = Made(n)
          /\ Closer(ts[Len(ts)]) <=> Closer(Head(agenda))
          /\ ~Opener(ts[1])
      BY <1>1, <1>4 DEF Shaped
    <2> QED
      BY <1>1, <2>1, ExpressionSettles
  <1>5. CASE p = <<0, LeafCalls(Yes, No)>>
    <2>1. Settles(0, Null, LeafCalls(Yes, No))
      <3>1. Shaped(LeafCalls(Yes, No), {}, {Yes, No}, {}, TRUE)
        BY <1>1, ConditionShapes
      <3>2. Shaped(LeafCalls(Yes, No), Made(0), {Yes, No}, {}, TRUE)
        BY <1>3, <3>1
      <3>3. 0 \in 0 .. 3
        OBVIOUS
      <3> QED
        BY <1>4, <3>2, <3>3
    <2> QED
      BY <1>5, <2>1
  <1>6. CASE p = <<0, NotCalls(Yes, No)>>
    <2>1. Settles(0, Null, NotCalls(Yes, No))
      <3>1. Shaped(NotCalls(Yes, No), {}, {Yes, No}, {}, TRUE)
        BY <1>1, ConditionShapes
      <3>2. Shaped(NotCalls(Yes, No), Made(0), {Yes, No}, {}, TRUE)
        BY <1>3, <3>1
      <3>3. 0 \in 0 .. 3
        OBVIOUS
      <3> QED
        BY <1>4, <3>2, <3>3
    <2> QED
      BY <1>6, <2>1
  <1>7. CASE p = <<1, AndCalls(Fresh(1), Yes, No)>>
    <2>1. Settles(1, Null, AndCalls(Fresh(1), Yes, No))
      <3>1. Shaped(AndCalls(Fresh(1), Yes, No), {Fresh(1)}, {Fresh(1), Yes, No}, {}, TRUE)
        BY <1>1, ConditionShapes
      <3>2. Shaped(AndCalls(Fresh(1), Yes, No), Made(1), {Fresh(1), Yes, No}, {}, TRUE)
        BY <1>3, <3>1
      <3>3. 1 \in 0 .. 3
        OBVIOUS
      <3> QED
        BY <1>4, <3>2, <3>3
    <2> QED
      BY <1>7, <2>1
  <1>8. CASE p = <<1, OrCalls(Fresh(1), Yes, No)>>
    <2>1. Settles(1, Null, OrCalls(Fresh(1), Yes, No))
      <3>1. Shaped(OrCalls(Fresh(1), Yes, No), {Fresh(1)}, {Fresh(1), Yes, No}, {}, TRUE)
        BY <1>1, ConditionShapes
      <3>2. Shaped(OrCalls(Fresh(1), Yes, No), Made(1), {Fresh(1), Yes, No}, {}, TRUE)
        BY <1>3, <3>1
      <3>3. 1 \in 0 .. 3
        OBVIOUS
      <3> QED
        BY <1>4, <3>2, <3>3
    <2> QED
      BY <1>8, <2>1
  <1>9. CASE p = <<2, TernaryCalls(Fresh(1), Fresh(2), Yes, No)>>
    <2>1. Settles(2, Null, TernaryCalls(Fresh(1), Fresh(2), Yes, No))
      <3>1. Shaped(TernaryCalls(Fresh(1), Fresh(2), Yes, No), {Fresh(1), Fresh(2)}, {Fresh(1), Fresh(2), Yes, No}, {}, TRUE)
        BY <1>1, ConditionShapes
      <3>2. Shaped(TernaryCalls(Fresh(1), Fresh(2), Yes, No), Made(2), {Fresh(1), Fresh(2), Yes, No}, {}, TRUE)
        BY <1>3, <3>1
      <3>3. 2 \in 0 .. 3
        OBVIOUS
      <3> QED
        BY <1>4, <3>2, <3>3
    <2> QED
      BY <1>9, <2>1
  <1> QED
    BY <1>5, <1>6, <1>7, <1>8, <1>9 DEF ConditionPlans

(* These steps leave labels and declarations alone. *)
LEMMA OrdinaryKeeps ==
  ASSUME Ordinary
  PROVE  UNCHANGED <<mapLabel, placed, gotos, extent, declared, defined, currentFunction>>
  BY DEF Ordinary, Expression, CompoundStatement, NestedCompoundStatement, ExpressionStatement,
         ReturnStatement, RvalueLeaf, RvalueBinary, MakeReturn, BreakStatement,
         ContinueStatement, Jump, WhileStatement, EndWhileStatement, DoStatement,
         EndDoStatement, SelectionStatement, ConditionLeaf, MakeConditionalBranch,
         ConditionAnd, ConditionOr, ConditionNot, ConditionTernary, ConditionOperator,
         RvalueTernary, SetCurrentBasicBlock, ConnectCurrent, ConnectBlocks,
         ConnectArm, ir, unit, history

(* Each of them settles the blocks it makes. *)
LEMMA OrdinarySettles ==
  ASSUME TypeInv, BlocksFit, Ordinary
  PROVE  \E n, x, succs, phi, ts : Emission(n, x, succs, phi, ts) /\ Settles(n, x, ts)
  <1>1. CASE \/ CompoundStatement \/ NestedCompoundStatement \/ ExpressionStatement
             \/ ReturnStatement \/ RvalueLeaf \/ RvalueBinary
    <2>1. PICK ts : Plain(ts) /\ Emission(0, Null, <<>>, Null, ts)
      BY <1>1, QuietSteps
    <2>2. insertBlock' = insertBlock /\ Head(agenda).do \in {"compound", "statement", "rvalue"}
      BY <1>1, QuietSteps DEF ir
    <2> QED
      BY <2>1, <2>2, QuietSettles
  <1>2. CASE MakeReturn \/ BreakStatement \/ ContinueStatement
    <2>1. PICK succs : Emission(1, insertBlock, succs, Null, <<>>)
      BY <1>2, JumpSteps
    <2>2. insertBlock' = Fresh(1) /\ Head(agenda).do \in {"return", "statement"}
      BY <1>2, JumpSteps
    <2>3. agenda # <<>>
      BY <2>1 DEF Emission
    <2>4. /\ Made(1) = {Fresh(1)} /\ Distinct(<<>>) /\ Opened(<<>>) = {} /\ Linked(<<>>)
      BY <2>3, HeadFacts DEF Fits
    <2>5. Settles(1, insertBlock, <<>>)
      BY <2>2, <2>3, <2>4, MakingSettles
    <2> QED
      BY <2>1, <2>5
  <1>3. CASE WhileStatement
    <2> DEFINE ts == WhileCalls(Fresh(1), Fresh(2), Fresh(3))
    <2>1. /\ Emission(3, insertBlock, <<Fresh(1)>>, Null, ts)
          /\ {Fresh(1), Fresh(2), Fresh(3)} \subseteq 1 .. Len(blocks) + 3
          /\ Head(agenda).do = "statement" /\ insertBlock' = Fresh(1)
      BY <1>3, WhileStep DEF WhileStatement
    <2>2. agenda # <<>>
      BY <2>1 DEF Emission
    <2>3. /\ Made(3) = {Fresh(1), Fresh(2), Fresh(3)}
          /\ Fresh(1) # Fresh(2) /\ Fresh(1) # Fresh(3) /\ Fresh(2) # Fresh(3)
      BY <2>2, HeadFacts
    <2>4. /\ Linked(ts) /\ Distinct(ts) /\ ~Closer(ts[Len(ts)]) /\ ~Opener(ts[1])
          /\ Opened(ts) = {Fresh(2), Fresh(3)}
      BY <2>2, <2>3, StatementShapes DEF Shaped
    <2> HIDE DEF ts
    <2>5. Settles(3, insertBlock, ts)
      BY <2>1, <2>2, <2>3, <2>4, MakingSettles
    <2> QED
      BY <2>1, <2>5
  <1>4. CASE EndWhileStatement
    <2>1. /\ Emission(0, insertBlock, <<Head(agenda).header>>, Null, <<>>)
          /\ Head(agenda).do = "endWhile" /\ insertBlock' = Head(agenda).end
      BY <1>4, EndWhileStep
    <2>2. Settles(0, insertBlock, <<>>)
      BY <2>1, ClosingSettles DEF Emission
    <2> QED
      BY <2>1, <2>2
  <1>5. CASE DoStatement
    <2> DEFINE ts == DoCalls(Fresh(1))
    <2>1. /\ Emission(1, insertBlock, <<Fresh(1)>>, Null, ts)
          /\ Fresh(1) \in 1 .. Len(blocks) + 1
          /\ Head(agenda).do = "statement" /\ insertBlock' = Fresh(1)
      BY <1>5, DoStep DEF DoStatement
    <2>2. agenda # <<>>
      BY <2>1 DEF Emission
    <2>3. Made(1) = {Fresh(1)}
      BY <2>2, HeadFacts
    <2>4. /\ Linked(ts) /\ Distinct(ts) /\ ~Closer(ts[Len(ts)]) /\ ~Opener(ts[1])
          /\ Opened(ts) = {}
      BY <2>2, <2>3, StatementShapes DEF Shaped
    <2> HIDE DEF ts
    <2>5. Settles(1, insertBlock, ts)
      BY <2>1, <2>2, <2>3, <2>4, MakingSettles
    <2> QED
      BY <2>1, <2>5
  <1>6. CASE EndDoStatement
    <2> DEFINE ts == EndDoCalls(Head(agenda).content, Fresh(2))
    <2>1. /\ Emission(2, insertBlock, <<Fresh(1)>>, Null, ts)
          /\ {Fresh(1), Fresh(2), Head(agenda).content} \subseteq 1 .. Len(blocks) + 2
          /\ Head(agenda).do = "doTest" /\ insertBlock' = Fresh(1)
      BY <1>6, EndDoStep DEF EndDoStatement
    <2>2. agenda # <<>>
      BY <2>1 DEF Emission
    <2>3. Made(2) = {Fresh(1), Fresh(2)} /\ Fresh(1) # Fresh(2)
      BY <2>2, HeadFacts
    <2>4. /\ Linked(ts) /\ Distinct(ts) /\ ~Closer(ts[Len(ts)]) /\ ~Opener(ts[1])
          /\ Opened(ts) = {Fresh(2)}
      BY <2>2, <2>3, StatementShapes DEF Shaped
    <2> HIDE DEF ts
    <2>5. Settles(2, insertBlock, ts)
      BY <2>1, <2>2, <2>3, <2>4, MakingSettles
    <2> QED
      BY <2>1, <2>5
  <1>7. ASSUME NEW hasElse \in BOOLEAN, SelectionStatement(hasElse)
        PROVE  \E n, x, succs, phi, ts : Emission(n, x, succs, phi, ts) /\ Settles(n, x, ts)
    <2>1. PICK ts \in {IfCalls(Fresh(2), Fresh(3), Fresh(4)),
                       IfElseCalls(Fresh(2), Fresh(3), Fresh(4))} :
              Emission(4, insertBlock, <<Fresh(1)>>, Null, ts)
      BY <1>7, SelectionStep
    <2>2. /\ {Fresh(1), Fresh(2), Fresh(3), Fresh(4)} \subseteq 1 .. Len(blocks) + 4
          /\ Head(agenda).do = "statement" /\ insertBlock' = Fresh(1)
      BY <1>7, SelectionStep DEF SelectionStatement
    <2>3. agenda # <<>>
      BY <2>1 DEF Emission
    <2>4. /\ Made(4) = {Fresh(1), Fresh(2), Fresh(3), Fresh(4)}
          /\ Fresh(1) # Fresh(2) /\ Fresh(1) # Fresh(3) /\ Fresh(2) # Fresh(3)
          /\ Fresh(1) # Fresh(4) /\ Fresh(2) # Fresh(4) /\ Fresh(3) # Fresh(4)
      BY <2>3, HeadFacts
    <2>5. /\ Linked(ts) /\ Distinct(ts) /\ ~Closer(ts[Len(ts)]) /\ ~Opener(ts[1])
          /\ Opened(ts) = {Fresh(2), Fresh(3), Fresh(4)}
      BY <2>1, <2>3, StatementShapes DEF Shaped
    <2>6. Settles(4, insertBlock, ts)
      BY <2>2, <2>3, <2>4, <2>5, MakingSettles
    <2> QED
      BY <2>1, <2>6
  <1>8. CASE Expression
    <2>1. CASE ConditionLeaf \/ ConditionAnd \/ ConditionOr \/ ConditionNot \/ ConditionTernary
      <3>1. PICK p \in ConditionPlans : Emission(p[1], Null, <<>>, Null, p[2])
        BY <2>1, ConditionSteps
      <3>2. /\ Head(agenda).do = "condition" /\ Yes \in Block /\ No \in Block
            /\ UNCHANGED insertBlock
        BY <2>1, ConditionSteps
      <3>3. Settles(p[1], Null, p[2])
        BY <3>1, <3>2, ConditionSettles
      <3> QED
        BY <3>1, <3>3
    <2>2. CASE MakeConditionalBranch
      <3>1. /\ Emission(0, insertBlock, <<Yes, No>>, Null, <<>>)
            /\ Head(agenda).do = "conditionalBranch"
        BY <2>2, BranchStep
      <3> QED
        BY <3>1, ClosingSettles DEF Emission
    <2>3. CASE RvalueTernary
      <3> DEFINE ts == ValueCalls(Fresh(1), Fresh(2), Fresh(3))
      <3>1. /\ Emission(3, Null, <<>>, Null, ts)
            /\ {Fresh(1), Fresh(2), Fresh(3)} \subseteq 1 .. Len(blocks) + 3
            /\ Head(agenda).do = "rvalue" /\ insertBlock' = insertBlock
        BY <2>3, ValueStep DEF RvalueTernary
      <3>2. agenda # <<>>
        BY <3>1 DEF Emission
      <3>3. /\ Made(3) = {Fresh(1), Fresh(2), Fresh(3)}
            /\ Fresh(1) # Fresh(2) /\ Fresh(1) # Fresh(3) /\ Fresh(2) # Fresh(3)
        BY <3>2, HeadFacts
      <3>4. /\ Linked(ts) /\ Distinct(ts) /\ ~Closer(ts[Len(ts)]) /\ ~Opener(ts[1])
            /\ Opened(ts) = {Fresh(1), Fresh(2), Fresh(3)} /\ ts # <<>>
        BY <3>2, StatementShapes DEF Shaped
      <3>5. /\ Closer(ts[Len(ts)]) <=> Closer(Head(agenda))
            /\ Opened(ts) = Made(3)
        BY <3>1, <3>3, <3>4 DEF Closer
      <3> HIDE DEF ts
      <3>6. Settles(3, Null, ts)
        BY <3>1, <3>2, <3>3, <3>4, <3>5, ExpressionSettles
      <3> QED
        BY <3>1, <3>6
    <2>4. CASE SetCurrentBasicBlock
      <3>1. /\ Emission(0, Null, <<>>, Null, <<>>)
            /\ Head(agenda).do = "insertAt" /\ insertBlock' = Head(agenda).block
        BY <2>4, InsertStep
      <3> QED
        BY <3>1, ClosingSettles DEF Emission
    <2>5. CASE ConnectCurrent
      <3>1. /\ Emission(0, insertBlock, <<Head(agenda).to>>, Null, <<>>)
            /\ Head(agenda).do = "connect"
        BY <2>5, ConnectStep
      <3> QED
        BY <3>1, ClosingSettles DEF Emission
    <2>6. CASE ConnectBlocks
      <3>1. /\ Emission(0, Head(agenda).from, <<Head(agenda).to>>, Null, <<>>)
            /\ Head(agenda).do = "connectFrom"
        BY <2>6, ConnectBlocksStep
      <3> QED
        BY <3>1, ClosingSettles DEF Emission
    <2>7. CASE ConnectArm
      <3>1. /\ Emission(0, insertBlock, <<Head(agenda).to>>, Head(agenda).to, <<>>)
            /\ Head(agenda).do = "connectPhi"
        BY <2>7, ArmStep
      <3> QED
        BY <3>1, ClosingSettles DEF Emission
    <2> QED
      BY <1>1, <1>8, <2>1, <2>2, <2>3, <2>4, <2>5, <2>6, <2>7 DEF Expression
  <1> QED
    BY <1>1, <1>2, <1>3, <1>4, <1>5, <1>6, <1>7, <1>8 DEF Ordinary

-----------------------------------------------------------------------------
(* Labels.                                                                 *)
LEMMA OfStays ==
  ASSUME TypeInv, NEW n, NEW x, NEW succs, NEW phi, NEW ts,
         Emission(n, x, succs, phi, ts)
  PROVE  /\ \A b \in Block : blocks'[b].of = blocks[b].of
         /\ \A b \in Made(n) : blocks'[b].of = currentFunction /\ b \notin Block
         /\ Block \subseteq Block' /\ Made(n) \subseteq Block'
         /\ currentFunction' = currentFunction /\ currentFunction # None
  <1>1. /\ Len(blocks) \in Nat /\ Block = 1 .. Len(blocks) /\ n \in Nat
    BY TypeOfBlocks DEF TypeInv, Emission
  <1>2. Block' = 1 .. Len(blocks) + n
    BY EmissionTypes DEF TypeInv
  <1>3. \A b \in 1 .. Len(blocks) + n :
          blocks'[b].of = IF b \in Block THEN blocks[b].of ELSE currentFunction
    BY DEF Emission, Grown
  <1>4. currentFunction' = currentFunction /\ currentFunction # None
    BY DEF Emission, TypeInv
  <1>5. \A b \in Block : b \in 1 .. Len(blocks) + n
    BY <1>1
  <1>6. \A b \in Made(n) : b \in 1 .. Len(blocks) + n /\ b \notin Block
    BY <1>1 DEF Made
  <1> QED
    BY <1>2, <1>3, <1>4, <1>5, <1>6

(* So they keep the invariant. *)
LEMMA OrdinaryFit ==
  ASSUME TypeInv, Fit, Ordinary
  PROVE  Fit'
  <1>1. PICK n, x, succs, phi, ts : Emission(n, x, succs, phi, ts) /\ Settles(n, x, ts)
    BY OrdinarySettles DEF Fit
  <1>2. UNCHANGED <<mapLabel, placed, gotos, extent, declared, defined, currentFunction>>
    BY OrdinaryKeeps
  <1>3. BlocksFit'
    BY <1>1, <1>2, SettledFit DEF Fit
  <1>4. LabelsFit'
    <2>1. LabelsFit
      BY DEF Fit
    <2> QED
      BY <1>2, <2>1 DEF LabelsFit, Named, Finished, NoLabels
  <1>5. LabelsAreLocal'
    <2>1. \A l \in Labels : mapLabel[l] # Null => mapLabel[l] \in Block
      BY TypeParts DEF TypeInv, PlacesTyped
    <2>2. \A b \in Block : blocks'[b].of = blocks[b].of
      BY <1>1, OfStays
    <2> QED
      BY <1>2, <2>1, <2>2 DEF Fit, LabelsAreLocal, Finished
  <1>6. GotoReachesLabel'
    BY <1>2 DEF Fit, GotoReachesLabel, Finished
  <1> QED
    BY <1>3, <1>4, <1>5, <1>6 DEF Fit

(* What both steps have in common: they end the current block. *)
LEMMA AtStatement ==
  ASSUME TypeInv, BlocksFit, agenda # <<>>, Head(agenda).do = "statement"
  PROVE  /\ Current = {insertBlock} /\ Opens(Head(agenda)) = {}
         /\ insertBlock \notin Pending /\ insertBlock \in Block
         /\ Fits(Head(agenda), <<>>) /\ Distinct(<<>>) /\ Opened(<<>>) = {}
         /\ After(<<>>) = {insertBlock'}
         /\ Fits(Head(agenda), <<Task("statement")>>)
         /\ Distinct(<<Task("statement")>>) /\ Opened(<<Task("statement")>>) = {}
         /\ After(<<Task("statement")>>) = {insertBlock'}
         /\ Pending \subseteq Block
  <1>1. /\ ~Closer(Head(agenda)) /\ ~Opener(Head(agenda)) /\ Opens(Head(agenda)) = {}
    BY DEF Closer, Opener, Opens
  <1>2. /\ Current = {insertBlock}
        /\ Fits(Head(agenda), <<>>) /\ Distinct(<<>>) /\ Opened(<<>>) = {}
    BY <1>1, HeadFacts
  <1>3. insertBlock \notin Pending /\ insertBlock \in Block /\ Pending \subseteq Block
    BY <1>2, InBody DEF BlocksFit, Open
  <1> DEFINE ts == <<Task("statement")>>
  <1>4. Plain(ts) /\ ts \in Seq(Tasks(Block)) /\ Len(ts) = 1 /\ ts # <<>>
    BY TaskDos DEF Plain, Tasks, Task
  <1> HIDE DEF ts
  <1>5. /\ Linked(ts) /\ Distinct(ts) /\ Opened(ts) = {}
        /\ ~Closer(ts[Len(ts)]) /\ ~Opener(ts[1])
    BY <1>4, PlainCalls
  <1>6. Fits(Head(agenda), ts) /\ After(ts) = {insertBlock'}
    BY <1>1, <1>4, <1>5 DEF Fits, After
  <1>7. After(<<>>) = {insertBlock'}
    BY <1>1 DEF After
  <1> QED
    BY <1>1, <1>2, <1>3, <1>5, <1>6, <1>7 DEF ts

(* A label's block was waiting for its statement, or is made by it, and *)
(* becomes the current block.                                           *)
LEMMA LabelFit ==
  ASSUME TypeInv, Fit, NEW l \in Labels, l \in extent.labels, LabeledStatement(l)
  PROVE  Fit'
  <1> DEFINE ts == <<Task("statement")>>
  <1>1. PICK n \in {0, 1} : \E b \in 1 .. Len(blocks) + n :
           /\ Emission(n, insertBlock, <<b>>, Null, ts)
           /\ \/ n = 0 /\ b = mapLabel[l] /\ b # Null
              \/ n = 1 /\ b = Fresh(1) /\ mapLabel[l] = Null
           /\ insertBlock' = b
           /\ mapLabel' = [mapLabel EXCEPT ![l] = b]
           /\ placed' = [placed EXCEPT ![l] = b]
           /\ placed[l] = Null
           /\ UNCHANGED <<currentFunction, points, unit, statements, operators,
                          loops, loopBlocks, jumps, gotos>>
           /\ Head(agenda).do = "statement"
    BY LabelStep
  <1>2. PICK b \in 1 .. Len(blocks) + n :
           /\ Emission(n, insertBlock, <<b>>, Null, ts)
           /\ \/ n = 0 /\ b = mapLabel[l] /\ b # Null
              \/ n = 1 /\ b = Fresh(1) /\ mapLabel[l] = Null
           /\ insertBlock' = b
           /\ mapLabel' = [mapLabel EXCEPT ![l] = b]
           /\ placed' = [placed EXCEPT ![l] = b]
           /\ placed[l] = Null
           /\ UNCHANGED <<currentFunction, points, unit, statements, operators,
                          loops, loopBlocks, jumps, gotos>>
           /\ Head(agenda).do = "statement"
    BY <1>1
  <1>3. /\ BlocksFit /\ LabelsFit /\ LabelsAreLocal /\ agenda # <<>> /\ ~Finished
        /\ UNCHANGED <<extent, declared, defined, currentFunction, gotos>>
    BY <1>2 DEF Fit, Emission, TypeInv, Finished, unit
  <1>4. /\ mapLabel \in [Labels -> Block \union {Null}]
        /\ placed \in [Labels -> Block \union {Null}]
        /\ gotos \subseteq [label : Labels, to : Block]
    BY TypeParts DEF TypeInv, PlacesTyped
  <1>5. b # Null /\ Fresh(1) \notin Block /\ Made(1) = {Fresh(1)} /\ Made(0) = {}
    BY <1>2, <1>3, HeadFacts, InBody DEF Null, Fresh
  <1>6. \A m \in Labels : /\ mapLabel'[m] = IF m = l THEN b ELSE mapLabel[m]
                          /\ placed'[m] = IF m = l THEN b ELSE placed[m]
    BY <1>2, <1>4
  <1>7. Named' = Named \ {l}
    BY <1>5, <1>6 DEF Named
  <1>8. Pending' = Pending \ {b} /\ (n = 0 => b \in Pending)
    <2>1. \A m \in Named \ {l} : mapLabel'[m] = mapLabel[m]
      BY <1>6 DEF Named
    <2>2. Pending' = {mapLabel[m] : m \in Named \ {l}}
      BY <1>7, <2>1 DEF Pending
    <2>3. \A m \in Named : m # l => mapLabel[m] # b
      BY <1>2, <1>3, <1>4, <1>5 DEF Named, LabelsFit
    <2>4. n = 0 => l \in Named
      BY <1>2 DEF Named
    <2>5. n = 1 => l \notin Named
      BY <1>2 DEF Named
    <2> QED
      BY <1>2, <2>2, <2>3, <2>4, <2>5 DEF Pending
  <1>9. BlocksFit'
    <2>1. /\ Current = {insertBlock} /\ Opens(Head(agenda)) = {}
          /\ insertBlock \notin Pending /\ insertBlock \in Block
          /\ Fits(Head(agenda), ts) /\ Distinct(ts) /\ Opened(ts) = {}
          /\ After(ts) = {b} /\ Pending \subseteq Block
      BY <1>2, <1>3, AtStatement
    <2> HIDE DEF ts
    <2>2. Balanced(insertBlock, Made(n), ts, Pending, Pending')
      BY <1>2, <1>5, <1>8, <2>1 DEF Balanced
    <2> QED
      BY <1>2, <1>3, <2>2, BlocksStayFit
  <1>10. LabelsFit'
    <2>1. \A m \in Labels : placed'[m] # Null => placed'[m] = mapLabel'[m]
      BY <1>3, <1>6 DEF LabelsFit
    <2>2. \A m, k \in Labels : mapLabel'[m] # Null /\ mapLabel'[m] = mapLabel'[k] => m = k
      BY <1>2, <1>3, <1>4, <1>5, <1>6 DEF LabelsFit
    <2>3. \A g \in gotos : g.to = mapLabel'[g.label]
      BY <1>2, <1>3, <1>4, <1>5, <1>6, TypeOfBlocks DEF LabelsFit, TypeInv
    <2>4. \A m \in Named' : \E g \in gotos : g.label = m
      BY <1>3, <1>7 DEF LabelsFit
    <2>5. ~Finished' /\ extent'.labels # {} /\ declared' = defined'
      BY <1>3 DEF LabelsFit, Finished
    <2> QED
      BY <1>3, <2>1, <2>2, <2>3, <2>4, <2>5 DEF LabelsFit
  <1>11. LabelsAreLocal'
    <2>1. /\ \A c \in Block : blocks'[c].of = blocks[c].of
          /\ \A c \in Made(n) : blocks'[c].of = currentFunction
          /\ currentFunction' = currentFunction
      BY <1>2, OfStays
    <2>2. ASSUME NEW m \in Labels, mapLabel'[m] # Null
          PROVE  blocks'[mapLabel'[m]].of = currentFunction
      <3>1. CASE m = l /\ n = 1
        BY <1>2, <1>5, <1>6, <2>1, <3>1
      <3>2. CASE m # l \/ n = 0
        <4>1. mapLabel'[m] = mapLabel[m]
          BY <1>2, <1>6, <3>2
        <4> QED
          BY <1>3, <1>4, <2>1, <2>2, <4>1 DEF LabelsAreLocal
      <3> QED
        BY <3>1, <3>2
    <2> QED
      BY <2>1, <2>2 DEF LabelsAreLocal
  <1>12. GotoReachesLabel'
    BY <1>3 DEF GotoReachesLabel, Finished
  <1> QED
    BY <1>9, <1>10, <1>11, <1>12 DEF Fit

(* The block that a goto makes for its label waits for the label's *)
(* statement from now on.                                          *)
LEMMA GotoFit ==
  ASSUME TypeInv, Fit, NEW l \in Labels, l \in extent.labels, GotoStatement(l)
  PROVE  Fit'
  <1>1. PICK n \in {1, 2} : \E b \in 1 .. Len(blocks) + n :
           /\ Emission(n, insertBlock, <<b>>, Null, <<>>)
           /\ \/ n = 1 /\ b = mapLabel[l] /\ b # Null
              \/ n = 2 /\ b = Fresh(2) /\ mapLabel[l] = Null
           /\ insertBlock' = Fresh(1)
           /\ mapLabel' = [mapLabel EXCEPT ![l] = b]
           /\ gotos' = gotos \union {[label |-> l, to |-> b]}
           /\ UNCHANGED <<currentFunction, points, unit, statements, operators,
                          loops, loopBlocks, jumps, placed>>
           /\ Head(agenda).do = "statement"
    BY GotoStep
  <1>2. PICK b \in 1 .. Len(blocks) + n :
           /\ Emission(n, insertBlock, <<b>>, Null, <<>>)
           /\ \/ n = 1 /\ b = mapLabel[l] /\ b # Null
              \/ n = 2 /\ b = Fresh(2) /\ mapLabel[l] = Null
           /\ insertBlock' = Fresh(1)
           /\ mapLabel' = [mapLabel EXCEPT ![l] = b]
           /\ gotos' = gotos \union {[label |-> l, to |-> b]}
           /\ UNCHANGED <<currentFunction, points, unit, statements, operators,
                          loops, loopBlocks, jumps, placed>>
           /\ Head(agenda).do = "statement"
    BY <1>1
  <1>3. /\ BlocksFit /\ LabelsFit /\ LabelsAreLocal /\ agenda # <<>> /\ ~Finished
        /\ UNCHANGED <<extent, declared, defined, currentFunction, placed>>
    BY <1>2 DEF Fit, Emission, TypeInv, Finished, unit
  <1>4. /\ mapLabel \in [Labels -> Block \union {Null}]
        /\ gotos \subseteq [label : Labels, to : Block]
        /\ Null \notin Block
    BY TypeParts, TypeOfBlocks DEF TypeInv, PlacesTyped
  <1>5. /\ b # Null /\ Fresh(1) \notin Block /\ Fresh(2) \notin Block
        /\ Fresh(1) # Fresh(2)
        /\ Made(1) = {Fresh(1)} /\ Made(2) = {Fresh(1), Fresh(2)}
    BY <1>2, <1>3, HeadFacts, InBody DEF Null, Fresh
  <1>6. \A m \in Labels : mapLabel'[m] = IF m = l THEN b ELSE mapLabel[m]
    BY <1>2, <1>4
  <1>7. mapLabel[l] = Null => placed[l] = Null
    BY <1>3 DEF LabelsFit
  <1>8. /\ n = 1 => mapLabel' = mapLabel /\ Named' = Named /\ Pending' = Pending
        /\ n = 2 => Named' = Named \union {l} /\ Pending' = Pending \union {b}
    <2>1. CASE n = 1
      <3>1. mapLabel' = mapLabel
        BY <1>2, <1>4, <2>1
      <3> QED
        BY <1>3, <2>1, <3>1 DEF Named, Pending
    <2>2. CASE n = 2
      <3>1. Named' = Named \union {l} /\ l \notin Named
        BY <1>2, <1>3, <1>5, <1>6, <1>7, <2>2 DEF Named
      <3>2. /\ \A m \in Named : mapLabel'[m] = mapLabel[m]
            /\ mapLabel'[l] = b
        BY <1>6, <3>1 DEF Named
      <3>3. Pending' = {mapLabel'[m] : m \in Named \union {l}}
        BY <3>1 DEF Pending
      <3> QED
        BY <2>2, <3>1, <3>2, <3>3 DEF Pending
    <2> QED
      BY <2>1, <2>2
  <1>9. BlocksFit'
    <2>1. /\ Current = {insertBlock} /\ Opens(Head(agenda)) = {}
          /\ insertBlock \notin Pending /\ insertBlock \in Block
          /\ Fits(Head(agenda), <<>>) /\ Distinct(<<>>) /\ Opened(<<>>) = {}
          /\ After(<<>>) = {Fresh(1)} /\ Pending \subseteq Block
      BY <1>2, <1>3, AtStatement
    <2>2. Balanced(insertBlock, Made(n), <<>>, Pending, Pending')
      BY <1>2, <1>5, <1>8, <2>1 DEF Balanced
    <2> QED
      BY <1>2, <1>3, <2>2, BlocksStayFit
  <1>10. LabelsFit'
    <2>1. \A m \in Labels : placed'[m] # Null => placed'[m] = mapLabel'[m]
      BY <1>2, <1>3, <1>6, <1>7 DEF LabelsFit
    <2>2. \A m, k \in Labels : mapLabel'[m] # Null /\ mapLabel'[m] = mapLabel'[k] => m = k
      BY <1>2, <1>3, <1>4, <1>5, <1>6 DEF LabelsFit
    <2>3. \A g \in gotos' : g.to = mapLabel'[g.label]
      <3>1. \A g \in gotos : g.to = mapLabel'[g.label]
        BY <1>2, <1>3, <1>4, <1>5, <1>6 DEF LabelsFit
      <3>2. mapLabel'[l] = b
        BY <1>6
      <3> QED
        BY <1>2, <3>1, <3>2
    <2>4. \A m \in Named' : \E g \in gotos' : g.label = m
      <3>1. \A m \in Named : \E g \in gotos : g.label = m
        BY <1>3 DEF LabelsFit
      <3>2. gotos' = gotos \union {[label |-> l, to |-> b]}
        BY <1>2
      <3>3. Named' \subseteq Named \union {l}
        BY <1>8
      <3>4. \A m \in Named : \E g \in gotos' : g.label = m
        BY <3>1, <3>2
      <3>5. \E g \in gotos' : g.label = l
        <4> DEFINE new == [label |-> l, to |-> b]
        <4>1. new \in gotos' /\ new.label = l
          BY <3>2
        <4> QED
          BY <4>1
      <3> QED
        BY <3>3, <3>4, <3>5
    <2>5. ~Finished' /\ extent'.labels # {} /\ declared' = defined'
      BY <1>3 DEF LabelsFit, Finished
    <2> QED
      BY <1>3, <2>1, <2>2, <2>3, <2>4, <2>5 DEF LabelsFit
  <1>11. LabelsAreLocal'
    <2>1. /\ \A c \in Block : blocks'[c].of = blocks[c].of
          /\ \A c \in Made(n) : blocks'[c].of = currentFunction
          /\ currentFunction' = currentFunction
      BY <1>2, OfStays
    <2>2. ASSUME NEW m \in Labels, mapLabel'[m] # Null
          PROVE  blocks'[mapLabel'[m]].of = currentFunction
      <3>1. CASE m = l /\ n = 2
        BY <1>2, <1>5, <1>6, <2>1, <3>1
      <3>2. CASE m # l \/ n = 1
        <4>1. mapLabel'[m] = mapLabel[m]
          BY <1>2, <1>6, <3>2
        <4> QED
          BY <1>3, <1>4, <2>1, <2>2, <4>1 DEF LabelsAreLocal
      <3> QED
        BY <3>1, <3>2
    <2> QED
      BY <2>1, <2>2 DEF LabelsAreLocal
  <1>12. GotoReachesLabel'
    BY <1>3 DEF GotoReachesLabel, Finished
  <1> QED
    BY <1>9, <1>10, <1>11, <1>12 DEF Fit

-----------------------------------------------------------------------------
(* The beginning and the end of a function.                                *)
LEMMA DeclareFit ==
  ASSUME TypeInv, SoundUnit, Fit, NEW f \in FunctionNames,
         DeclareFunction(f) \/ InnerDeclaration(f)
  PROVE  Fit'
  <1>1. extent.labels = {}
    BY DEF SoundUnit, DeclareFunction, InnerDeclaration
  <1>2. /\ mapLabel = NoLabels /\ mapLabel' = NoLabels
        /\ UNCHANGED <<extent, defined, currentFunction, blocks, insertBlock,
                       agenda, placed, gotos>>
    BY <1>1 DEF Fit, LabelsFit, DeclareFunction, InnerDeclaration, StartPrototype, history
  <1>3. BlocksFit' /\ LabelsAreLocal' /\ GotoReachesLabel'
    BY <1>2 DEF Fit, BlocksFit, Open, Current, Pending, Named, Block, LabelsAreLocal,
                GotoReachesLabel, Finished
  <1>4. LabelsFit'
    BY <1>1, <1>2 DEF Fit, LabelsFit, Named, Finished, NoLabels
  <1> QED
    BY <1>3, <1>4 DEF Fit

(* A function starts with one block, no labels, and its body to be emitted. *)
LEMMA DefineFit ==
  ASSUME TypeInv, Fit, NEW f \in FunctionNames, DefineFunction(f)
  PROVE  Fit'
  <1>1. /\ Finished /\ agenda = <<>> /\ f \notin defined
        /\ currentFunction' = f /\ f # None
        /\ insertBlock' = Fresh(1) /\ agenda' = <<Task("compound")>>
        /\ placed' = NoLabels /\ gotos' = {} /\ extent' = extent
        /\ declared' = declared \union {f} /\ defined' = defined \union {f}
    BY CodeGeneratorAssumption DEF DefineFunction, Finished, TypeInv
  <1>2. mapLabel' = NoLabels
    BY <1>1 DEF DefineFunction, Fit, LabelsFit
  <1>3. Open = {}
    <2>1. Opened(agenda) = {}
      BY <1>1 DEF Opened
    <2>2. Pending = {} /\ Current = {}
      BY <1>1 DEF Fit, LabelsFit, Pending, Current, Finished
    <2> QED
      BY <2>1, <2>2 DEF Fit, BlocksFit
  <1>4. /\ \A b \in Block : blocks'[b] = blocks[b]
        /\ blocks'[Fresh(1)] = [of |-> f, terminators |-> <<>>, incoming |-> <<>>]
        /\ Block' = Block \union {Fresh(1)} /\ Fresh(1) \notin Block
    <2>1. Block = 1 .. Len(blocks) /\ Len(blocks) \in Nat
      BY TypeOfBlocks DEF TypeInv
    <2>2. Block' = 1 .. Len(blocks) + 1
      BY DefineTyped
    <2> QED
      BY <2>1, <2>2, DefineTyped DEF Fresh
  <1> DEFINE ts == <<Task("compound")>>
  <1>5. /\ Linked(ts) /\ Distinct(ts) /\ Opened(ts) = {} /\ ts # <<>>
        /\ ~Closer(ts[Len(ts)]) /\ ~Opener(ts[1]) /\ Head(ts) = ts[1]
    <2>1. Plain(ts) /\ ts \in Seq(Tasks(Block)) /\ ts # <<>> /\ Head(ts) = ts[1]
      BY TaskDos DEF Plain, Tasks, Task
    <2> HIDE DEF ts
    <2> QED
      BY <2>1, PlainCalls
  <1> HIDE DEF ts
  <1>6. agenda' = ts
    BY <1>1 DEF ts
  <1>7. /\ Alternates(agenda') /\ Distinct(agenda') /\ Opened(agenda') = {}
        /\ ~OpensNext(agenda')
    BY <1>5, <1>6 DEF Alternates, OpensNext
  <1>8. Named' = {} /\ Pending' = {} /\ Current' = {Fresh(1)}
    <2>1. Named' = {}
      BY <1>2 DEF Named, NoLabels
    <2> QED
      BY <1>1, <1>7, <2>1 DEF Pending, Current
  <1>9. Open' = {Fresh(1)}
    BY <1>3, <1>4 DEF Open
  <1>10. \A b \in Block' : Len(blocks'[b].terminators) <= 1
    <2>1. Len(blocks'[Fresh(1)].terminators) <= 1
      BY <1>4
    <2> QED
      BY <1>4, <2>1 DEF Fit, BlocksFit
  <1>11. BlocksFit'
    BY <1>7, <1>8, <1>9, <1>10 DEF BlocksFit
  <1>12. LabelsFit'
    <2>1. extent'.labels # {} => declared' = defined'
      BY <1>1 DEF Fit, LabelsFit
    <2>2. /\ \A l \in Labels : placed'[l] = Null /\ mapLabel'[l] = Null
          /\ mapLabel' = NoLabels' /\ placed' = NoLabels'
      BY <1>1, <1>2 DEF NoLabels
    <2> QED
      BY <1>1, <1>8, <2>1, <2>2 DEF LabelsFit, Finished
  <1>13. LabelsAreLocal' /\ GotoReachesLabel'
    BY <1>1, <1>2 DEF LabelsAreLocal, GotoReachesLabel, NoLabels, Finished
  <1> QED
    BY <1>11, <1>12, <1>13 DEF Fit

(* The parser guarantees that every label of a goto has been placed. *)
LEMMA FinishFit ==
  ASSUME TypeInv, Fit, FinishFunction
  PROVE  Fit'
  <1>1. /\ ~Finished /\ Finished' /\ agenda = <<>> /\ agenda' = <<>>
        /\ \A g \in gotos : placed[g.label] # Null
        /\ UNCHANGED <<extent, declared, defined, insertBlock, mapLabel, placed, gotos>>
    BY DEF FinishFunction, Finished, unit, history
  <1>2. Named = {} /\ Pending = {}
    BY <1>1 DEF Fit, LabelsFit, Named, Pending
  <1>3. Open = {insertBlock} /\ insertBlock \in Block
    BY <1>1, <1>2 DEF Fit, BlocksFit, Opened, Current, OpensNext, Finished, Open
  <1>4. Grown(0, insertBlock, <<>>, Null) /\ Block' = Block
    BY <1>3, FinishTyped DEF Open
  <1>5. \A b \in Block : blocks'[b].terminators =
                           IF b = insertBlock THEN <<<<>>>> ELSE blocks[b].terminators
    <2>1. Block = 1 .. Len(blocks) + 0
      BY TypeOfBlocks DEF TypeInv
    <2>2. \A b \in Block : blocks'[b].terminators =
            IF b = insertBlock THEN Append(Terms(b), <<>>) ELSE Terms(b)
      BY <1>4, <2>1 DEF Grown
    <2>3. Terms(insertBlock) = <<>> /\ Append(<<>>, <<>>) = <<<<>>>>
      BY <1>3 DEF Open, Terms
    <2> QED
      BY <2>2, <2>3 DEF Terms
  <1>6. Open' = {}
    BY <1>3, <1>4, <1>5 DEF Open
  <1>7. \A b \in Block' : Len(blocks'[b].terminators) <= 1
    <2> DEFINE last == << <<>> >>
    <2>1. Len(last) <= 1
      OBVIOUS
    <2> HIDE DEF last
    <2>2. \A b \in Block : blocks'[b].terminators =
                             IF b = insertBlock THEN last ELSE blocks[b].terminators
      BY <1>5 DEF last
    <2>3. \A b \in Block : Len(blocks[b].terminators) <= 1
      BY DEF Fit, BlocksFit
    <2>4. ASSUME NEW b \in Block PROVE Len(blocks'[b].terminators) <= 1
      <3>1. CASE b = insertBlock
        <4>1. blocks'[b].terminators = last
          BY <2>2, <3>1
        <4> QED
          BY <2>1, <4>1
      <3>2. CASE b # insertBlock
        <4>1. blocks'[b].terminators = blocks[b].terminators
          BY <2>2, <3>2
        <4> QED
          BY <2>3, <4>1
      <3> QED
        BY <3>1, <3>2
    <2> QED
      BY <1>4, <2>4
  <1>8. BlocksFit'
    <2>1. Named' = {} /\ Pending' = {}
      BY <1>1, <1>2 DEF Named, Pending
    <2>2. Current' = {} /\ Opened(agenda') = {}
      BY <1>1 DEF Current, Finished, Opened
    <2>3. Alternates(agenda') /\ Distinct(agenda')
      BY <1>1 DEF Fit, BlocksFit
    <2> QED
      BY <1>6, <1>7, <2>1, <2>2, <2>3 DEF BlocksFit
  <1>9. LabelsFit'
    <2>1. Named' = {}
      BY <1>1, <1>2 DEF Named
    <2>2. NoLabels' = NoLabels
      BY DEF NoLabels
    <2> QED
      BY <1>1, <2>1, <2>2 DEF Fit, LabelsFit
  <1>10. LabelsAreLocal'
    BY <1>1 DEF LabelsAreLocal
  <1>11. GotoReachesLabel'
    <2>1. gotos \subseteq [label : Labels, to : Block]
      BY TypeParts DEF TypeInv, PlacesTyped
    <2> QED
      BY <1>1, <2>1 DEF Fit, LabelsFit, GotoReachesLabel
  <1> QED
    BY <1>8, <1>9, <1>10, <1>11 DEF Fit

(* The invariant holds before anything is emitted ... *)
LEMMA FitInit == Init => FitInv
  <1> SUFFICES ASSUME Init PROVE FitInv
    OBVIOUS
  <1>1. /\ agenda = <<>> /\ blocks = <<>> /\ currentFunction = None
        /\ declared = {} /\ defined = {} /\ mapLabel = NoLabels /\ placed = NoLabels
        /\ gotos = {}
    BY DEF Init
  <1>2. Named = {} /\ Pending = {}
    BY <1>1 DEF Named, Pending, NoLabels
  <1>3. Block = {} /\ Open = {} /\ Current = {} /\ Opened(agenda) = {}
    BY <1>1 DEF Block, Open, Current, Opened
  <1>4. Alternates(agenda) /\ Distinct(agenda)
    BY <1>1 DEF Alternates, Linked, Distinct
  <1>5. BlocksFit
    BY <1>2, <1>3, <1>4 DEF BlocksFit
  <1>6. LabelsFit /\ LabelsAreLocal /\ GotoReachesLabel
    BY <1>1, <1>2 DEF LabelsFit, LabelsAreLocal, GotoReachesLabel, Finished
  <1> QED
    BY <1>5, <1>6, TypeInit DEF FitInv, Fit

(* ... the kind of the unit is fixed ... *)
LEMMA ExtentKept == [Next]_vars => extent' = extent
  BY DEF Next, vars, unit, DeclareFunction, DefineFunction, InnerDeclaration,
         FinishFunction, Statement, Expression, CompoundStatement,
         NestedCompoundStatement, ExpressionStatement, ReturnStatement, RvalueLeaf,
         RvalueBinary, MakeReturn, BreakStatement, ContinueStatement, Jump,
         WhileStatement, EndWhileStatement, DoStatement, EndDoStatement,
         SelectionStatement, LabeledStatement, GotoStatement, ConditionLeaf,
         MakeConditionalBranch, ConditionAnd, ConditionOr, ConditionNot,
         ConditionTernary, ConditionOperator, RvalueTernary, SetCurrentBasicBlock,
         ConnectCurrent, ConnectBlocks, ConnectArm

(* ... and every step keeps it ... *)
LEMMA FitStep == FitInv /\ [Next]_vars => FitInv'
  <1> SUFFICES ASSUME FitInv, [Next]_vars, SoundUnit' PROVE Fit'
    BY TypeStep DEF FitInv
  <1>1. extent' = extent
    BY ExtentKept
  <1>2. TypeInv /\ SoundUnit /\ Fit
    BY <1>1 DEF FitInv, SoundUnit
  <1>3. CASE UNCHANGED vars
    <2>1. UNCHANGED <<extent, declared, defined, currentFunction, blocks,
                      insertBlock, mapLabel, agenda, placed, gotos>>
      BY <1>3 DEF vars, ir, unit, history
    <2>2. BlocksFit'
      BY <1>2, <2>1 DEF Fit, BlocksFit, Open, Current, Pending, Named, Block
    <2>3. LabelsFit' /\ LabelsAreLocal' /\ GotoReachesLabel'
      BY <1>2, <2>1 DEF Fit, LabelsFit, LabelsAreLocal, GotoReachesLabel, Named,
                        Finished, NoLabels
    <2> QED
      BY <2>2, <2>3 DEF Fit
  <1>4. ASSUME NEW f \in FunctionNames,
               DeclareFunction(f) \/ DefineFunction(f) \/ InnerDeclaration(f)
        PROVE  Fit'
    BY <1>2, <1>4, DeclareFit, DefineFit
  <1>5. CASE FinishFunction
    BY <1>2, <1>5, FinishFit
  <1>6. ASSUME NEW l \in extent.labels, LabeledStatement(l) \/ GotoStatement(l)
        PROVE  Fit'
    <2>1. l \in Labels
      BY <1>2, TypeParts, CodeGeneratorAssumption DEF TypeInv, UnitTyped
    <2> QED
      BY <1>2, <1>6, <2>1, LabelFit, GotoFit
  <1>7. CASE Ordinary
    BY <1>2, <1>7, OrdinaryFit
  <1>8. Statement => Ordinary \/ \E l \in extent.labels : LabeledStatement(l) \/ GotoStatement(l)
    BY DEF Statement, Ordinary
  <1>9. Expression => Ordinary
    BY DEF Ordinary
  <1> QED
    BY <1>3, <1>4, <1>5, <1>6, <1>7, <1>8, <1>9 DEF Next

(* ... so it always holds. *)
LEMMA FitAlways == Spec => []FitInv
  BY FitInit, FitStep, PTL DEF Spec

(* Every block of a finished function has exactly one terminator, and none *)
(* is ever given a second one, in every unit whose label map is cleared    *)
(* between its functions (cogen.cc, ircreator.cc:132). *)
THEOREM BlocksEndOnce == Spec => [](SoundUnit => EveryBlockEndsOnce)
  <1>1. FitInv => (SoundUnit => EveryBlockEndsOnce)
    <2> SUFFICES ASSUME FitInv, SoundUnit PROVE EveryBlockEndsOnce
      OBVIOUS
    <2>1. TypeInv /\ BlocksFit /\ LabelsFit
      BY DEF FitInv, Fit
    <2>2. \A b \in Block : Len(blocks[b].terminators) <= 1
      BY <2>1 DEF BlocksFit
    <2>3. ASSUME Finished, NEW b \in Block PROVE Len(blocks[b].terminators) = 1
      <3>1. agenda = <<>> /\ Named = {}
        BY <2>1, <2>3 DEF TypeInv, LabelsFit, Finished
      <3>2. Open = {}
        BY <2>1, <2>3, <3>1 DEF BlocksFit, Opened, Pending, Current, Finished
      <3>3. blocks[b].terminators # <<>>
        BY <3>2 DEF Open
      <3>4. blocks[b].terminators \in Seq(Seq(Block \union {Null}))
        <4>1. blocks \in Seq(BlocksOver(Block))
          BY <2>1, TypeParts DEF TypeInv
        <4>2. blocks[b] \in BlocksOver(Block)
          BY <4>1 DEF Block
        <4> QED
          BY <4>2 DEF BlocksOver
      <3> DEFINE S == Seq(Block \union {Null})
                 terms == blocks[b].terminators
      <3>5. terms \in Seq(S) /\ terms # <<>> /\ Len(terms) <= 1
        BY <2>2, <3>3, <3>4
      <3> HIDE DEF S, terms
      <3> DEFINE n == Len(terms)
      <3>6. n \in Nat \ {0} /\ n <= 1
        BY <3>5, EmptySeq
      <3> HIDE DEF n
      <3>7. n = 1
        BY <3>6
      <3> QED
        BY <3>7 DEF terms, n
    <2> QED
      BY <2>2, <2>3 DEF EveryBlockEndsOnce
  <1> QED
    BY <1>1, FitAlways, PTL

(* Every goto of a finished function leads to the block of its label, in   *)
(* every such unit (cogen.cc:209-240). *)
THEOREM GotosReachLabels == Spec => [](SoundUnit => GotoReachesLabel)
  <1>1. FitInv => (SoundUnit => GotoReachesLabel)
    BY DEF FitInv, Fit
  <1> QED
    BY <1>1, FitAlways, PTL

(* The label map holds blocks of the function that is emitted only, in     *)
(* every such unit (ircreator.cc:88). *)
THEOREM LabelsStayLocal == Spec => [](SoundUnit => LabelsAreLocal)
  <1>1. FitInv => (SoundUnit => LabelsAreLocal)
    BY DEF FitInv, Fit
  <1> QED
    BY <1>1, FitAlways, PTL

-----------------------------------------------------------------------------
(* Phi nodes.                                                              *)
(*                                                                         *)
(* The blocks with a phi node, now or once a call of the agenda is made,   *)
(* are branched to by the calls that also list the branching block; every  *)
(* other branch goes to a block of which no phi node is made.              *)
PhiBlocks == {b \in Block : blocks[b].incoming # <<>>} \union PhiEnds(agenda)
Targets   == Aimed(agenda) \union {breakPoint, continuePoint}
               \union {mapLabel[l] : l \in Labels}
Listed(b) == {blocks[b].incoming[k] : k \in DOMAIN blocks[b].incoming}

PhiFit ==
  /\ PhiBlocks \cap Targets = {}
  /\ \A b \in PhiBlocks :
       /\ Listed(b) = Predecessors(b)
       /\ \A j, k \in DOMAIN blocks[b].incoming :
            blocks[b].incoming[j] = blocks[b].incoming[k] => j = k

(* The successors that a list of terminators gives a block. *)
Reached(terms) == UNION {{t[k] : k \in DOMAIN t} : t \in {terms[i] : i \in DOMAIN terms}}

(* The successors that no and one terminator give. *)
LEMMA ReachedOne ==
  ASSUME NEW S, NEW s \in Seq(S)
  PROVE  /\ Reached(<<>>) = {}
         /\ Reached(<<s>>) = {s[k] : k \in DOMAIN s}
  <1>1. Reached(<<>>) = {}
    BY DEF Reached
  <1>2. {<<s>>[i] : i \in DOMAIN <<s>>} = {s}
    <2>1. DOMAIN <<s>> = 1 .. 1 /\ <<s>>[1] = s
      OBVIOUS
    <2>2. 1 .. 1 = {1}
      OBVIOUS
    <2> QED
      BY <2>1, <2>2
  <1> QED
    BY <1>1, <1>2 DEF Reached

(* Successors are blocks, or the target of a jump outside every loop. *)
LEMMA SuccessorsTyped ==
  ASSUME TypeInv, NEW a \in Block
  PROVE  Successors(a) \subseteq Block \union {Null}
  <1> DEFINE S == Block \union {Null}
             terms == blocks[a].terminators
  <1>1. blocks[a] \in BlocksOver(Block)
    <2>1. blocks \in Seq(BlocksOver(Block))
      BY TypeParts DEF TypeInv
    <2> QED
      BY <2>1 DEF Block
  <1>2. terms \in Seq(Seq(S))
    BY <1>1 DEF BlocksOver
  <1> HIDE DEF S
  <1>3. \A i \in DOMAIN terms : terms[i] \in Seq(S)
    BY <1>2
  <1>4. \A i \in DOMAIN terms : \A k \in DOMAIN terms[i] : terms[i][k] \in S
    BY <1>3
  <1>5. Successors(a) \subseteq S
    BY <1>4 DEF Successors
  <1> QED
    BY <1>5 DEF S

(* A step changes the successors of the block it ends only. *)
LEMMA SuccessorsStep ==
  ASSUME TypeInv, NEW n, NEW x, NEW succs, NEW phi, NEW ts,
         Emission(n, x, succs, phi, ts), NEW S, succs \in Seq(S),
         x = Null \/ x \in Open
  PROVE  /\ \A a \in Block' : Successors(a)' =
              IF a = x THEN {succs[k] : k \in DOMAIN succs}
              ELSE IF a \in Block THEN Successors(a) ELSE {}
         /\ x \in Open => Successors(x) = {}
  <1>1. /\ Len(blocks) \in Nat /\ Block = 1 .. Len(blocks) /\ n \in Nat
        /\ Block' = 1 .. Len(blocks) + n /\ Null \notin Block
    BY TypeOfBlocks, EmissionTypes DEF TypeInv, Emission
  <1>2. \A b \in Block' : blocks'[b].terminators =
          IF b = x THEN Append(Terms(b), succs) ELSE Terms(b)
    BY <1>1 DEF Emission, Grown
  <1>3. x \in Open => Terms(x) = <<>>
    BY DEF Open, Terms
  <1>4. x \in Block' => x \in Open
    BY <1>1 DEF Null
  <1>5. Append(<<>>, succs) = <<succs>>
    OBVIOUS
  <1>6. ASSUME NEW a \in Block'
        PROVE  Successors(a)' = Reached(blocks'[a].terminators)
    BY DEF Successors, Reached
  <1>7. ASSUME NEW a \in Block'
        PROVE  Successors(a)' = IF a = x THEN {succs[k] : k \in DOMAIN succs}
                                ELSE IF a \in Block THEN Successors(a) ELSE {}
    <2>1. CASE a = x
      <3>1. blocks'[a].terminators = <<succs>>
        BY <1>2, <1>3, <1>4, <1>5, <2>1
      <3> QED
        BY <1>6, <2>1, <3>1, ReachedOne
    <2>2. CASE a # x /\ a \in Block
      <3>1. blocks'[a].terminators = blocks[a].terminators
        BY <1>2, <2>2 DEF Terms
      <3>2. Successors(a) = Reached(blocks[a].terminators)
        BY DEF Successors, Reached
      <3> QED
        BY <1>6, <2>2, <3>1, <3>2
    <2>3. CASE a # x /\ a \notin Block
      <3>1. blocks'[a].terminators = <<>>
        BY <1>2, <2>3 DEF Terms
      <3> QED
        BY <1>6, <2>3, <3>1, ReachedOne
    <2> QED
      BY <2>1, <2>2, <2>3
  <1>8. x \in Open => Successors(x) = {}
    <2>1. x \in Open => Successors(x) = Reached(<<>>)
      BY DEF Successors, Reached, Open
    <2> QED
      BY <2>1, ReachedOne
  <1> QED
    BY <1>7, <1>8

(* The predecessors of a block the ended block does not branch to. *)
LEMMA PredecessorsStep ==
  ASSUME TypeInv, NEW n, NEW x, NEW succs, NEW phi, NEW ts,
         Emission(n, x, succs, phi, ts), NEW S, succs \in Seq(S),
         x = Null \/ x \in Open, NEW b \in Block
  PROVE  /\ b \notin {succs[k] : k \in DOMAIN succs} => Predecessors(b)' = Predecessors(b)
         /\ x \in Open /\ b \in {succs[k] : k \in DOMAIN succs}
              => Predecessors(b)' = Predecessors(b) \union {x}
         /\ x \notin Predecessors(b)
  <1>1. /\ \A a \in Block' : Successors(a)' =
              IF a = x THEN {succs[k] : k \in DOMAIN succs}
              ELSE IF a \in Block THEN Successors(a) ELSE {}
        /\ x \in Open => Successors(x) = {}
    BY SuccessorsStep
  <1>2. Block \subseteq Block' /\ Null \notin Block
    BY EmissionTypes, TypeOfBlocks DEF TypeInv
  <1>3. Predecessors(b)' = {a \in Block' : b \in Successors(a)'}
    BY DEF Predecessors
  <1>4. Predecessors(b) = {a \in Block : b \in Successors(a)}
    BY DEF Predecessors
  <1> QED
    BY <1>1, <1>2, <1>3, <1>4 DEF Open

(* A block that is made has none yet. *)
LEMMA PredecessorsMade ==
  ASSUME TypeInv, NEW n, NEW x, NEW succs, NEW phi, NEW ts,
         Emission(n, x, succs, phi, ts), NEW S, succs \in Seq(S),
         x = Null \/ x \in Open, NEW b \in Made(n),
         b \notin {succs[k] : k \in DOMAIN succs}
  PROVE  Predecessors(b)' = {}
  <1>1. \A a \in Block' : Successors(a)' =
              IF a = x THEN {succs[k] : k \in DOMAIN succs}
              ELSE IF a \in Block THEN Successors(a) ELSE {}
    BY SuccessorsStep
  <1>2. b \notin Block /\ b # Null
    BY TypeOfBlocks DEF TypeInv, Made, Null
  <1>3. Predecessors(b)' = {a \in Block' : b \in Successors(a)'}
    BY DEF Predecessors
  <1>4. \A a \in Block : b \notin Successors(a)
    BY <1>2, SuccessorsTyped
  <1> QED
    BY <1>1, <1>3, <1>4

(* Phi nodes announced and targets aimed at by the new agenda come from the *)
(* new calls or from the old ones.                                          *)
LEMMA ReplacePhi ==
  ASSUME NEW S, NEW a \in Seq(S), a # <<>>, NEW ts \in Seq(S)
  PROVE  /\ PhiEnds(Replace(a, ts)) \subseteq PhiEnds(ts) \union PhiEnds(a)
         /\ Aimed(Replace(a, ts)) \subseteq Aimed(ts) \union Aimed(a)
         /\ Aims(Head(a)) \subseteq Aimed(a)
         /\ Head(a).do = "connectPhi" => Head(a).to \in PhiEnds(a)
  <1> DEFINE r == Replace(a, ts)
  <1>1. \A k \in DOMAIN r : \/ \E j \in DOMAIN ts : r[k] = ts[j]
                            \/ \E j \in DOMAIN a : r[k] = a[j]
    <2> SUFFICES ASSUME NEW k \in DOMAIN r
                 PROVE  \/ \E j \in DOMAIN ts : r[k] = ts[j]
                        \/ \E j \in DOMAIN a : r[k] = a[j]
      OBVIOUS
    <2>1. /\ Len(a) \in Nat \ {0} /\ Len(ts) \in Nat
          /\ DOMAIN r = 1 .. Len(ts) + Len(a) - 1
          /\ DOMAIN a = 1 .. Len(a) /\ DOMAIN ts = 1 .. Len(ts)
      BY ReplaceIndex
    <2> HIDE DEF r
    <2>2. CASE k <= Len(ts)
      <3>1. k \in DOMAIN ts /\ k \in 1 .. Len(ts)
        BY <2>1, <2>2
      <3>2. r[k] = ts[k]
        BY <3>1, ReplaceFirst DEF r
      <3> QED
        BY <3>1, <3>2
    <2>3. CASE k > Len(ts)
      <3> DEFINE j == k - Len(ts) + 1
      <3>1. j \in 2 .. Len(a) /\ j \in DOMAIN a /\ j + Len(ts) - 1 = k
        BY <2>1, <2>3
      <3>2. r[j + Len(ts) - 1] = a[j]
        BY <3>1, ReplaceRest DEF r
      <3> QED
        BY <3>1, <3>2
    <2> QED
      BY <2>1, <2>2, <2>3
  <1>2. 1 \in DOMAIN a /\ Head(a) = a[1]
    BY ReplaceIndex
  <1> HIDE DEF r
  <1>3. PhiEnds(r) \subseteq PhiEnds(ts) \union PhiEnds(a)
    BY <1>1 DEF PhiEnds
  <1>4. Aimed(r) \subseteq Aimed(ts) \union Aimed(a)
    BY <1>1, AimedMember
  <1>5. Aims(Head(a)) \subseteq Aimed(a)
    BY <1>2, AimedMember
  <1>6. Head(a).do = "connectPhi" => Head(a).to \in PhiEnds(a)
    BY <1>2 DEF PhiEnds
  <1> QED
    BY <1>3, <1>4, <1>5, <1>6 DEF r

(* They are blocks. *)
LEMMA PhiEndsTyped ==
  ASSUME NEW B, NEW ts \in Seq(Tasks(B))
  PROVE  PhiEnds(ts) \subseteq B /\ Aimed(ts) \subseteq B
  <1>1. \A k \in DOMAIN ts : ts[k] \in Tasks(B)
    OBVIOUS
  <1>2. \A k \in DOMAIN ts : /\ ts[k].do = "connectPhi" => ts[k].to \in B
                             /\ Aims(ts[k]) \subseteq B
    BY <1>1, TaskFields
  <1> QED
    BY <1>2, AimedMember DEF PhiEnds

(* Where a step may lead to: where the code may go already, or to a block  *)
(* that is made.  The phi nodes it announces are in other blocks. *)
Steers(n, succs, ts) ==
  /\ succs \in Seq(Range(succs))
  /\ Range(succs) \subseteq Targets \union Made(n) \union {Null}
  /\ Targets' \subseteq Targets \union Made(n) \union {Null}
  /\ PhiEnds(ts) \subseteq Made(n)
  /\ PhiEnds(ts) \cap (Range(succs) \union Targets') = {}

(* A step that leads to no block with a phi node keeps them complete. *)
LEMMA PhisStayFit ==
  ASSUME TypeInv, PhiFit, NEW n, NEW x, NEW succs, NEW ts,
         Emission(n, x, succs, Null, ts),
         x = Null \/ x \in Open, Steers(n, succs, ts)
  PROVE  PhiFit'
  <1>1. /\ agenda # <<>> /\ agenda' = Replace(agenda, ts)
        /\ ts \in Seq(Tasks(1 .. Len(blocks) + n))
        /\ agenda \in Seq(Tasks(1 .. Len(blocks) + n))
        /\ agenda \in Seq(Tasks(Block))
    BY EmissionTypes, TypeParts DEF Emission, TypeInv
  <1>2. /\ Len(blocks) \in Nat /\ Block = 1 .. Len(blocks) /\ n \in Nat
        /\ Block' = 1 .. Len(blocks) + n /\ Null \notin Block
    BY TypeOfBlocks, EmissionTypes DEF TypeInv, Emission
  <1>3. \A b \in Block' : b # Null /\ blocks'[b].incoming = Inc(b)
    BY <1>2 DEF Emission, Grown, Null
  <1>4. PhiBlocks \subseteq Block
    BY <1>1, PhiEndsTyped DEF PhiBlocks
  <1>5. PhiBlocks \cap Made(n) = {} /\ Block \subseteq Block' /\ Made(n) \subseteq Block'
        /\ Block \cap Made(n) = {}
    BY <1>2, <1>4 DEF Made
  <1>6. PhiEnds(agenda') \subseteq PhiEnds(ts) \union PhiEnds(agenda)
    BY <1>1, ReplacePhi
  <1>7. PhiBlocks' \subseteq PhiBlocks \union PhiEnds(ts)
    <2>1. \A b \in Block' : blocks'[b].incoming # <<>> => b \in PhiBlocks
      BY <1>3 DEF Inc, PhiBlocks
    <2>2. PhiBlocks' = {b \in Block' : blocks'[b].incoming # <<>>} \union PhiEnds(agenda')
      BY DEF PhiBlocks
    <2> QED
      BY <1>6, <2>1, <2>2 DEF PhiBlocks
  <1>8. PhiBlocks' \cap Targets' = {}
    BY <1>2, <1>4, <1>5, <1>7 DEF Steers, PhiFit
  <1>9. ASSUME NEW b \in PhiBlocks
        PROVE  /\ Listed(b)' = Predecessors(b)'
               /\ \A j, k \in DOMAIN blocks'[b].incoming :
                    blocks'[b].incoming[j] = blocks'[b].incoming[k] => j = k
    <2>1. b \in Block /\ b \in Block' /\ b \notin Range(succs)
      BY <1>2, <1>4, <1>5 DEF Steers, PhiFit
    <2>2. blocks'[b].incoming = blocks[b].incoming
      BY <1>3, <2>1 DEF Inc
    <2>3. Predecessors(b)' = Predecessors(b)
      BY <2>1, PredecessorsStep DEF Range, Steers
    <2>4. Listed(b)' = Listed(b)
      BY <2>2 DEF Listed
    <2> QED
      BY <2>2, <2>3, <2>4 DEF PhiFit
  <1>10. ASSUME NEW b \in PhiEnds(ts)
         PROVE  /\ Listed(b)' = Predecessors(b)'
                /\ \A j, k \in DOMAIN blocks'[b].incoming :
                     blocks'[b].incoming[j] = blocks'[b].incoming[k] => j = k
    <2>1. b \in Made(n) /\ b \notin Range(succs) /\ b \in Block' /\ b \notin Block
      BY <1>5 DEF Steers
    <2>2. blocks'[b].incoming = <<>>
      BY <1>3, <2>1 DEF Inc
    <2>3. Predecessors(b)' = {}
      BY <2>1, PredecessorsMade DEF Range, Steers
    <2>4. Listed(b)' = {}
      BY <2>2 DEF Listed
    <2> QED
      BY <2>2, <2>3, <2>4
  <1>11. ASSUME NEW b \in PhiBlocks'
         PROVE  /\ Listed(b)' = Predecessors(b)'
                /\ \A j, k \in DOMAIN blocks'[b].incoming :
                     blocks'[b].incoming[j] = blocks'[b].incoming[k] => j = k
    BY <1>7, <1>9, <1>10
  <1> QED
    BY <1>8, <1>11 DEF PhiFit

(* The arm of a ternary ends: its phi node lists the block that ends. *)
LEMMA ArmKeepsPhis ==
  ASSUME TypeInv, PhiFit, NEW b0 \in Block, NEW x \in Open, x = insertBlock,
         Emission(0, x, <<b0>>, b0, <<>>), Head(agenda).do = "connectPhi",
         Head(agenda).to = b0, UNCHANGED <<points, mapLabel>>
  PROVE  PhiFit'
  <1>1. /\ agenda # <<>> /\ agenda' = Replace(agenda, <<>>)
        /\ <<>> \in Seq(Tasks(Block)) /\ agenda \in Seq(Tasks(Block))
    BY TypeParts DEF Emission, TypeInv
  <1>2. /\ Block' = Block /\ Null \notin Block /\ Block = 1 .. Len(blocks) + 0
    <2>1. TypeOK
      BY DEF TypeInv
    <2>2. Null \notin Block /\ Block = 1 .. Len(blocks) + 0
      BY <2>1, TypeOfBlocks
    <2>3. Block' = 1 .. Len(blocks) + 0
      BY <2>1, EmissionTypes
    <2> QED
      BY <2>2, <2>3
  <1>3. \A b \in Block : blocks'[b].incoming =
          IF b = b0 THEN Append(blocks[b].incoming, x) ELSE blocks[b].incoming
    BY <1>2 DEF Emission, Grown, Inc
  <1>4. /\ PhiEnds(<<>>) = {} /\ Aimed(<<>>) = {}
    BY AimedMember DEF PhiEnds
  <1>5. /\ PhiEnds(agenda') \subseteq PhiEnds(agenda) /\ b0 \in PhiEnds(agenda)
        /\ Aimed(agenda') \subseteq Aimed(agenda)
    BY <1>1, <1>4, ReplacePhi
  <1>6. PhiBlocks' \subseteq PhiBlocks /\ b0 \in PhiBlocks
    <2>1. PhiBlocks' = {b \in Block' : blocks'[b].incoming # <<>>} \union PhiEnds(agenda')
      BY DEF PhiBlocks
    <2> QED
      BY <1>2, <1>3, <1>5, <2>1 DEF PhiBlocks
  <1>7. Targets' \subseteq Targets
    BY <1>5 DEF Targets, points
  <1>8. PhiBlocks \subseteq Block
    BY <1>1, PhiEndsTyped DEF PhiBlocks
  <1> DEFINE succs == <<b0>>
  <1>9. /\ succs \in Seq(Block) /\ {succs[k] : k \in DOMAIN succs} = {b0}
        /\ Emission(0, x, succs, b0, <<>>)
    OBVIOUS
  <1> HIDE DEF succs
  <1>10. ASSUME NEW b \in PhiBlocks, b # b0
         PROVE  /\ Listed(b)' = Predecessors(b)'
                /\ \A j, k \in DOMAIN blocks'[b].incoming :
                     blocks'[b].incoming[j] = blocks'[b].incoming[k] => j = k
    <2>1. blocks'[b].incoming = blocks[b].incoming /\ b \in Block
      BY <1>3, <1>8, <1>10
    <2>2. b \in Block /\ b \notin {succs[k] : k \in DOMAIN succs}
      BY <1>9, <1>10, <2>1
    <2>3. Predecessors(b)' = Predecessors(b)
      <3>1. \A c \in Block : c \notin {succs[k] : k \in DOMAIN succs}
                              => Predecessors(c)' = Predecessors(c)
        BY <1>9, PredecessorsStep
      <3> QED
        BY <2>2, <3>1
    <2>4. Listed(b)' = Listed(b)
      BY <2>1 DEF Listed
    <2> QED
      BY <2>1, <2>3, <2>4 DEF PhiFit
  <1>11. /\ Listed(b0)' = Predecessors(b0)'
         /\ \A j, k \in DOMAIN blocks'[b0].incoming :
              blocks'[b0].incoming[j] = blocks'[b0].incoming[k] => j = k
    <2> DEFINE old == blocks[b0].incoming
               new == blocks'[b0].incoming
    <2>1. Predecessors(b0)' = Predecessors(b0) \union {x} /\ x \notin Predecessors(b0)
      BY <1>9, PredecessorsStep
    <2>2. /\ {old[k] : k \in DOMAIN old} = Predecessors(b0)
          /\ \A j, k \in DOMAIN old : old[j] = old[k] => j = k
      BY <1>6 DEF PhiFit, Listed
    <2>3. new = Append(old, x) /\ old \in Seq(Block) /\ x \in Block
      <3>1. blocks \in Seq(BlocksOver(Block))
        BY TypeParts DEF TypeInv
      <3>2. blocks[b0] \in BlocksOver(Block)
        BY <3>1 DEF Block
      <3> QED
        BY <1>3, <3>2 DEF BlocksOver, Open
    <2> HIDE DEF old, new
    <2>4. /\ Len(old) \in Nat /\ DOMAIN old = 1 .. Len(old)
          /\ DOMAIN new = 1 .. Len(old) + 1
          /\ new[Len(old) + 1] = x
          /\ \A k \in 1 .. Len(old) : new[k] = old[k]
      BY <2>3, AppendProperties
    <2>5. {new[k] : k \in DOMAIN new} = {old[k] : k \in DOMAIN old} \union {x}
      BY <2>4
    <2>6. \A k \in DOMAIN old : old[k] # x
      BY <2>1, <2>2
    <2>7. \A j, k \in DOMAIN new : new[j] = new[k] => j = k
      BY <2>2, <2>4, <2>6
    <2>8. Listed(b0)' = {new[k] : k \in DOMAIN new}
      BY DEF Listed, new
    <2> QED
      BY <2>1, <2>2, <2>5, <2>7, <2>8 DEF new
  <1>12. PhiBlocks' \cap Targets' = {}
    BY <1>6, <1>7 DEF PhiFit
  <1>13. ASSUME NEW b \in PhiBlocks'
         PROVE  /\ Listed(b)' = Predecessors(b)'
                /\ \A j, k \in DOMAIN blocks'[b].incoming :
                     blocks'[b].incoming[j] = blocks'[b].incoming[k] => j = k
    BY <1>6, <1>10, <1>11
  <1> QED
    BY <1>12, <1>13 DEF PhiFit

(* The targets of branches with no, one and two successors. *)
LEMMA RangeOf ==
  /\ Range(<<>>) = {} /\ <<>> \in Seq(Range(<<>>))
  /\ \A a : Range(<<a>>) = {a} /\ <<a>> \in Seq(Range(<<a>>))
  /\ \A a, b : Range(<<a, b>>) = {a, b} /\ <<a, b>> \in Seq(Range(<<a, b>>))
  <1>1. Range(<<>>) = {} /\ <<>> \in Seq(Range(<<>>))
    BY DEF Range
  <1>2. ASSUME NEW a PROVE Range(<<a>>) = {a}
    <2>1. DOMAIN <<a>> = 1 .. 1 /\ <<a>>[1] = a
      OBVIOUS
    <2>2. 1 .. 1 = {1}
      OBVIOUS
    <2> QED
      BY <2>1, <2>2 DEF Range
  <1>3. ASSUME NEW a, NEW b PROVE Range(<<a, b>>) = {a, b}
    <2>1. DOMAIN <<a, b>> = 1 .. 2 /\ <<a, b>>[1] = a /\ <<a, b>>[2] = b
      OBVIOUS
    <2>2. 1 .. 2 = {1, 2}
      OBVIOUS
    <2> QED
      BY <2>1, <2>2 DEF Range
  <1>4. ASSUME NEW a PROVE <<a>> \in Seq({a})
    OBVIOUS
  <1>5. ASSUME NEW a, NEW b PROVE <<a, b>> \in Seq({a, b})
    OBVIOUS
  <1> QED
    BY <1>1, <1>2, <1>3, <1>4, <1>5

(* Most steps announce no phi node. *)
LEMMA PlainSteers ==
  ASSUME TypeInv, agenda # <<>>, NEW n, NEW succs, NEW ts, UNCHANGED mapLabel,
         agenda' = Replace(agenda, ts), ts \in Seq(Tasks(1 .. Len(blocks) + n)), n \in Nat,
         succs \in Seq(Range(succs)),
         {breakPoint', continuePoint'} \subseteq Targets \union Made(n) \union Aims(Head(agenda)),
         Range(succs) \subseteq Targets \union Made(n) \union Aims(Head(agenda)),
         Aimed(ts) \subseteq Made(n) \union Aims(Head(agenda)), PhiEnds(ts) = {}
  PROVE  Steers(n, succs, ts)
  <1>1. agenda \in Seq(Tasks(1 .. Len(blocks) + n))
    <2>1. agenda \in Seq(Tasks(Block)) /\ Block = 1 .. Len(blocks) /\ Len(blocks) \in Nat
      BY TypeParts, TypeOfBlocks DEF TypeInv
    <2>2. Block \subseteq 1 .. Len(blocks) + n
      BY <2>1
    <2>3. Tasks(Block) \subseteq Tasks(1 .. Len(blocks) + n)
      BY <2>2, TasksGrow
    <2> QED
      BY <2>1, <2>3, SeqMonotonic
  <1>2. /\ Aimed(agenda') \subseteq Aimed(ts) \union Aimed(agenda)
        /\ Aims(Head(agenda)) \subseteq Aimed(agenda)
    BY <1>1, ReplacePhi
  <1>3. Aims(Head(agenda)) \subseteq Targets
    BY <1>2 DEF Targets
  <1>4. Aimed(agenda') \subseteq Targets \union Made(n)
    BY <1>2, <1>3 DEF Targets
  <1>5. Targets' \subseteq Targets \union Made(n)
    BY <1>3, <1>4 DEF Targets
  <1> QED
    BY <1>3, <1>5 DEF Steers

(* The block a step ends has no end yet. *)
Ended == {Null} \union Current \union Opens(Head(agenda))

(* It is the current block, or the one that connectBlocks names. *)
LEMMA EndedOpen ==
  ASSUME TypeInv, BlocksFit, agenda # <<>>
  PROVE  /\ \A x \in Ended : x = Null \/ x \in Open
         /\ ~Opener(Head(agenda)) => insertBlock \in Ended /\ insertBlock \in Open
  <1>1. Opens(Head(agenda)) \subseteq Opened(agenda)
    <2>1. agenda \in Seq(Tasks(Block))
      BY TypeParts DEF TypeInv
    <2>2. 1 \in DOMAIN agenda /\ Head(agenda) = agenda[1]
      BY <2>1
    <2> QED
      BY <2>2, OpenedMember
  <1>2. Current = IF Opener(Head(agenda)) THEN {} ELSE {insertBlock}
    BY HeadFacts
  <1> QED
    BY <1>1, <1>2 DEF BlocksFit, Ended

Steering == \E n, x, succs, ts : /\ Emission(n, x, succs, Null, ts)
                                 /\ x \in Ended /\ Steers(n, succs, ts)

(* What makes a step one that leads to no block with a phi node. *)
LEMMA SteeringBy ==
  ASSUME TypeInv, NEW n, NEW x \in Ended, NEW succs, NEW ts,
         Emission(n, x, succs, Null, ts), UNCHANGED mapLabel,
         succs \in Seq(Range(succs)),
         {breakPoint', continuePoint'} \subseteq Targets \union Made(n) \union Aims(Head(agenda)),
         Range(succs) \subseteq Targets \union Made(n) \union Aims(Head(agenda)),
         Aimed(ts) \subseteq Made(n) \union Aims(Head(agenda)), PhiEnds(ts) = {}
  PROVE  Steering
  <1>1. /\ agenda # <<>> /\ agenda' = Replace(agenda, ts) /\ n \in Nat
        /\ ts \in Seq(Tasks(1 .. Len(blocks) + n))
    BY DEF Emission
  <1>2. Steers(n, succs, ts)
    BY <1>1, PlainSteers
  <1> QED
    BY <1>2 DEF Steering

(* No calls aim at nothing. *)
LEMMA NoCalls == Aimed(<<>>) = {} /\ PhiEnds(<<>>) = {}
  BY DEF Aimed, PhiEnds

(* Break and continue points that stay are targets as before. *)
LEMMA PointsStay ==
  UNCHANGED points => {breakPoint', continuePoint'} \subseteq Targets
  BY DEF points, Targets

(* Each action is such a step: loops, if statements and jumps ... *)
LEMMA StatementSteers ==
  ASSUME TypeInv, BlocksFit,
         \/ WhileStatement \/ EndWhileStatement \/ DoStatement \/ EndDoStatement
         \/ \E hasElse \in BOOLEAN : SelectionStatement(hasElse)
         \/ MakeReturn \/ BreakStatement \/ ContinueStatement
  PROVE  Steering
  <1>1. agenda # <<>> /\ Head(agenda).do \in {"statement", "return", "endWhile", "doTest"}
    BY DEF WhileStatement, EndWhileStatement, DoStatement, EndDoStatement,
           SelectionStatement, MakeReturn, BreakStatement, ContinueStatement,
           Jump, Calls
  <1>2. insertBlock \in Ended
    BY <1>1, EndedOpen DEF Opener
  <1>3. UNCHANGED mapLabel
    BY DEF WhileStatement, EndWhileStatement, DoStatement, EndDoStatement,
           SelectionStatement, MakeReturn, BreakStatement, ContinueStatement, Jump
  <1>4. /\ Made(1) = {Fresh(1)} /\ Made(2) = {Fresh(1), Fresh(2)}
        /\ Made(3) = {Fresh(1), Fresh(2), Fresh(3)}
        /\ Made(4) = {Fresh(1), Fresh(2), Fresh(3), Fresh(4)}
    BY <1>1, HeadFacts
  <1>5. /\ Range(<<Fresh(1)>>) = {Fresh(1)}
        /\ <<Fresh(1)>> \in Seq(Range(<<Fresh(1)>>))
    BY RangeOf
  <1>6. CASE MakeReturn \/ BreakStatement \/ ContinueStatement
    <2>1. PICK succs : /\ Emission(1, insertBlock, succs, Null, <<>>)
                       /\ \/ succs = <<>>
                          \/ succs \in {<<breakPoint>>, <<continuePoint>>}
      BY <1>6, JumpSteps
    <2>2. Range(succs) \subseteq Targets /\ succs \in Seq(Range(succs))
      BY <2>1, RangeOf DEF Targets
    <2>3. {breakPoint', continuePoint'} \subseteq Targets
      BY <1>6, JumpSteps, PointsStay
    <2> QED
      BY <1>2, <1>3, <2>1, <2>2, <2>3, NoCalls, SteeringBy
  <1>7. CASE WhileStatement
    <2> DEFINE ts == WhileCalls(Fresh(1), Fresh(2), Fresh(3))
               succs == <<Fresh(1)>>
    <2>1. /\ Emission(3, insertBlock, succs, Null, ts)
          /\ breakPoint' = Fresh(3) /\ continuePoint' = Fresh(2)
      BY <1>7, WhileStep DEF WhileStatement
    <2>2. Aimed(ts) = {Fresh(1), Fresh(2), Fresh(3)} /\ PhiEnds(ts) = {}
      BY <1>1, StatementShapes DEF Shaped
    <2>3. Range(succs) = {Fresh(1)} /\ succs \in Seq(Range(succs))
      BY <1>5
    <2> HIDE DEF ts, succs
    <2> QED
      BY <1>2, <1>3, <1>4, <2>1, <2>2, <2>3, SteeringBy
  <1>8. CASE EndWhileStatement
    <2> DEFINE succs == <<Head(agenda).header>>
    <2>1. /\ Emission(0, insertBlock, succs, Null, <<>>)
          /\ Head(agenda).do = "endWhile"
      BY <1>8, EndWhileStep
    <2>2. Range(succs) = {Head(agenda).header} /\ succs \in Seq(Range(succs))
      BY RangeOf
    <2>3. Aims(Head(agenda)) = {Head(agenda).header}
      BY <2>1 DEF Aims, Branching
    <2>4. {breakPoint', continuePoint'} \subseteq Targets
      BY <1>8, PointsStay DEF EndWhileStatement
    <2> HIDE DEF succs
    <2> QED
      BY <1>2, <1>3, <2>1, <2>2, <2>3, <2>4, NoCalls, SteeringBy
  <1>9. CASE DoStatement
    <2> DEFINE ts == DoCalls(Fresh(1))
               succs == <<Fresh(1)>>
    <2>1. /\ Emission(1, insertBlock, succs, Null, ts)
          /\ {breakPoint', continuePoint'} \subseteq Targets
      BY <1>9, DoStep, PointsStay DEF DoStatement
    <2>2. Aimed(ts) = {Fresh(1)} /\ PhiEnds(ts) = {}
      BY <1>1, StatementShapes DEF Shaped
    <2>3. Range(succs) = {Fresh(1)} /\ succs \in Seq(Range(succs))
      BY <1>5
    <2> HIDE DEF ts, succs
    <2> QED
      BY <1>2, <1>3, <1>4, <2>1, <2>2, <2>3, SteeringBy
  <1>10. CASE EndDoStatement
    <2> DEFINE ts == EndDoCalls(Head(agenda).content, Fresh(2))
               succs == <<Fresh(1)>>
    <2>1. /\ Emission(2, insertBlock, succs, Null, ts)
          /\ Head(agenda).do = "doTest"
          /\ breakPoint' = Fresh(2) /\ continuePoint' = Head(agenda).content
      BY <1>10, EndDoStep DEF EndDoStatement, call
    <2>2. Aimed(ts) = {Head(agenda).content, Fresh(2)} /\ PhiEnds(ts) = {}
      BY <1>1, StatementShapes DEF Shaped
    <2>3. Range(succs) = {Fresh(1)} /\ succs \in Seq(Range(succs))
      BY <1>5
    <2>4. Aims(Head(agenda)) = {Head(agenda).content}
      BY <2>1 DEF Aims, Branching
    <2> HIDE DEF ts, succs
    <2> QED
      BY <1>2, <1>3, <1>4, <2>1, <2>2, <2>3, <2>4, SteeringBy
  <1>11. ASSUME NEW hasElse \in BOOLEAN, SelectionStatement(hasElse)
         PROVE  Steering
    <2> DEFINE succs == <<Fresh(1)>>
    <2>1. PICK ts \in {IfCalls(Fresh(2), Fresh(3), Fresh(4)),
                       IfElseCalls(Fresh(2), Fresh(3), Fresh(4))} :
              Emission(4, insertBlock, succs, Null, ts)
      BY <1>11, SelectionStep
    <2>2. Aimed(ts) = {Fresh(2), Fresh(3), Fresh(4)} /\ PhiEnds(ts) = {}
      BY <1>1, <2>1, StatementShapes DEF Shaped
    <2>3. Range(succs) = {Fresh(1)} /\ succs \in Seq(Range(succs))
      BY <1>5
    <2>4. {breakPoint', continuePoint'} \subseteq Targets
      BY <1>11, PointsStay DEF SelectionStatement
    <2> HIDE DEF succs
    <2> QED
      BY <1>2, <1>3, <1>4, <2>1, <2>2, <2>3, <2>4, SteeringBy
  <1> QED
    BY <1>6, <1>7, <1>8, <1>9, <1>10, <1>11

(* The phi node of a ternary is in a block that is made last, which is the *)
(* target of no other call. *)
LEMMA ValueSteers ==
  ASSUME TypeInv, RvalueTernary
  PROVE  Steering
  <1> DEFINE ts == ValueCalls(Fresh(1), Fresh(2), Fresh(3))
  <1>1. /\ Emission(3, Null, <<>>, Null, ts)
        /\ UNCHANGED <<mapLabel, points>>
    BY ValueStep DEF RvalueTernary
  <1>2. /\ agenda # <<>> /\ agenda' = Replace(agenda, ts)
        /\ ts \in Seq(Tasks(1 .. Len(blocks) + 3))
    BY <1>1 DEF Emission
  <1>3. Aimed(ts) = {Fresh(1), Fresh(2)} /\ PhiEnds(ts) = {Fresh(3)}
    BY <1>2, StatementShapes DEF Shaped
  <1> HIDE DEF ts
  <1>4. /\ Made(3) = {Fresh(1), Fresh(2), Fresh(3)}
        /\ Fresh(1) # Fresh(3) /\ Fresh(2) # Fresh(3) /\ Fresh(3) # Null
    BY <1>2, HeadFacts
  <1>5. /\ agenda \in Seq(Tasks(Block)) /\ PlacesTyped(Block) /\ Fresh(3) \notin Block
        /\ agenda \in Seq(Tasks(1 .. Len(blocks) + 3))
    <2>1. TypeOK
      BY DEF TypeInv
    <2>2. agenda \in Seq(Tasks(1 .. Len(blocks) + 3))
      BY <1>1, <2>1, EmissionTypes
    <2>3. agenda \in Seq(Tasks(Block)) /\ PlacesTyped(Block)
      BY <2>1, TypeParts
    <2>4. Block = 1 .. Len(blocks) /\ Len(blocks) \in Nat
      BY <2>1, TypeOfBlocks
    <2>5. Fresh(3) \notin Block
      BY <2>4 DEF Fresh
    <2> QED
      BY <2>2, <2>3, <2>5
  <1>6. Aimed(agenda) \subseteq Block
    BY <1>5, PhiEndsTyped
  <1>7. Targets \subseteq Block \union {Null}
    BY <1>5, <1>6 DEF Targets, PlacesTyped
  <1>8. Aimed(agenda') \subseteq Aimed(ts) \union Aimed(agenda)
    BY <1>2, <1>5, ReplacePhi
  <1>9. Targets' \subseteq Targets \union {Fresh(1), Fresh(2)}
    BY <1>1, <1>3, <1>8 DEF Targets, points
  <1>10. Range(<<>>) = {} /\ <<>> \in Seq(Range(<<>>))
    BY RangeOf
  <1>11. Steers(3, <<>>, ts)
    BY <1>3, <1>4, <1>5, <1>7, <1>9, <1>10 DEF Steers
  <1>12. Null \in Ended
    BY DEF Ended
  <1> QED
    BY <1>1, <1>11, <1>12 DEF Steering

(* ... conditions ... *)
LEMMA ConditionSteers ==
  ASSUME TypeInv,
         \/ ConditionLeaf \/ ConditionAnd \/ ConditionOr \/ ConditionNot
         \/ ConditionTernary
  PROVE  Steering
  <1>1. PICK p \in ConditionPlans : Emission(p[1], Null, <<>>, Null, p[2])
    BY ConditionSteps
  <1>2. /\ Head(agenda).do = "condition" /\ UNCHANGED <<mapLabel, points>>
        /\ agenda # <<>>
    BY <1>1, ConditionSteps DEF Emission
  <1>3. Aims(Head(agenda)) = {Yes, No}
    BY <1>2 DEF Aims, Branching, Yes, No
  <1>4. /\ Made(0) = {} /\ Made(1) = {Fresh(1)} /\ Made(2) = {Fresh(1), Fresh(2)}
    BY <1>2, HeadFacts
  <1>5. {breakPoint', continuePoint'} \subseteq Targets
    BY <1>2, PointsStay
  <1>6. Null \in Ended
    BY DEF Ended
  <1>7. ASSUME NEW n, NEW ts, NEW opened, NEW aimed, Emission(n, Null, <<>>, Null, ts),
               Shaped(ts, opened, aimed, {}, TRUE), aimed \subseteq Made(n) \union {Yes, No}
        PROVE  Steering
    <2>1. Aimed(ts) \subseteq Made(n) \union Aims(Head(agenda)) /\ PhiEnds(ts) = {}
      BY <1>3, <1>7 DEF Shaped
    <2>2. Range(<<>>) = {} /\ <<>> \in Seq(Range(<<>>))
      BY RangeOf
    <2> QED
      BY <1>2, <1>5, <1>6, <1>7, <2>1, <2>2, SteeringBy
  <1>8. CASE p = <<0, LeafCalls(Yes, No)>>
    <2>1. Shaped(LeafCalls(Yes, No), {}, {Yes, No}, {}, TRUE)
      BY <1>2, ConditionShapes
    <2> QED
      BY <1>1, <1>7, <1>8, <2>1
  <1>9. CASE p = <<0, NotCalls(Yes, No)>>
    <2>1. Shaped(NotCalls(Yes, No), {}, {Yes, No}, {}, TRUE)
      BY <1>2, ConditionShapes
    <2> QED
      BY <1>1, <1>7, <1>9, <2>1
  <1>10. CASE p = <<1, AndCalls(Fresh(1), Yes, No)>>
    <2>1. Shaped(AndCalls(Fresh(1), Yes, No), {Fresh(1)}, {Fresh(1), Yes, No}, {}, TRUE)
      BY <1>2, ConditionShapes
    <2> QED
      BY <1>1, <1>4, <1>7, <1>10, <2>1
  <1>11. CASE p = <<1, OrCalls(Fresh(1), Yes, No)>>
    <2>1. Shaped(OrCalls(Fresh(1), Yes, No), {Fresh(1)}, {Fresh(1), Yes, No}, {}, TRUE)
      BY <1>2, ConditionShapes
    <2> QED
      BY <1>1, <1>4, <1>7, <1>11, <2>1
  <1>12. CASE p = <<2, TernaryCalls(Fresh(1), Fresh(2), Yes, No)>>
    <2>1. Shaped(TernaryCalls(Fresh(1), Fresh(2), Yes, No), {Fresh(1), Fresh(2)},
                 {Fresh(1), Fresh(2), Yes, No}, {}, TRUE)
      BY <1>2, ConditionShapes
    <2> QED
      BY <1>1, <1>4, <1>7, <1>12, <2>1
  <1> QED
    BY <1>8, <1>9, <1>10, <1>11, <1>12 DEF ConditionPlans

(* ... branches and changes of the current block ... *)
LEMMA ClosingSteers ==
  ASSUME TypeInv, BlocksFit,
         \/ MakeConditionalBranch \/ SetCurrentBasicBlock \/ ConnectCurrent
         \/ ConnectBlocks
  PROVE  Steering
  <1>1. /\ agenda # <<>> /\ UNCHANGED <<mapLabel, points>>
    BY DEF MakeConditionalBranch, SetCurrentBasicBlock, ConnectCurrent,
           ConnectBlocks, Calls
  <1>2. {breakPoint', continuePoint'} \subseteq Targets
    BY <1>1, PointsStay
  <1>3. ASSUME NEW x \in Ended, NEW succs, Emission(0, x, succs, Null, <<>>),
               Range(succs) \subseteq Aims(Head(agenda)), succs \in Seq(Range(succs))
        PROVE  Steering
    BY <1>1, <1>2, <1>3, NoCalls, SteeringBy
  <1>4. Null \in Ended
    BY DEF Ended
  <1>5. CASE MakeConditionalBranch
    <2>1. /\ Emission(0, insertBlock, <<Yes, No>>, Null, <<>>)
          /\ Head(agenda).do = "conditionalBranch"
      BY <1>5, BranchStep
    <2>2. insertBlock \in Ended
      BY <1>1, <2>1, EndedOpen DEF Opener
    <2>3. Range(<<Yes, No>>) = {Yes, No} /\ <<Yes, No>> \in Seq(Range(<<Yes, No>>))
      BY RangeOf
    <2>4. Aims(Head(agenda)) = {Yes, No}
      BY <2>1 DEF Aims, Branching, Yes, No
    <2> QED
      BY <1>3, <2>1, <2>2, <2>3, <2>4
  <1>6. CASE SetCurrentBasicBlock
    <2>1. Emission(0, Null, <<>>, Null, <<>>)
      BY <1>6, InsertStep
    <2>2. Range(<<>>) = {} /\ <<>> \in Seq(Range(<<>>))
      BY RangeOf
    <2> QED
      BY <1>3, <1>4, <2>1, <2>2
  <1>7. CASE ConnectCurrent
    <2> DEFINE b == Head(agenda).to
    <2>1. Emission(0, insertBlock, <<b>>, Null, <<>>) /\ Head(agenda).do = "connect"
      BY <1>7, ConnectStep
    <2>2. insertBlock \in Ended
      BY <1>1, <2>1, EndedOpen DEF Opener
    <2>3. Range(<<b>>) = {b} /\ <<b>> \in Seq(Range(<<b>>))
      BY RangeOf
    <2>4. Aims(Head(agenda)) = {b}
      BY <2>1 DEF Aims, Branching
    <2> HIDE DEF b
    <2> QED
      BY <1>3, <2>1, <2>2, <2>3, <2>4
  <1>8. CASE ConnectBlocks
    <2> DEFINE b == Head(agenda).to
               a == Head(agenda).from
    <2>1. Emission(0, a, <<b>>, Null, <<>>) /\ Head(agenda).do = "connectFrom"
      BY <1>8, ConnectBlocksStep
    <2>2. a \in Ended
      BY <2>1 DEF Ended, Opens
    <2>3. Range(<<b>>) = {b} /\ <<b>> \in Seq(Range(<<b>>))
      BY RangeOf
    <2>4. Aims(Head(agenda)) = {b}
      BY <2>1 DEF Aims, Branching
    <2> HIDE DEF a, b
    <2> QED
      BY <1>3, <2>1, <2>2, <2>3, <2>4
  <1> QED
    BY <1>5, <1>6, <1>7, <1>8

(* ... and steps that only look at the syntax tree. *)
LEMMA QuietSteers ==
  ASSUME TypeInv,
         \/ CompoundStatement \/ NestedCompoundStatement \/ ExpressionStatement
         \/ ReturnStatement \/ RvalueLeaf \/ RvalueBinary
  PROVE  Steering
  <1>1. PICK ts : Plain(ts) /\ Emission(0, Null, <<>>, Null, ts)
    BY QuietSteps
  <1>2. UNCHANGED mapLabel /\ UNCHANGED points
    BY QuietSteps DEF ir
  <1>3. Aimed(ts) = {} /\ PhiEnds(ts) = {}
    BY <1>1, PlainCalls DEF Emission
  <1>4. {breakPoint', continuePoint'} \subseteq Targets
    BY <1>2, PointsStay
  <1>5. Range(<<>>) = {} /\ <<>> \in Seq(Range(<<>>))
    BY RangeOf
  <1>6. Null \in Ended
    BY DEF Ended
  <1> QED
    BY <1>1, <1>2, <1>3, <1>4, <1>5, <1>6, SteeringBy

(* Only the end of a ternary's arm leads to a phi node. *)
LEMMA OrdinarySteers ==
  ASSUME TypeInv, BlocksFit, Ordinary
  PROVE  Steering \/ ConnectArm
  BY StatementSteers, ValueSteers, ConditionSteers, ClosingSteers, QuietSteers
     DEF Ordinary, Expression

(* A label or a goto: the current block ends in a branch to the label's. *)
LEMMA LabelSteers ==
  ASSUME TypeInv, BlocksFit, NEW l \in Labels, LabeledStatement(l) \/ GotoStatement(l)
  PROVE  Steering
  <1>1. \E n, b, ts :
          /\ Emission(n, insertBlock, <<b>>, Null, ts) /\ Plain(ts)
          /\ b = mapLabel[l] \/ b \in Made(n)
          /\ mapLabel' = [mapLabel EXCEPT ![l] = b]
          /\ UNCHANGED points /\ Head(agenda).do = "statement"
    <2>1. CASE LabeledStatement(l)
      <3> DEFINE ts == <<Task("statement")>>
      <3>1. \E n \in {0, 1} : \E b \in 1 .. Len(blocks) + n :
              /\ Emission(n, insertBlock, <<b>>, Null, ts)
              /\ \/ b = mapLabel[l]
                 \/ n = 1 /\ b = Fresh(1)
              /\ mapLabel' = [mapLabel EXCEPT ![l] = b]
              /\ UNCHANGED points /\ Head(agenda).do = "statement"
        BY <2>1, LabelStep
      <3>2. Plain(ts)
        BY TaskDos DEF Plain
      <3> HIDE DEF ts
      <3>3. Head(agenda).do = "statement" => Made(1) = {Fresh(1)} \/ agenda = <<>>
        BY HeadFacts
      <3> QED
        BY <3>1, <3>2, <3>3 DEF Emission
    <2>2. CASE GotoStatement(l)
      <3>1. \E n \in {1, 2} : \E b \in 1 .. Len(blocks) + n :
              /\ Emission(n, insertBlock, <<b>>, Null, <<>>)
              /\ \/ b = mapLabel[l]
                 \/ n = 2 /\ b = Fresh(2)
              /\ mapLabel' = [mapLabel EXCEPT ![l] = b]
              /\ UNCHANGED points /\ Head(agenda).do = "statement"
        BY <2>2, GotoStep
      <3>2. Plain(<<>>)
        BY DEF Plain
      <3>3. Made(2) = {Fresh(1), Fresh(2)} \/ agenda = <<>>
        BY HeadFacts
      <3> QED
        BY <3>1, <3>2, <3>3 DEF Emission
    <2> QED
      BY <2>1, <2>2
  <1>2. PICK n, b, ts :
          /\ Emission(n, insertBlock, <<b>>, Null, ts) /\ Plain(ts)
          /\ b = mapLabel[l] \/ b \in Made(n)
          /\ mapLabel' = [mapLabel EXCEPT ![l] = b]
          /\ UNCHANGED points /\ Head(agenda).do = "statement"
    BY <1>1
  <1>3. /\ agenda # <<>> /\ ts \in Seq(Tasks(1 .. Len(blocks) + n))
        /\ agenda' = Replace(agenda, ts)
    BY <1>2 DEF Emission
  <1>4. Aimed(ts) = {} /\ PhiEnds(ts) = {}
    BY <1>2, <1>3, PlainCalls
  <1>5. insertBlock \in Ended
    BY <1>2, <1>3, EndedOpen DEF Opener
  <1>6. /\ agenda \in Seq(Tasks(1 .. Len(blocks) + n))
        /\ mapLabel \in [Labels -> Block \union {Null}]
    <2>1. TypeOK
      BY DEF TypeInv
    <2>2. agenda \in Seq(Tasks(1 .. Len(blocks) + n))
      BY <1>2, <2>1, EmissionTypes
    <2> QED
      BY <2>1, <2>2, TypeParts DEF PlacesTyped
  <1>7. Aimed(agenda') \subseteq Aimed(agenda)
    BY <1>3, <1>4, <1>6, ReplacePhi
  <1>8. b \in Targets \union Made(n)
    BY <1>2 DEF Targets
  <1>9. Targets' \subseteq Targets \union Made(n)
    <2>1. \A m \in Labels : mapLabel'[m] = IF m = l THEN b ELSE mapLabel[m]
      BY <1>2, <1>6
    <2>2. \A m \in Labels : mapLabel'[m] \in Targets \union Made(n)
      BY <1>8, <2>1 DEF Targets
    <2> QED
      BY <1>2, <1>7, <2>2 DEF Targets, points
  <1>10. Range(<<b>>) = {b} /\ <<b>> \in Seq(Range(<<b>>))
    BY RangeOf
  <1>11. Steers(n, <<b>>, ts)
    BY <1>4, <1>8, <1>9, <1>10 DEF Steers
  <1> QED
    BY <1>2, <1>5, <1>11 DEF Steering

(* So all steps of a body keep phi nodes complete. *)
LEMMA BodyKeepsPhis ==
  ASSUME TypeInv, BlocksFit, PhiFit, Steering \/ ConnectArm
  PROVE  PhiFit'
  <1>1. CASE Steering
    <2>1. PICK n, x, succs, ts : /\ Emission(n, x, succs, Null, ts)
                                 /\ x \in Ended /\ Steers(n, succs, ts)
      BY <1>1 DEF Steering
    <2>2. x = Null \/ x \in Open
      BY <2>1, EndedOpen DEF Emission
    <2> QED
      BY <2>1, <2>2, PhisStayFit
  <1>2. CASE ConnectArm
    <2> DEFINE b == Head(agenda).to
    <2>1. /\ Emission(0, insertBlock, <<b>>, b, <<>>)
          /\ Head(agenda).do = "connectPhi" /\ b \in Block
      BY <1>2, ArmStep
    <2>2. insertBlock \in Open
      BY <2>1, EndedOpen DEF Opener, Emission
    <2>3. UNCHANGED <<points, mapLabel>>
      BY <1>2 DEF ConnectArm
    <2>4. Head(agenda).to = b
      OBVIOUS
    <2> HIDE DEF b
    <2> QED
      BY <2>1, <2>2, <2>3, <2>4, ArmKeepsPhis
  <1> QED
    BY <1>1, <1>2

(* The other steps give no block another successor. *)
LEMMA FrameKeepsPhis ==
  ASSUME PhiFit, PhiBlocks \subseteq Block, Block \subseteq Block', Null \notin Block,
         \A b \in Block : /\ blocks'[b].incoming = blocks[b].incoming
                          /\ Successors(b)' = Successors(b),
         \A b \in Block' \ Block : /\ blocks'[b].incoming = <<>>
                                   /\ Successors(b)' = {},
         PhiEnds(agenda') \subseteq PhiEnds(agenda),
         Targets' \subseteq Targets \union {Null}
  PROVE  PhiFit'
  <1>1. PhiBlocks' \subseteq PhiBlocks
    <2>1. PhiBlocks' = {b \in Block' : blocks'[b].incoming # <<>>} \union PhiEnds(agenda')
      BY DEF PhiBlocks
    <2> QED
      BY <2>1 DEF PhiBlocks
  <1>2. ASSUME NEW b \in PhiBlocks
        PROVE  /\ Listed(b)' = Predecessors(b)'
               /\ \A j, k \in DOMAIN blocks'[b].incoming :
                    blocks'[b].incoming[j] = blocks'[b].incoming[k] => j = k
    <2>1. Predecessors(b)' = {a \in Block' : b \in Successors(a)'}
      BY DEF Predecessors
    <2>2. Predecessors(b)' = Predecessors(b)
      BY <2>1 DEF Predecessors
    <2>3. blocks'[b].incoming = blocks[b].incoming
      OBVIOUS
    <2>4. Listed(b)' = Listed(b)
      BY <2>3 DEF Listed
    <2> QED
      BY <2>2, <2>3, <2>4 DEF PhiFit
  <1>3. PhiBlocks' \cap Targets' = {}
    BY <1>1 DEF PhiFit
  <1>4. ASSUME NEW b \in PhiBlocks'
        PROVE  /\ Listed(b)' = Predecessors(b)'
               /\ \A j, k \in DOMAIN blocks'[b].incoming :
                    blocks'[b].incoming[j] = blocks'[b].incoming[k] => j = k
    BY <1>1, <1>2
  <1> QED
    BY <1>3, <1>4 DEF PhiFit

(* Phi nodes are in blocks. *)
LEMMA PhiBlocksTyped ==
  ASSUME TypeInv
  PROVE  PhiBlocks \subseteq Block
  BY TypeParts, PhiEndsTyped DEF TypeInv, PhiBlocks

(* A new function has no branch and no phi node. *)
LEMMA DefineKeepsPhis ==
  ASSUME TypeInv, PhiFit, NEW f \in FunctionNames, DefineFunction(f)
  PROVE  PhiFit'
  <1>1. /\ agenda = <<>> /\ agenda' = <<Task("compound")>>
        /\ mapLabel' \in {mapLabel, NoLabels} /\ UNCHANGED points
    BY DEF DefineFunction, TypeInv
  <1>2. /\ Block' = 1 .. Len(blocks) + 1 /\ Block = 1 .. Len(blocks)
        /\ Len(blocks) \in Nat /\ Null \notin Block
    BY DefineTyped, TypeOfBlocks DEF TypeInv
  <1>3. /\ \A b \in Block : blocks'[b] = blocks[b]
        /\ blocks'[Fresh(1)].terminators = <<>> /\ blocks'[Fresh(1)].incoming = <<>>
    <2>1. blocks'[Fresh(1)] = [of |-> f, terminators |-> <<>>, incoming |-> <<>>]
      BY DefineTyped
    <2>2. \A b \in Block : blocks'[b] = blocks[b]
      BY DefineTyped
    <2> QED
      BY <2>1, <2>2
  <1>4. Block \subseteq Block' /\ Block' \ Block = {Fresh(1)}
    BY <1>2 DEF Fresh
  <1>5. \A b \in Block : Successors(b)' = Successors(b)
    BY <1>3 DEF Successors
  <1>6. ASSUME NEW b \in Block' \ Block PROVE Successors(b)' = {}
    <2>1. Successors(b)' = Reached(blocks'[b].terminators)
      BY DEF Successors, Reached
    <2>2. Reached(<<>>) = {}
      BY DEF Reached
    <2> QED
      BY <1>3, <1>4, <2>1, <2>2
  <1>7. PhiEnds(agenda') = {} /\ Aimed(agenda') = {}
    <2> DEFINE ts == <<Task("compound")>>
    <2>1. Plain(ts) /\ ts \in Seq(Tasks(Block))
      BY TaskDos DEF Plain, Tasks, Task
    <2> HIDE DEF ts
    <2>2. PhiEnds(ts) = {} /\ Aimed(ts) = {}
      BY <2>1, PlainCalls
    <2> QED
      BY <1>1, <2>2 DEF ts
  <1>8. Targets' \subseteq Targets \union {Null}
    BY <1>1, <1>7 DEF Targets, points, NoLabels
  <1>9. PhiBlocks \subseteq Block
    BY PhiBlocksTyped
  <1> QED
    BY <1>2, <1>3, <1>4, <1>5, <1>6, <1>7, <1>8, <1>9, FrameKeepsPhis

(* The return that ends a function's last block adds no edge ... *)
LEMMA FinishKeepsSuccessors ==
  ASSUME TypeInv, FinishFunction
  PROVE  /\ Block' = Block
         /\ \A b \in Block : /\ blocks'[b].incoming = blocks[b].incoming
                             /\ Successors(b)' = Successors(b)
  <1>1. /\ insertBlock \in Block /\ Block' = Block
        /\ IF blocks[insertBlock].terminators = <<>>
             THEN Grown(0, insertBlock, <<>>, Null) ELSE blocks' = blocks
    BY FinishTyped
  <1>2. Null \notin Block /\ Block = 1 .. Len(blocks) + 0
    BY TypeOfBlocks DEF TypeInv
  <1>3. \A b \in Block : /\ blocks'[b].incoming = blocks[b].incoming
                         /\ Successors(b)' = Successors(b)
    <2>1. CASE blocks[insertBlock].terminators # <<>>
      BY <1>1, <2>1 DEF Successors
    <2>2. CASE blocks[insertBlock].terminators = <<>>
      <3>1. \A b \in Block :
              /\ blocks'[b].incoming = blocks[b].incoming
              /\ blocks'[b].terminators =
                   IF b = insertBlock THEN Append(blocks[b].terminators, <<>>)
                   ELSE blocks[b].terminators
        BY <1>1, <1>2, <2>2 DEF Grown, Terms, Inc, Null
      <3>2. Append(<<>>, <<>>) = << <<>> >> /\ <<>> \in Seq({})
        OBVIOUS
      <3>3. Reached(<<>>) = {} /\ Reached(<< <<>> >>) = {}
        <4> DEFINE none == <<>>
        <4>1. none \in Seq({}) /\ {none[k] : k \in DOMAIN none} = {}
          OBVIOUS
        <4> HIDE DEF none
        <4>2. Reached(<<none>>) = {}
          BY <4>1, ReachedOne
        <4>3. Reached(<<>>) = {}
          BY DEF Reached
        <4> QED
          BY <4>2, <4>3 DEF none
      <3>4. ASSUME NEW b \in Block
            PROVE  /\ Successors(b) = Reached(blocks[b].terminators)
                   /\ Successors(b)' = Reached(blocks'[b].terminators)
        BY DEF Successors, Reached
      <3>5. ASSUME NEW b \in Block PROVE Successors(b)' = Successors(b)
        <4>1. CASE b = insertBlock
          <5>1. blocks[b].terminators = <<>> /\ blocks'[b].terminators = << <<>> >>
            BY <2>2, <3>1, <3>2, <4>1
          <5> QED
            BY <3>3, <3>4, <5>1
        <4>2. CASE b # insertBlock
          <5>1. blocks'[b].terminators = blocks[b].terminators
            BY <3>1, <4>2
          <5> QED
            BY <3>4, <5>1
        <4> QED
          BY <4>1, <4>2
      <3> QED
        BY <3>1, <3>5
    <2> QED
      BY <2>1, <2>2
  <1> QED
    BY <1>1, <1>3

(* ... and no predecessor to a phi node. *)
LEMMA FinishKeepsPhis ==
  ASSUME TypeInv, PhiFit, FinishFunction
  PROVE  PhiFit'
  <1>1. UNCHANGED <<agenda, points, mapLabel>>
    BY DEF FinishFunction
  <1>2. Null \notin Block
    BY TypeOfBlocks DEF TypeInv
  <1>3. PhiEnds(agenda') = PhiEnds(agenda) /\ Targets' = Targets
    BY <1>1 DEF Targets, points
  <1>4. PhiBlocks \subseteq Block
    BY PhiBlocksTyped
  <1> QED
    BY <1>2, <1>3, <1>4, FinishKeepsSuccessors, FrameKeepsPhis

(* Declarations change no block. *)
LEMMA StillKeepsPhis ==
  ASSUME TypeInv, PhiFit, UNCHANGED <<blocks, agenda, points>>,
         mapLabel' \in {mapLabel, NoLabels}
  PROVE  PhiFit'
  <1>1. Null \notin Block /\ Block' = Block
    BY TypeOfBlocks DEF TypeInv, Block
  <1>2. \A b \in Block : Successors(b)' = Successors(b)
    BY DEF Successors
  <1>3. PhiEnds(agenda') = PhiEnds(agenda) /\ Targets' \subseteq Targets \union {Null}
    BY DEF Targets, points, NoLabels
  <1>4. PhiBlocks \subseteq Block
    BY PhiBlocksTyped
  <1> QED
    BY <1>1, <1>2, <1>3, <1>4, FrameKeepsPhis

PhiInv == FitInv /\ (SoundUnit => PhiFit)

(* The invariant holds before anything is emitted ... *)
LEMMA PhiInit == Init => PhiInv
  <1> SUFFICES ASSUME Init PROVE PhiFit
    BY FitInit DEF PhiInv
  <1>1. blocks = <<>> /\ agenda = <<>>
    BY DEF Init
  <1>2. PhiEnds(agenda) = {} /\ Block = {}
    BY <1>1, NoCalls DEF Block
  <1>3. PhiBlocks = {}
    BY <1>2 DEF PhiBlocks
  <1> QED
    BY <1>3 DEF PhiFit

(* ... every step keeps it ... *)
LEMMA PhiStep == PhiInv /\ [Next]_vars => PhiInv'
  <1> SUFFICES ASSUME PhiInv, [Next]_vars, SoundUnit' PROVE PhiFit'
    BY FitStep DEF PhiInv
  <1>1. SoundUnit
    BY ExtentKept DEF SoundUnit
  <1>2. TypeInv /\ BlocksFit /\ PhiFit
    BY <1>1 DEF PhiInv, FitInv, Fit
  <1>3. CASE UNCHANGED vars
    <2>1. UNCHANGED <<blocks, agenda, points, mapLabel>>
      BY <1>3 DEF vars, ir
    <2> QED
      BY <1>2, <2>1, StillKeepsPhis
  <1>4. ASSUME NEW f \in FunctionNames, DeclareFunction(f) \/ InnerDeclaration(f)
        PROVE  PhiFit'
    <2>1. UNCHANGED <<blocks, agenda, points>> /\ mapLabel' = NoLabels
      BY <1>4 DEF DeclareFunction, InnerDeclaration, StartPrototype
    <2> QED
      BY <1>2, <2>1, StillKeepsPhis
  <1>5. ASSUME NEW f \in FunctionNames, DefineFunction(f)
        PROVE  PhiFit'
    BY <1>2, <1>5, DefineKeepsPhis
  <1>6. CASE FinishFunction
    BY <1>2, <1>6, FinishKeepsPhis
  <1>7. ASSUME NEW l \in extent.labels, LabeledStatement(l) \/ GotoStatement(l)
        PROVE  PhiFit'
    <2>1. l \in Labels
      BY <1>2, TypeParts, CodeGeneratorAssumption DEF TypeInv, UnitTyped
    <2> QED
      BY <1>2, <1>7, <2>1, LabelSteers, BodyKeepsPhis
  <1>8. CASE Ordinary
    BY <1>2, <1>8, OrdinarySteers, BodyKeepsPhis
  <1>9. Statement => Ordinary \/ \E l \in extent.labels : LabeledStatement(l) \/ GotoStatement(l)
    BY DEF Statement, Ordinary
  <1>10. Expression => Ordinary
    BY DEF Ordinary
  <1> QED
    BY <1>3, <1>4, <1>5, <1>6, <1>7, <1>8, <1>9, <1>10 DEF Next

(* ... so it always holds. *)
LEMMA PhiAlways == Spec => []PhiInv
  BY PhiInit, PhiStep, PTL DEF Spec

(* An enumeration without repetitions is as long as its set is large. *)
LEMMA ListLength ==
  ASSUME NEW S, NEW s \in Seq(S), \A j, k \in DOMAIN s : s[j] = s[k] => j = k
  PROVE  Len(s) = Cardinality({s[k] : k \in DOMAIN s})
  <1> DEFINE T == {s[k] : k \in DOMAIN s}
             n == Len(s)
  <1>1. n \in Nat /\ DOMAIN s = 1 .. n
    OBVIOUS
  <1>2. s \in [1 .. n -> T]
    BY <1>1
  <1> HIDE DEF n
  <1>3. s \in Bijection(1 .. n, T)
    BY <1>1, <1>2 DEF Bijection, Injection, Surjection, IsInjective
  <1> HIDE DEF T
  <1>4. ExistsBijection(1 .. n, T)
    BY <1>3 DEF ExistsBijection
  <1>5. Cardinality(T) = n
    BY <1>1, <1>4, FS_CountingElements
  <1> QED
    BY <1>5 DEF n, T

(* The phi node of each ternary of a finished function lists exactly the   *)
(* predecessors of its block, each once, in every such unit (cogen.cc:729, *)
(* :734). *)
THEOREM PhisMatchPredecessors == Spec => [](SoundUnit => PhiMatchesPredecessors)
  <1>1. PhiInv => (SoundUnit => PhiMatchesPredecessors)
    <2> SUFFICES ASSUME PhiInv, SoundUnit,
                        NEW b \in Block, blocks[b].incoming # <<>>
                 PROVE  /\ {blocks[b].incoming[k] : k \in DOMAIN blocks[b].incoming} = Predecessors(b)
                        /\ Len(blocks[b].incoming) = Cardinality(Predecessors(b))
      BY DEF PhiMatchesPredecessors
    <2>1. b \in PhiBlocks /\ PhiFit /\ TypeInv
      BY DEF PhiBlocks, PhiInv, FitInv
    <2> DEFINE s == blocks[b].incoming
    <2>2. s \in Seq(Block)
      <3>1. blocks \in Seq(BlocksOver(Block))
        BY <2>1, TypeParts DEF TypeInv
      <3>2. blocks[b] \in BlocksOver(Block)
        BY <3>1 DEF Block
      <3> QED
        BY <3>2 DEF BlocksOver
    <2>3. /\ {s[k] : k \in DOMAIN s} = Predecessors(b)
          /\ \A j, k \in DOMAIN s : s[j] = s[k] => j = k
      BY <2>1 DEF PhiFit, Listed
    <2> HIDE DEF s
    <2>4. Len(s) = Cardinality({s[k] : k \in DOMAIN s})
      BY <2>2, <2>3, ListLength
    <2> QED
      BY <2>3, <2>4 DEF s
  <1> QED
    BY <1>1, PhiAlways, PTL

-----------------------------------------------------------------------------
(* Cycles of conditional branches.                                         *)
(*                                                                         *)
(* A branch that a call of the agenda will make leads to a block that a    *)
(* later call opens, which is still empty when the branch is made, or back *)
(* to the body of a do loop.  In the second case the blocks below a number *)
(* n are closed under conditional branches, the target is one of them, and *)
(* the block that ends in the branch is not.                               *)
Conditional == {b \in Block : \E k \in DOMAIN blocks[b].terminators :
                                Len(blocks[b].terminators[k]) = 2}
NoCycle == \A S \in (SUBSET Conditional) \ {{}} : \E b \in S : Successors(b) \cap S = {}

Later(a, k, x) == \E j \in DOMAIN a : j > k /\ x \in Opens(a[j])
Quietly(t)     == t.do \in {"rvalue", "condition", "conditionalBranch", "insertAt",
                            "connectPhi"}
Ahead(a, k, n) == \A j \in DOMAIN a : j < k =>
                    Quietly(a[j]) /\ \A b \in Opens(a[j]) : n <= b
Separated(n)   == \A b \in Conditional : b < n => \A s \in Successors(b) : s < n
Behind(k, x)   == \E n \in 1 .. insertBlock :
                    x < n /\ Ahead(agenda, k, n) /\ Separated(n)

CondFit == \A k \in DOMAIN agenda : Branching(agenda[k]) =>
             \A x \in Aims(agenda[k]) : Later(agenda, k, x) \/ Behind(k, x)

(* What the calls put on the agenda branch to: blocks that they open, what *)
(* the call they replace would have branched to, or the body of a loop.    *)
Guides(n, x, succs, ts) ==
  /\ succs \in Seq(Range(succs))
  /\ Len(succs) = 2 => /\ Head(agenda).do = "conditionalBranch"
                       /\ succs = <<Yes, No>> /\ x = insertBlock
  /\ Quietly(Head(agenda)) =>
       /\ x \in {Null, insertBlock}
       /\ insertBlock' \in {insertBlock} \union Opens(Head(agenda))
       /\ \A k \in DOMAIN ts : Quietly(ts[k]) /\ Opens(ts[k]) \subseteq Made(n)
  /\ \A k \in DOMAIN ts : Branching(ts[k]) =>
       \A y \in Aims(ts[k]) :
         \/ Later(ts, k, y)
         \/ Branching(Head(agenda)) /\ y \in Aims(Head(agenda))
         \/ k = 1 /\ y \in Block /\ insertBlock' = Fresh(1)

(* A step adds at most the block it ends to those that end in a conditional *)
(* branch.                                                                  *)
LEMMA ConditionalStep ==
  ASSUME TypeInv, NEW n, NEW x, NEW succs, NEW phi, NEW ts,
         Emission(n, x, succs, phi, ts), succs \in Seq(Range(succs)),
         x = Null \/ x \in Open
  PROVE  /\ Conditional' = Conditional \union
              (IF x \in Open /\ Len(succs) = 2 THEN {x} ELSE {})
         /\ x \notin Conditional
         /\ \A b \in Conditional : Successors(b)' = Successors(b)
         /\ x \in Open => Successors(x)' = Range(succs)
         /\ Conditional \subseteq Block /\ Block \subseteq Block'
  <1>1. /\ Len(blocks) \in Nat /\ Block = 1 .. Len(blocks) /\ n \in Nat
        /\ Block' = 1 .. Len(blocks) + n /\ Null \notin Block
    BY TypeOfBlocks, EmissionTypes DEF TypeInv, Emission
  <1>2. \A b \in Block' : blocks'[b].terminators =
          IF b = x THEN Append(Terms(b), succs) ELSE Terms(b)
    BY <1>1 DEF Emission, Grown
  <1>3. x \in Open => Terms(x) = <<>> /\ x \in Block
    BY DEF Open, Terms
  <1>4. x \in Block' => x \in Open
    BY <1>1 DEF Null
  <1>5. Append(<<>>, succs) = <<succs>>
    OBVIOUS
  <1>6. Conditional' = {b \in Block' : \E k \in DOMAIN blocks'[b].terminators :
                                         Len(blocks'[b].terminators[k]) = 2}
    BY DEF Conditional
  <1>7. \A b \in Block' : b # x =>
          (b \in Conditional' <=> b \in Conditional)
    <2>1. \A b \in Block' : b # x /\ b \notin Block => blocks'[b].terminators = <<>>
      BY <1>2 DEF Terms
    <2>2. \A b \in Block' : b # x /\ b \in Block =>
            blocks'[b].terminators = blocks[b].terminators
      BY <1>2 DEF Terms
    <2> QED
      BY <1>6, <2>1, <2>2 DEF Conditional
  <1>8. x \in Open => (x \in Conditional' <=> Len(succs) = 2)
    <2>1. x \in Open => blocks'[x].terminators = <<succs>> /\ x \in Block'
      <3>1. x \in Open => x \in Block' /\ Terms(x) = <<>>
        BY <1>1, <1>3
      <3>2. x \in Block' => blocks'[x].terminators = Append(Terms(x), succs)
        BY <1>2
      <3> QED
        BY <1>5, <3>1, <3>2
    <2>2. /\ DOMAIN <<succs>> = 1 .. 1 /\ <<succs>>[1] = succs
          /\ 1 .. 1 = {1}
      OBVIOUS
    <2> QED
      BY <1>6, <2>1, <2>2
  <1>9. x \notin Conditional /\ Conditional \subseteq Block /\ Block \subseteq Block'
    BY <1>1 DEF Conditional, Open
  <1>10. \A a \in Block' : Successors(a)' =
              IF a = x THEN {succs[k] : k \in DOMAIN succs}
              ELSE IF a \in Block THEN Successors(a) ELSE {}
    BY SuccessorsStep
  <1>11. Conditional' \subseteq Block'
    BY <1>6
  <1>12. \A b \in Conditional : Successors(b)' = Successors(b)
    BY <1>9, <1>10
  <1>13. x \in Open => Successors(x)' = Range(succs)
    BY <1>1, <1>3, <1>10 DEF Range
  <1>14. Conditional' = Conditional \union
              (IF x \in Open /\ Len(succs) = 2 THEN {x} ELSE {})
    BY <1>1, <1>3, <1>4, <1>7, <1>8, <1>9, <1>11
  <1> QED
    BY <1>9, <1>12, <1>13, <1>14

(* No cycle of conditional branches is closed: the block that ends is below *)
(* no number under which its target's blocks are closed.                    *)
LEMMA CycleStep ==
  ASSUME TypeInv, BlocksFit, CondFit, NoCycle, NEW n, NEW x, NEW succs, NEW phi, NEW ts,
         Emission(n, x, succs, phi, ts), x \in Ended, Guides(n, x, succs, ts)
  PROVE  NoCycle'
  <1>1. agenda # <<>> /\ (x = Null \/ x \in Open)
    BY EndedOpen DEF Emission
  <1>2. /\ Conditional' = Conditional \union
              (IF x \in Open /\ Len(succs) = 2 THEN {x} ELSE {})
        /\ x \notin Conditional
        /\ \A b \in Conditional : Successors(b)' = Successors(b)
        /\ x \in Open => Successors(x)' = Range(succs)
        /\ Conditional \subseteq Block
    BY <1>1, ConditionalStep DEF Guides
  <1>3. SUFFICES ASSUME NEW S \in (SUBSET (Conditional')) \ {{}},
                        \A b \in S : Successors(b)' \cap S # {}
                 PROVE  FALSE
    BY DEF NoCycle
  <1>4. CASE S \subseteq Conditional
    BY <1>2, <1>3, <1>4 DEF NoCycle
  <1>5. CASE ~(S \subseteq Conditional)
    <2>1. x \in Open /\ Len(succs) = 2 /\ x \in S /\ S \subseteq Conditional \union {x}
      BY <1>2, <1>5
    <2>2. /\ Head(agenda).do = "conditionalBranch"
          /\ succs = <<Yes, No>> /\ x = insertBlock
      BY <2>1 DEF Guides
    <2>3. Range(succs) = {Yes, No}
      BY <2>2, RangeOf
    <2>4. PICK y \in {Yes, No} : y \in S
      BY <1>2, <1>3, <2>1, <2>3
    <2>5. /\ 1 \in DOMAIN agenda /\ agenda[1] = Head(agenda)
          /\ Branching(Head(agenda)) /\ y \in Aims(Head(agenda))
      <3>1. agenda \in Seq(Tasks(Block))
        BY TypeParts DEF TypeInv
      <3>2. 1 \in DOMAIN agenda /\ agenda[1] = Head(agenda)
        BY <1>1, <3>1
      <3> QED
        BY <2>2, <3>2 DEF Branching, Aims, Yes, No
    <2>6. CASE Later(agenda, 1, y)
      <3>1. y \in Opened(agenda)
        BY <2>6, OpenedMember DEF Later
      <3>2. y \in Open /\ y \notin Current
        BY <3>1 DEF BlocksFit
      <3>3. insertBlock \in Current
        BY <1>1, <2>2, HeadFacts DEF Opener
      <3>4. y \in Conditional
        BY <2>1, <2>2, <2>4, <3>2, <3>3
      <3>5. blocks[y].terminators = <<>>
        BY <3>2 DEF Open
      <3> QED
        BY <3>4, <3>5 DEF Conditional
    <2>7. CASE Behind(1, y)
      <3>1. PICK m \in 1 .. insertBlock : y < m /\ Separated(m)
        BY <2>7 DEF Behind
      <3>2. insertBlock \in Nat /\ \A b \in Conditional : b \in Nat
        BY <1>1, <1>2, InBody
      <3> DEFINE T == {b \in S : b < m}
      <3>3. T \subseteq Conditional /\ y \in T
        BY <2>1, <2>2, <2>4, <3>1, <3>2
      <3>4. ASSUME NEW b \in T PROVE Successors(b) \cap T # {}
        <4>1. b \in Conditional /\ b \in S /\ b < m
          BY <3>3
        <4>2. PICK s \in Successors(b) : s \in S
          BY <1>2, <1>3, <4>1
        <4>3. s < m
          BY <3>1, <4>1, <4>2 DEF Separated
        <4> QED
          BY <4>2, <4>3
      <3> HIDE DEF T
      <3> QED
        BY <3>3, <3>4 DEF NoCycle
    <2> QED
      BY <2>5, <2>6, <2>7 DEF CondFit
  <1> QED
    BY <1>4, <1>5

(* The branches still to be made keep to this, too. *)
LEMMA CondStep ==
  ASSUME TypeInv, BlocksFit, CondFit, NEW n, NEW x, NEW succs, NEW phi, NEW ts,
         Emission(n, x, succs, phi, ts), x \in Ended, Guides(n, x, succs, ts)
  PROVE  CondFit'
  <1>1. /\ agenda # <<>> /\ (x = Null \/ x \in Open) /\ agenda' = Replace(agenda, ts)
        /\ agenda \in Seq(Tasks(1 .. Len(blocks) + n))
        /\ ts \in Seq(Tasks(1 .. Len(blocks) + n))
    <2>1. TypeOK
      BY DEF TypeInv
    <2>2. agenda \in Seq(Tasks(1 .. Len(blocks) + n))
      BY <2>1, EmissionTypes
    <2>3. agenda # <<>>
      BY DEF Emission
    <2>4. x = Null \/ x \in Open
      BY <2>3, EndedOpen
    <2> QED
      BY <2>2, <2>3, <2>4 DEF Emission
  <1>2. /\ Conditional' = Conditional \union
              (IF x \in Open /\ Len(succs) = 2 THEN {x} ELSE {})
        /\ \A b \in Conditional : Successors(b)' = Successors(b)
        /\ Conditional \subseteq Block
    BY <1>1, ConditionalStep DEF Guides
  <1>3. insertBlock \in Nat /\ insertBlock \in Block /\ Block = 1 .. Len(blocks)
        /\ Len(blocks) \in Nat
    BY <1>1, InBody
  <1> DEFINE p == Len(ts)  m == Len(agenda)
  <1>4. /\ m \in Nat \ {0} /\ p \in Nat
        /\ DOMAIN agenda' = 1 .. p + m - 1
        /\ DOMAIN agenda = 1 .. m /\ DOMAIN ts = 1 .. p
        /\ Head(agenda) = agenda[1]
    BY <1>1, ReplaceIndex
  <1>5. \A k \in 1 .. p : agenda'[k] = ts[k]
    <2>1. \A k \in 1 .. Len(ts) : Replace(agenda, ts)[k] = ts[k]
      BY <1>1, ReplaceFirst
    <2> QED
      BY <1>1, <2>1
  <1>6. \A k \in 2 .. m : agenda'[k + p - 1] = agenda[k]
    <2>1. \A k \in 2 .. Len(agenda) : Replace(agenda, ts)[k + Len(ts) - 1] = agenda[k]
      BY <1>1, ReplaceRest
    <2> QED
      BY <1>1, <2>1
  <1> HIDE DEF p, m
  (* The blocks below the current one stay separated. *)
  <1>7. ASSUME NEW i \in 1 .. insertBlock, Separated(i), Quietly(Head(agenda))
        PROVE  Separated(i)'
    <2>1. x \in {Null, insertBlock}
      BY <1>7 DEF Guides
    <2>2. \A b \in Conditional' : b < i => b \in Conditional
      BY <1>2, <1>3, <2>1, TypeOfBlocks DEF Null, Open, TypeInv
    <2> QED
      BY <1>2, <1>7, <2>2 DEF Separated
  (* What holds of a call that stays, or is replaced, holds in its new place. *)
  <1>8. ASSUME NEW k \in 1 .. m, NEW l \in DOMAIN agenda', NEW y,
               k = 1 => l <= p /\ Branching(Head(agenda)), k > 1 => l = k + p - 1,
               Later(agenda, k, y) \/ Behind(k, y)
        PROVE  Later(agenda', l, y) \/ Behind(l, y)'
    <2>1. CASE Later(agenda, k, y)
      <3>1. PICK j \in DOMAIN agenda : j > k /\ y \in Opens(agenda[j])
        BY <2>1 DEF Later
      <3>2. /\ j \in 2 .. m /\ j + p - 1 \in DOMAIN agenda' /\ j + p - 1 > l
        BY <1>4, <1>8, <3>1
      <3> QED
        BY <1>6, <3>1, <3>2 DEF Later
    <2>2. CASE Behind(k, y)
      <3>1. PICK i \in 1 .. insertBlock : y < i /\ Ahead(agenda, k, i) /\ Separated(i)
        BY <2>2 DEF Behind
      <3>2. /\ Quietly(Head(agenda))
            /\ \A b \in Opens(Head(agenda)) : i <= b
        <4>1. CASE k = 1
          BY <1>8, <4>1 DEF Branching, Quietly, Opens
        <4>2. CASE k > 1
          <5>1. 1 \in DOMAIN agenda /\ 1 < k
            BY <1>4, <4>2
          <5> QED
            BY <1>4, <3>1, <5>1 DEF Ahead
        <4> QED
          BY <4>1, <4>2
      <3>3. /\ insertBlock' \in {insertBlock} \union Opens(Head(agenda))
            /\ \A j \in DOMAIN ts : Quietly(ts[j]) /\ Opens(ts[j]) \subseteq Made(n)
        BY <3>2 DEF Guides
      <3>4. Separated(i)'
        BY <1>7, <3>1, <3>2
      <3>5. i \in 1 .. insertBlock'
        <4>1. Opens(Head(agenda)) \subseteq Block
          BY <1>1, InBody, TaskFields
        <4> QED
          BY <1>3, <3>1, <3>2, <3>3, <4>1
      <3>6. ASSUME NEW j \in DOMAIN agenda', j < l
            PROVE  Quietly(agenda'[j]) /\ \A b \in Opens(agenda'[j]) : i <= b
        <4>1. CASE j <= p
          <5>1. j \in DOMAIN ts /\ agenda'[j] = ts[j]
            BY <1>4, <1>5, <4>1
          <5>2. \A b \in Made(n) : i <= b
            BY <1>3, <3>1 DEF Made, Emission
          <5> QED
            BY <3>3, <5>1, <5>2
        <4>2. CASE j > p
          <5> DEFINE o == j - p + 1
          <5>1. o \in 2 .. m /\ o < k /\ agenda'[j] = agenda[o] /\ o \in DOMAIN agenda
            <6>1. o \in 2 .. m /\ o < k /\ o + p - 1 = j /\ o \in DOMAIN agenda
              BY <1>4, <1>8, <3>6, <4>2
            <6> QED
              BY <1>6, <6>1
          <5> QED
            BY <3>1, <5>1 DEF Ahead
        <4> QED
          BY <1>4, <4>1, <4>2
      <3>7. Ahead(agenda', l, i)
        BY <3>6 DEF Ahead
      <3>8. y < i
        BY <3>1
      <3> QED
        BY <3>4, <3>5, <3>7, <3>8 DEF Behind
    <2> QED
      BY <1>8, <2>1, <2>2
  (* The test of a do loop starts in a new block, to which nothing leads. *)
  <1>9. ASSUME insertBlock' = Fresh(1), NEW y \in Block
        PROVE  Behind(1, y)'
    <2>0. PICK i \in Nat : i = Len(blocks) + 1
      BY <1>3
    <2>1. i \in 1 .. insertBlock' /\ y < i
      BY <1>3, <1>9, <2>0 DEF Fresh
    <2>2. Ahead(agenda', 1, i)
      BY <1>4 DEF Ahead
    <2>3. ASSUME NEW b \in Conditional' PROVE Successors(b)' \subseteq Block \union {Null}
      <3>1. CASE b \in Conditional
        BY <1>2, <3>1, SuccessorsTyped
      <3>2. CASE x \in Open /\ Len(succs) = 2 /\ b = x
        <4>1. Head(agenda).do = "conditionalBranch" /\ succs = <<Yes, No>>
          BY <3>2 DEF Guides
        <4>2. Yes \in Block /\ No \in Block
          BY <1>1, <4>1, BranchTargets DEF Branching, Yes, No
        <4>3. Successors(b)' = Range(succs)
          BY <1>1, <3>2, ConditionalStep DEF Guides
        <4> QED
          BY <4>1, <4>2, <4>3, RangeOf
      <3> QED
        BY <1>2, <2>3, <3>1, <3>2
    <2>4. \A s \in Block \union {Null} : s < i
      BY <1>3, <2>0 DEF Null
    <2>5. Separated(i)'
      BY <2>3, <2>4 DEF Separated
    <2> QED
      BY <2>1, <2>2, <2>5 DEF Behind
  <1>10. ASSUME NEW l \in DOMAIN agenda', Branching(agenda'[l]), NEW y \in Aims(agenda'[l])
         PROVE  Later(agenda', l, y) \/ Behind(l, y)'
    <2>1. CASE l <= p
      <3>1. l \in DOMAIN ts /\ agenda'[l] = ts[l] /\ l \in 1 .. p
        BY <1>4, <1>5, <2>1
      <3>2. CASE Later(ts, l, y)
        <4>1. PICK j \in DOMAIN ts : j > l /\ y \in Opens(ts[j])
          BY <3>2 DEF Later
        <4>2. j \in DOMAIN agenda' /\ agenda'[j] = ts[j]
          BY <1>4, <1>5, <4>1
        <4> QED
          BY <4>1, <4>2 DEF Later
      <3>3. CASE Branching(Head(agenda)) /\ y \in Aims(Head(agenda))
        <4>1. 1 \in DOMAIN agenda /\ 1 \in 1 .. m /\ ~(1 > 1)
          BY <1>4
        <4>2. Later(agenda, 1, y) \/ Behind(1, y)
          BY <1>4, <3>3, <4>1 DEF CondFit
        <4> QED
          BY <1>8, <2>1, <3>3, <4>1, <4>2
      <3>4. CASE l = 1 /\ y \in Block /\ insertBlock' = Fresh(1)
        BY <1>9, <3>4
      <3> QED
        BY <1>10, <3>1, <3>2, <3>3, <3>4 DEF Guides
    <2>2. CASE l > p
      <3> DEFINE k == l - p + 1
      <3>1. k \in 2 .. m /\ k + p - 1 = l
        BY <1>4, <2>2
      <3>2. agenda'[l] = agenda[k]
        BY <1>6, <3>1
      <3>3. k \in DOMAIN agenda
        BY <1>4, <3>1
      <3>4. Later(agenda, k, y) \/ Behind(k, y)
        BY <1>10, <3>2, <3>3 DEF CondFit
      <3>5. k \in 1 .. m /\ k > 1 /\ k # 1
        BY <1>4, <3>1
      <3> HIDE DEF k
      <3> QED
        BY <1>8, <3>1, <3>4, <3>5
    <2> QED
      BY <1>4, <2>1, <2>2
  <1> QED
    BY <1>10 DEF CondFit

-----------------------------------------------------------------------------
(* Where the calls of each action branch to.                               *)
Onward(ts, others) == \A k \in DOMAIN ts : Branching(ts[k]) =>
                        \A y \in Aims(ts[k]) : Later(ts, k, y) \/ y \in others
Silent(ts, made) == \A k \in DOMAIN ts : Quietly(ts[k]) /\ Opens(ts[k]) \subseteq made

(* A while loop branches onward; only the condition of a do loop branches *)
(* back.                                                                  *)
LEMMA LoopCallsOnward ==
  ASSUME NEW h, NEW c, NEW e
  PROVE  /\ Onward(WhileCalls(h, c, e), {})
         /\ Onward(DoCalls(c), {})
         /\ \A k \in DOMAIN EndDoCalls(c, e) : Branching(EndDoCalls(c, e)[k]) => k = 1
         /\ Onward(EndDoCalls(c, e), {c})
  <1>1. Onward(WhileCalls(h, c, e), {})
    <2> DEFINE ts == WhileCalls(h, c, e)
    <2>1. /\ DOMAIN ts = 1 .. 4 /\ ts[1] = Condition(c, e) /\ ts[2] = InsertAt(c)
          /\ ts[3] = Task("statement") /\ ts[4] = EndWhile(h, e)
      BY DEF WhileCalls
    <2> HIDE DEF ts
    <2>2. Later(ts, 1, c) /\ Later(ts, 1, e) /\ Aims(ts[1]) = {c, e}
      BY <2>1 DEF Later, Opens, Aims, Branching, Condition, InsertAt, EndWhile
    <2>3. \A k \in 2 .. 4 : ~Branching(ts[k])
      BY <2>1 DEF Branching, InsertAt, Task, EndWhile
    <2> QED
      BY <2>1, <2>2, <2>3 DEF Onward, ts
  <1>2. Onward(DoCalls(c), {})
    BY DEF Onward, DoCalls, Branching, Task, DoTest
  <1>3. /\ \A k \in DOMAIN EndDoCalls(c, e) : Branching(EndDoCalls(c, e)[k]) => k = 1
        /\ Onward(EndDoCalls(c, e), {c})
    <2> DEFINE ts == EndDoCalls(c, e)
    <2>1. DOMAIN ts = 1 .. 2 /\ ts[1] = Condition(c, e) /\ ts[2] = InsertAt(e)
      BY DEF EndDoCalls
    <2> HIDE DEF ts
    <2>2. Later(ts, 1, e) /\ Aims(ts[1]) = {c, e}
      BY <2>1 DEF Later, Opens, Aims, Branching, Condition, InsertAt
    <2>3. ~Branching(ts[2])
      BY <2>1 DEF Branching, InsertAt
    <2> QED
      BY <2>1, <2>2, <2>3 DEF Onward, ts
  <1> QED
    BY <1>1, <1>2, <1>3

(* An if branches onward. *)
LEMMA IfCallsOnward ==
  ASSUME NEW c, NEW a, NEW e
  PROVE  Onward(IfCalls(c, a, e), {}) /\ Onward(IfElseCalls(c, a, e), {})
  <1>1. Onward(IfCalls(c, a, e), {})
    <2> DEFINE ts == IfCalls(c, a, e)
    <2>1. /\ DOMAIN ts = 1 .. 6 /\ ts[1] = Condition(c, a) /\ ts[2] = InsertAt(c)
          /\ ts[3] = Task("statement") /\ ts[4] = Connect(e)
          /\ ts[5] = ConnectFrom(a, e) /\ ts[6] = InsertAt(e)
      BY DEF IfCalls
    <2> HIDE DEF ts
    <2>2. Later(ts, 1, c) /\ Later(ts, 1, a) /\ Aims(ts[1]) = {c, a}
      BY <2>1 DEF Later, Opens, Aims, Branching, Condition, InsertAt, ConnectFrom
    <2>3. \A k \in 2 .. 6 : ~Branching(ts[k])
      BY <2>1 DEF Branching, InsertAt, Task, Connect, ConnectFrom
    <2> QED
      BY <2>1, <2>2, <2>3 DEF Onward, ts
  <1>2. Onward(IfElseCalls(c, a, e), {})
    <2> DEFINE ts == IfElseCalls(c, a, e)
    <2>1. /\ DOMAIN ts = 1 .. 8 /\ ts[1] = Condition(c, a) /\ ts[2] = InsertAt(c)
          /\ ts[3] = Task("statement") /\ ts[4] = Connect(e)
          /\ ts[5] = InsertAt(a) /\ ts[6] = Task("statement")
          /\ ts[7] = Connect(e) /\ ts[8] = InsertAt(e)
      BY DEF IfElseCalls
    <2> HIDE DEF ts
    <2>2. Later(ts, 1, c) /\ Later(ts, 1, a) /\ Aims(ts[1]) = {c, a}
      BY <2>1 DEF Later, Opens, Aims, Branching, Condition, InsertAt
    <2>3. \A k \in 2 .. 8 : ~Branching(ts[k])
      BY <2>1 DEF Branching, InsertAt, Task, Connect
    <2> QED
      BY <2>1, <2>2, <2>3 DEF Onward, ts
  <1> QED
    BY <1>1, <1>2

(* The operators of a condition branch to the blocks they make or to where *)
(* the whole condition does.                                               *)
LEMMA ConditionCallsOnward ==
  ASSUME NEW x, NEW z, NEW t, NEW f
  PROVE  /\ Onward(LeafCalls(t, f), {t, f}) /\ Silent(LeafCalls(t, f), {})
         /\ Onward(NotCalls(t, f), {t, f}) /\ Silent(NotCalls(t, f), {})
         /\ Onward(AndCalls(x, t, f), {t, f}) /\ Silent(AndCalls(x, t, f), {x})
         /\ Onward(OrCalls(x, t, f), {t, f}) /\ Silent(OrCalls(x, t, f), {x})
         /\ Onward(TernaryCalls(x, z, t, f), {t, f})
         /\ Silent(TernaryCalls(x, z, t, f), {x, z})
  <1>1. Onward(LeafCalls(t, f), {t, f}) /\ Silent(LeafCalls(t, f), {})
    BY DEF Onward, Silent, LeafCalls, Branching, Aims, Opens, Quietly, Task, Branch
  <1>2. Onward(NotCalls(t, f), {t, f}) /\ Silent(NotCalls(t, f), {})
    BY DEF Onward, Silent, NotCalls, Branching, Aims, Opens, Quietly, Condition
  <1>3. Onward(AndCalls(x, t, f), {t, f}) /\ Silent(AndCalls(x, t, f), {x})
    <2> DEFINE ts == AndCalls(x, t, f)
    <2>1. /\ DOMAIN ts = 1 .. 3 /\ ts[1] = Condition(x, f) /\ ts[2] = InsertAt(x)
          /\ ts[3] = Condition(t, f)
      BY DEF AndCalls
    <2> HIDE DEF ts
    <2>2. Later(ts, 1, x) /\ Aims(ts[1]) = {x, f} /\ Aims(ts[3]) = {t, f}
      BY <2>1 DEF Later, Opens, Aims, Branching, Condition, InsertAt
    <2>3. ~Branching(ts[2])
      BY <2>1 DEF Branching, InsertAt
    <2>4. Silent(ts, {x})
      BY <2>1 DEF Silent, Quietly, Opens, Condition, InsertAt
    <2> QED
      BY <2>1, <2>2, <2>3, <2>4 DEF Onward, ts
  <1>4. Onward(OrCalls(x, t, f), {t, f}) /\ Silent(OrCalls(x, t, f), {x})
    <2> DEFINE ts == OrCalls(x, t, f)
    <2>1. /\ DOMAIN ts = 1 .. 3 /\ ts[1] = Condition(t, x) /\ ts[2] = InsertAt(x)
          /\ ts[3] = Condition(t, f)
      BY DEF OrCalls
    <2> HIDE DEF ts
    <2>2. Later(ts, 1, x) /\ Aims(ts[1]) = {t, x} /\ Aims(ts[3]) = {t, f}
      BY <2>1 DEF Later, Opens, Aims, Branching, Condition, InsertAt
    <2>3. ~Branching(ts[2])
      BY <2>1 DEF Branching, InsertAt
    <2>4. Silent(ts, {x})
      BY <2>1 DEF Silent, Quietly, Opens, Condition, InsertAt
    <2> QED
      BY <2>1, <2>2, <2>3, <2>4 DEF Onward, ts
  <1>5. /\ Onward(TernaryCalls(x, z, t, f), {t, f})
        /\ Silent(TernaryCalls(x, z, t, f), {x, z})
    <2> DEFINE ts == TernaryCalls(x, z, t, f)
    <2>1. /\ DOMAIN ts = 1 .. 5 /\ ts[1] = Condition(x, z) /\ ts[2] = InsertAt(x)
          /\ ts[3] = Condition(t, f) /\ ts[4] = InsertAt(z) /\ ts[5] = Condition(t, f)
      BY DEF TernaryCalls
    <2> HIDE DEF ts
    <2>2. /\ Later(ts, 1, x) /\ Later(ts, 1, z) /\ Aims(ts[1]) = {x, z}
          /\ Aims(ts[3]) = {t, f} /\ Aims(ts[5]) = {t, f}
      BY <2>1 DEF Later, Opens, Aims, Branching, Condition, InsertAt
    <2>3. ~Branching(ts[2]) /\ ~Branching(ts[4])
      BY <2>1 DEF Branching, InsertAt
    <2>4. Silent(ts, {x, z})
      BY <2>1 DEF Silent, Quietly, Opens, Condition, InsertAt
    <2> QED
      BY <2>1, <2>2, <2>3, <2>4 DEF Onward, ts
  <1> QED
    BY <1>1, <1>2, <1>3, <1>4, <1>5

(* A ternary's value branches onward. *)
LEMMA ValueCallsOnward ==
  ASSUME NEW c, NEW a, NEW e
  PROVE  Onward(ValueCalls(c, a, e), {}) /\ Silent(ValueCalls(c, a, e), {c, a, e})
  <1> DEFINE ts == ValueCalls(c, a, e)
  <1>1. /\ DOMAIN ts = 1 .. 8 /\ ts[1] = Condition(c, a) /\ ts[2] = InsertAt(c)
        /\ ts[3] = Task("rvalue") /\ ts[4] = ConnectPhi(e)
        /\ ts[5] = InsertAt(a) /\ ts[6] = Task("rvalue")
        /\ ts[7] = ConnectPhi(e) /\ ts[8] = InsertAt(e)
    BY DEF ValueCalls
  <1> HIDE DEF ts
  <1>2. Later(ts, 1, c) /\ Later(ts, 1, a) /\ Aims(ts[1]) = {c, a}
    BY <1>1 DEF Later, Opens, Aims, Branching, Condition, InsertAt
  <1>3. \A k \in 2 .. 8 : ~Branching(ts[k])
    BY <1>1 DEF Branching, InsertAt, Task, ConnectPhi
  <1>4. \A k \in 1 .. 8 : Quietly(ts[k])
    BY <1>1 DEF Quietly, Condition, InsertAt, Task, ConnectPhi
  <1>5. \A k \in 1 .. 8 : Opens(ts[k]) \subseteq {c, a, e}
    BY <1>1 DEF Opens, Condition, InsertAt, Task, ConnectPhi
  <1> QED
    BY <1>1, <1>2, <1>3, <1>4, <1>5 DEF Onward, Silent, ts

Guiding == \E n, x, succs, phi, ts : /\ Emission(n, x, succs, phi, ts)
                                     /\ x \in Ended /\ Guides(n, x, succs, ts)

(* A step that is no part of a condition ends its block with at most one *)
(* target and starts with calls that branch onward.                      *)
LEMMA LoudGuides ==
  ASSUME ~Quietly(Head(agenda)), NEW n, NEW x \in Ended, NEW succs, NEW phi, NEW ts,
         Emission(n, x, succs, phi, ts), succs \in Seq(Range(succs)), Len(succs) # 2,
         Onward(ts, {})
  PROVE  Guiding
  <1>1. Guides(n, x, succs, ts)
    BY DEF Guides, Onward
  <1> QED
    BY <1>1 DEF Guiding

(* A step of a condition hands its targets on to its operands. *)
LEMMA QuietGuides ==
  ASSUME NEW n, NEW x \in Ended, NEW succs, NEW phi, NEW ts,
         Emission(n, x, succs, phi, ts), succs \in Seq(Range(succs)),
         Len(succs) = 2 => /\ Head(agenda).do = "conditionalBranch"
                           /\ succs = <<Yes, No>> /\ x = insertBlock,
         x \in {Null, insertBlock},
         insertBlock' \in {insertBlock} \union Opens(Head(agenda)),
         Silent(ts, Made(n)),
         NEW others, others = {} \/ (Branching(Head(agenda)) /\ others = Aims(Head(agenda))),
         Onward(ts, others)
  PROVE  Guiding
  <1>1. Guides(n, x, succs, ts)
    BY DEF Guides, Onward, Silent
  <1> QED
    BY <1>1 DEF Guiding

(* A step of a value has no targets to hand on. *)
LEMMA SilentGuides ==
  ASSUME NEW n, NEW x \in Ended, NEW succs, NEW phi, NEW ts,
         Emission(n, x, succs, phi, ts), succs \in Seq(Range(succs)),
         Len(succs) = 2 => /\ Head(agenda).do = "conditionalBranch"
                           /\ succs = <<Yes, No>> /\ x = insertBlock,
         x \in {Null, insertBlock},
         insertBlock' \in {insertBlock} \union Opens(Head(agenda)),
         Silent(ts, Made(n)), Onward(ts, {})
  PROVE  Guiding
  <1>1. Guides(n, x, succs, ts)
    BY DEF Guides, Onward, Silent
  <1> QED
    BY <1>1 DEF Guiding

(* Lists of no and of one target are no conditional branch. *)
LEMMA ListLengths ==
  /\ Len(<<>>) # 2 /\ \A a : Len(<<a>>) # 2
  /\ Onward(<<>>, {}) /\ \A S : Silent(<<>>, S)
  <1>1. Len(<<>>) # 2 /\ \A a : Len(<<a>>) # 2
    OBVIOUS
  <1> QED
    BY <1>1 DEF Onward, Silent

(* Calls that name no block branch nowhere. *)
LEMMA PlainOnward ==
  ASSUME NEW S, NEW ts \in Seq(S), Plain(ts)
  PROVE  Onward(ts, {})
  BY PlainCalls DEF Onward

(* Each action is such a step: loops, if statements and jumps ... *)
LEMMA StatementGuides ==
  ASSUME TypeInv, BlocksFit,
         \/ WhileStatement \/ EndWhileStatement \/ DoStatement
         \/ \E hasElse \in BOOLEAN : SelectionStatement(hasElse)
         \/ MakeReturn \/ BreakStatement \/ ContinueStatement
  PROVE  Guiding
  <1>1. /\ agenda # <<>>
        /\ Head(agenda).do \in {"statement", "return", "endWhile"}
    BY DEF WhileStatement, EndWhileStatement, DoStatement, SelectionStatement,
           MakeReturn, BreakStatement, ContinueStatement, Jump, Calls
  <1>2. insertBlock \in Ended /\ ~Quietly(Head(agenda))
    BY <1>1, EndedOpen DEF Opener, Quietly
  <1>3. \A a : <<a>> \in Seq(Range(<<a>>)) /\ Len(<<a>>) # 2
    BY RangeOf, ListLengths
  <1>4. <<>> \in Seq(Range(<<>>)) /\ Len(<<>>) # 2 /\ Onward(<<>>, {})
    BY RangeOf, ListLengths
  <1>5. CASE MakeReturn \/ BreakStatement \/ ContinueStatement
    <2>1. PICK succs : /\ Emission(1, insertBlock, succs, Null, <<>>)
                       /\ \/ succs = <<>>
                          \/ succs \in {<<breakPoint>>, <<continuePoint>>}
      BY <1>5, JumpSteps
    <2>2. succs \in Seq(Range(succs)) /\ Len(succs) # 2
      BY <1>3, <1>4, <2>1
    <2> QED
      BY <1>2, <1>4, <2>1, <2>2, LoudGuides
  <1>6. CASE WhileStatement
    <2> DEFINE ts == WhileCalls(Fresh(1), Fresh(2), Fresh(3))
               succs == <<Fresh(1)>>
    <2>1. Emission(3, insertBlock, succs, Null, ts)
      BY <1>6, WhileStep
    <2>2. Onward(ts, {})
      BY LoopCallsOnward
    <2>3. succs \in Seq(Range(succs)) /\ Len(succs) # 2
      BY <1>3
    <2> HIDE DEF ts, succs
    <2> QED
      BY <1>2, <2>1, <2>2, <2>3, LoudGuides
  <1>7. CASE EndWhileStatement
    <2> DEFINE succs == <<Head(agenda).header>>
    <2>1. Emission(0, insertBlock, succs, Null, <<>>)
      BY <1>7, EndWhileStep
    <2>2. succs \in Seq(Range(succs)) /\ Len(succs) # 2
      BY <1>3
    <2> HIDE DEF succs
    <2> QED
      BY <1>2, <1>4, <2>1, <2>2, LoudGuides
  <1>8. CASE DoStatement
    <2> DEFINE ts == DoCalls(Fresh(1))
               succs == <<Fresh(1)>>
    <2>1. Emission(1, insertBlock, succs, Null, ts)
      BY <1>8, DoStep
    <2>2. Onward(ts, {})
      BY LoopCallsOnward
    <2>3. succs \in Seq(Range(succs)) /\ Len(succs) # 2
      BY <1>3
    <2> HIDE DEF ts, succs
    <2> QED
      BY <1>2, <2>1, <2>2, <2>3, LoudGuides
  <1>9. ASSUME NEW hasElse \in BOOLEAN, SelectionStatement(hasElse)
        PROVE  Guiding
    <2> DEFINE succs == <<Fresh(1)>>
    <2>1. PICK ts \in {IfCalls(Fresh(2), Fresh(3), Fresh(4)),
                       IfElseCalls(Fresh(2), Fresh(3), Fresh(4))} :
              Emission(4, insertBlock, succs, Null, ts)
      BY <1>9, SelectionStep
    <2>2. Onward(ts, {})
      BY <2>1, IfCallsOnward
    <2>3. succs \in Seq(Range(succs)) /\ Len(succs) # 2
      BY <1>3
    <2> HIDE DEF succs
    <2> QED
      BY <1>2, <2>1, <2>2, <2>3, LoudGuides
  <1> QED
    BY <1>5, <1>6, <1>7, <1>8, <1>9

(* The test of a do loop branches back to its body. *)
LEMMA EndDoGuides ==
  ASSUME TypeInv, BlocksFit, EndDoStatement
  PROVE  Guiding
  <1> DEFINE c == Head(agenda).content
             ts == EndDoCalls(c, Fresh(2))
             succs == <<Fresh(1)>>
  <1>1. /\ Emission(2, insertBlock, succs, Null, ts)
        /\ Head(agenda).do = "doTest" /\ c \in Block /\ insertBlock' = Fresh(1)
    BY EndDoStep DEF EndDoStatement
  <1>2. insertBlock \in Ended /\ ~Quietly(Head(agenda))
    BY <1>1, EndedOpen DEF Opener, Quietly, Emission
  <1>3. succs \in Seq(Range(succs)) /\ Len(succs) # 2
    BY RangeOf, ListLengths
  <1>4. /\ Onward(ts, {c})
        /\ \A k \in DOMAIN ts : Branching(ts[k]) => k = 1
    BY LoopCallsOnward
  <1> HIDE DEF ts, succs, c
  <1>5. Guides(2, insertBlock, succs, ts)
    BY <1>1, <1>2, <1>3, <1>4 DEF Guides, Onward
  <1> QED
    BY <1>1, <1>2, <1>5 DEF Guiding

(* ... labels and gotos ... *)
LEMMA LabelGuides ==
  ASSUME TypeInv, BlocksFit, NEW l \in Labels, LabeledStatement(l) \/ GotoStatement(l)
  PROVE  Guiding
  <1>1. PICK n, b, ts : Emission(n, insertBlock, <<b>>, Null, ts) /\ Plain(ts)
                        /\ Head(agenda).do = "statement"
    <2>1. CASE LabeledStatement(l)
      <3> DEFINE ts == <<Task("statement")>>
      <3>1. \E n \in {0, 1} : \E b \in 1 .. Len(blocks) + n :
              /\ Emission(n, insertBlock, <<b>>, Null, ts)
              /\ Head(agenda).do = "statement"
        BY <2>1, LabelStep
      <3>2. Plain(ts)
        BY TaskDos DEF Plain
      <3> HIDE DEF ts
      <3> QED
        BY <3>1, <3>2
    <2>2. CASE GotoStatement(l)
      <3>1. \E n \in {1, 2} : \E b \in 1 .. Len(blocks) + n :
              /\ Emission(n, insertBlock, <<b>>, Null, <<>>)
              /\ Head(agenda).do = "statement"
        BY <2>2, GotoStep
      <3>2. Plain(<<>>)
        BY DEF Plain
      <3> QED
        BY <3>1, <3>2
    <2> QED
      BY <2>1, <2>2
  <1>2. agenda # <<>> /\ ts \in Seq(Tasks(1 .. Len(blocks) + n))
    BY <1>1 DEF Emission
  <1>3. Onward(ts, {})
    BY <1>1, <1>2, PlainOnward
  <1>4. insertBlock \in Ended /\ ~Quietly(Head(agenda))
    BY <1>1, <1>2, EndedOpen DEF Opener, Quietly
  <1>5. <<b>> \in Seq(Range(<<b>>)) /\ Len(<<b>>) # 2
    BY RangeOf, ListLengths
  <1> QED
    BY <1>1, <1>3, <1>4, <1>5, LoudGuides

(* ... conditions ... *)
LEMMA ConditionGuides ==
  ASSUME TypeInv,
         \/ ConditionLeaf \/ ConditionAnd \/ ConditionOr \/ ConditionNot
         \/ ConditionTernary
  PROVE  Guiding
  <1>1. PICK p \in ConditionPlans : Emission(p[1], Null, <<>>, Null, p[2])
    BY ConditionSteps
  <1>2. /\ Head(agenda).do = "condition" /\ insertBlock' = insertBlock
        /\ agenda # <<>>
    BY <1>1, ConditionSteps DEF Emission
  <1>3. Branching(Head(agenda)) /\ Aims(Head(agenda)) = {Yes, No}
    BY <1>2 DEF Aims, Branching, Yes, No
  <1>4. /\ Made(0) = {} /\ Made(1) = {Fresh(1)} /\ Made(2) = {Fresh(1), Fresh(2)}
    BY <1>2, HeadFacts
  <1>5. /\ Null \in Ended /\ <<>> \in Seq(Range(<<>>)) /\ Len(<<>>) # 2
    BY RangeOf, ListLengths DEF Ended
  <1>6. ASSUME NEW n, NEW ts, Emission(n, Null, <<>>, Null, ts),
               Onward(ts, {Yes, No}), Silent(ts, Made(n))
        PROVE  Guiding
    BY <1>2, <1>3, <1>5, <1>6, QuietGuides
  <1>7. /\ Onward(LeafCalls(Yes, No), {Yes, No}) /\ Silent(LeafCalls(Yes, No), {})
        /\ Onward(NotCalls(Yes, No), {Yes, No}) /\ Silent(NotCalls(Yes, No), {})
    BY ConditionCallsOnward
  <1>8. /\ Onward(AndCalls(Fresh(1), Yes, No), {Yes, No})
        /\ Silent(AndCalls(Fresh(1), Yes, No), {Fresh(1)})
        /\ Onward(OrCalls(Fresh(1), Yes, No), {Yes, No})
        /\ Silent(OrCalls(Fresh(1), Yes, No), {Fresh(1)})
    BY ConditionCallsOnward
  <1>9. /\ Onward(TernaryCalls(Fresh(1), Fresh(2), Yes, No), {Yes, No})
        /\ Silent(TernaryCalls(Fresh(1), Fresh(2), Yes, No), {Fresh(1), Fresh(2)})
    BY ConditionCallsOnward
  <1>10. CASE p = <<0, LeafCalls(Yes, No)>>
    BY <1>1, <1>4, <1>6, <1>7, <1>10
  <1>11. CASE p = <<0, NotCalls(Yes, No)>>
    BY <1>1, <1>4, <1>6, <1>7, <1>11
  <1>12. CASE p = <<1, AndCalls(Fresh(1), Yes, No)>>
    BY <1>1, <1>4, <1>6, <1>8, <1>12
  <1>13. CASE p = <<1, OrCalls(Fresh(1), Yes, No)>>
    BY <1>1, <1>4, <1>6, <1>8, <1>13
  <1>14. CASE p = <<2, TernaryCalls(Fresh(1), Fresh(2), Yes, No)>>
    BY <1>1, <1>4, <1>6, <1>9, <1>14
  <1> QED
    BY <1>10, <1>11, <1>12, <1>13, <1>14 DEF ConditionPlans

(* ... ternary operators ... *)
LEMMA ValueGuides ==
  ASSUME TypeInv, RvalueTernary
  PROVE  Guiding
  <1> DEFINE ts == ValueCalls(Fresh(1), Fresh(2), Fresh(3))
  <1>1. Emission(3, Null, <<>>, Null, ts) /\ insertBlock' = insertBlock
    BY ValueStep DEF RvalueTernary
  <1>2. Made(3) = {Fresh(1), Fresh(2), Fresh(3)}
    BY <1>1, HeadFacts DEF Emission
  <1>3. Onward(ts, {}) /\ Silent(ts, Made(3))
    BY <1>2, ValueCallsOnward
  <1>4. /\ Null \in Ended /\ <<>> \in Seq(Range(<<>>)) /\ Len(<<>>) # 2
    BY RangeOf, ListLengths DEF Ended
  <1> HIDE DEF ts
  <1> QED
    BY <1>1, <1>3, <1>4, SilentGuides

(* ... branches and changes of the current block ... *)
LEMMA ClosingGuides ==
  ASSUME TypeInv, BlocksFit,
         \/ MakeConditionalBranch \/ SetCurrentBasicBlock \/ ConnectCurrent
         \/ ConnectBlocks \/ ConnectArm
  PROVE  Guiding
  <1>1. /\ agenda # <<>>
    BY DEF MakeConditionalBranch, SetCurrentBasicBlock, ConnectCurrent,
           ConnectBlocks, ConnectArm, Calls
  <1>2. /\ Onward(<<>>, {}) /\ \A S : Silent(<<>>, S)
        /\ Null \in Ended /\ <<>> \in Seq(Range(<<>>)) /\ Len(<<>>) # 2
    BY RangeOf, ListLengths DEF Ended
  <1>3. \A a : <<a>> \in Seq(Range(<<a>>)) /\ Len(<<a>>) # 2
    BY RangeOf, ListLengths
  <1>4. ~Opener(Head(agenda)) => insertBlock \in Ended
    BY <1>1, EndedOpen
  <1>5. CASE MakeConditionalBranch
    <2> DEFINE succs == <<Yes, No>>
    <2>1. /\ Emission(0, insertBlock, succs, Null, <<>>)
          /\ Head(agenda).do = "conditionalBranch"
      BY <1>5, BranchStep
    <2>2. insertBlock \in Ended /\ insertBlock' = insertBlock
      BY <1>4, <1>5, <2>1 DEF Opener, MakeConditionalBranch
    <2>3. succs \in Seq(Range(succs))
      BY RangeOf
    <2>4. succs = <<Yes, No>>
      OBVIOUS
    <2> HIDE DEF succs
    <2> QED
      BY <1>2, <2>1, <2>2, <2>3, <2>4, SilentGuides
  <1>6. CASE SetCurrentBasicBlock
    <2>1. /\ Emission(0, Null, <<>>, Null, <<>>)
          /\ Head(agenda).do = "insertAt" /\ insertBlock' = Head(agenda).block
      BY <1>6, InsertStep
    <2>2. Opens(Head(agenda)) = {Head(agenda).block}
      BY <2>1 DEF Opens
    <2> QED
      BY <1>2, <2>1, <2>2, SilentGuides
  <1>7. CASE ConnectCurrent
    <2> DEFINE succs == <<Head(agenda).to>>
    <2>1. Emission(0, insertBlock, succs, Null, <<>>) /\ Head(agenda).do = "connect"
      BY <1>7, ConnectStep
    <2>2. succs \in Seq(Range(succs)) /\ Len(succs) # 2
      BY <1>3
    <2>3. insertBlock \in Ended /\ ~Quietly(Head(agenda))
      BY <1>4, <2>1 DEF Opener, Quietly
    <2> HIDE DEF succs
    <2> QED
      BY <1>2, <2>1, <2>2, <2>3, LoudGuides
  <1>8. CASE ConnectBlocks
    <2> DEFINE succs == <<Head(agenda).to>>
               a == Head(agenda).from
    <2>1. Emission(0, a, succs, Null, <<>>) /\ Head(agenda).do = "connectFrom"
      BY <1>8, ConnectBlocksStep
    <2>2. succs \in Seq(Range(succs)) /\ Len(succs) # 2
      BY <1>3
    <2>3. a \in Ended /\ ~Quietly(Head(agenda))
      BY <2>1 DEF Ended, Opens, Quietly
    <2> HIDE DEF succs, a
    <2> QED
      BY <1>2, <2>1, <2>2, <2>3, LoudGuides
  <1>9. CASE ConnectArm
    <2> DEFINE succs == <<Head(agenda).to>>
               b == Head(agenda).to
    <2>1. Emission(0, insertBlock, succs, b, <<>>) /\ Head(agenda).do = "connectPhi"
      BY <1>9, ArmStep
    <2>2. succs \in Seq(Range(succs)) /\ Len(succs) # 2
      BY <1>3
    <2>3. insertBlock \in Ended /\ insertBlock' = insertBlock
      BY <1>4, <1>9, <2>1 DEF Opener, ConnectArm
    <2> HIDE DEF succs, b
    <2> QED
      BY <1>2, <2>1, <2>2, <2>3, SilentGuides
  <1> QED
    BY <1>5, <1>6, <1>7, <1>8, <1>9

(* ... and steps that only look at the syntax tree. *)
LEMMA PlainGuides ==
  ASSUME TypeInv,
         \/ CompoundStatement \/ NestedCompoundStatement \/ ExpressionStatement
         \/ ReturnStatement \/ RvalueLeaf \/ RvalueBinary
  PROVE  Guiding
  <1>1. PICK ts : Plain(ts) /\ Emission(0, Null, <<>>, Null, ts)
    BY QuietSteps
  <1>2. /\ insertBlock' = insertBlock
        /\ Null \in Ended /\ <<>> \in Seq(Range(<<>>)) /\ Len(<<>>) # 2
    BY QuietSteps, RangeOf, ListLengths DEF Ended, ir
  <1>3. Onward(ts, {})
    BY <1>1, PlainOnward DEF Emission
  <1>4. CASE ~Quietly(Head(agenda))
    BY <1>1, <1>2, <1>3, <1>4, LoudGuides
  <1>5. CASE Quietly(Head(agenda))
    <2>1. Head(agenda).do = "rvalue" /\ agenda # <<>>
      BY <1>1, <1>5, QuietSteps DEF Quietly, Emission
    <2>2. RvalueLeaf \/ RvalueBinary
      BY <2>1 DEF CompoundStatement, NestedCompoundStatement, ExpressionStatement,
                  ReturnStatement, Calls
    <2> DEFINE us == <<Task("rvalue"), Task("rvalue")>>
               B == 1 .. Len(blocks)
    <2>3. /\ us \in Seq(Tasks(B)) /\ <<>> \in Seq(Tasks(B)) /\ Plain(us) /\ Plain(<<>>)
      BY TaskDos DEF Plain, Tasks, Task
    <2>4. Silent(us, {}) /\ Silent(<<>>, {})
      BY TaskDos DEF Silent, Quietly, Opens
    <2>5. /\ agenda' = Replace(agenda, us) \/ agenda' = Replace(agenda, <<>>)
          /\ UNCHANGED <<currentFunction, blocks>>
      BY <2>2 DEF RvalueLeaf, RvalueBinary, Proceed, Replace, ir
    <2> HIDE DEF us, B
    <2>6. PICK vs \in {us, <<>>} : Emission(0, Null, <<>>, Null, vs)
      <3>1. ASSUME NEW vs \in Seq(Tasks(B)), agenda' = Replace(agenda, vs)
            PROVE  Emission(0, Null, <<>>, Null, vs)
        BY <2>1, <2>5, <3>1, EmissionQuiet DEF B
      <3> QED
        BY <2>3, <2>5, <3>1
    <2>7. Onward(vs, {}) /\ Silent(vs, Made(0))
      <3>1. Made(0) = {}
        BY <2>1, HeadFacts
      <3> QED
        BY <2>3, <2>4, <2>6, <3>1, PlainOnward
    <2> QED
      BY <1>2, <2>6, <2>7, SilentGuides
  <1> QED
    BY <1>4, <1>5

(* So all steps of a body are, other than labels and gotos ... *)
LEMMA OrdinaryGuides ==
  ASSUME TypeInv, BlocksFit, Ordinary
  PROVE  Guiding
  BY StatementGuides, EndDoGuides, ConditionGuides, ValueGuides, ClosingGuides,
     PlainGuides DEF Ordinary, Expression

(* ... and such steps close no cycle. *)
LEMMA BodyKeepsConds ==
  ASSUME TypeInv, BlocksFit, CondFit, NoCycle, Guiding
  PROVE  CondFit' /\ NoCycle'
  BY CondStep, CycleStep DEF Guiding

(* Declarations, and the beginning and the end of a function, leave no     *)
(* branch to be made.                                                      *)
LEMMA RestKeepsConds ==
  ASSUME NoCycle, Conditional' = Conditional,
         \A b \in Conditional : Successors(b)' = Successors(b),
         \A k \in DOMAIN agenda' : ~Branching(agenda'[k])
  PROVE  CondFit' /\ NoCycle'
  <1>1. CondFit'
    BY DEF CondFit, Branching
  <1>2. ASSUME NEW S \in (SUBSET (Conditional')) \ {{}}
        PROVE  \E b \in S : Successors(b)' \cap S = {}
    <2>1. PICK b \in S : Successors(b) \cap S = {}
      BY DEF NoCycle
    <2> QED
      BY <2>1
  <1> QED
    BY <1>1, <1>2 DEF NoCycle

(* A declaration changes no block. *)
LEMMA StillKeepsConds ==
  ASSUME CondFit, NoCycle, UNCHANGED <<blocks, agenda, insertBlock>>
  PROVE  CondFit' /\ NoCycle'
  <1>1. /\ Conditional' = Conditional /\ \A b : Successors(b)' = Successors(b)
        /\ \A n : Separated(n)' = Separated(n)
    BY DEF Conditional, Separated, Successors, Block
  <1>2. \A k, x : /\ Later(agenda', k, x) = Later(agenda, k, x)
                  /\ Ahead(agenda', k, x) = Ahead(agenda, k, x)
    OBVIOUS
  <1>3. \A k, x : Behind(k, x)' = Behind(k, x)
    BY <1>1, <1>2 DEF Behind
  <1> QED
    BY <1>1, <1>2, <1>3 DEF CondFit, NoCycle

(* A new block has no branch. *)
LEMMA DefineKeepsConds ==
  ASSUME TypeInv, NoCycle, NEW f \in FunctionNames, DefineFunction(f)
  PROVE  CondFit' /\ NoCycle'
  <1>1. agenda' = <<Task("compound")>>
    BY DEF DefineFunction
  <1>2. \A k \in DOMAIN agenda' : ~Branching(agenda'[k])
    BY <1>1 DEF Branching, Task
  <1>3. /\ Block' = 1 .. Len(blocks) + 1 /\ Block = 1 .. Len(blocks)
        /\ Len(blocks) \in Nat
    BY DefineTyped, TypeOfBlocks DEF TypeInv
  <1>4. /\ \A b \in Block : blocks'[b] = blocks[b]
        /\ blocks'[Fresh(1)].terminators = <<>>
    <2>1. blocks'[Fresh(1)] = [of |-> f, terminators |-> <<>>, incoming |-> <<>>]
      BY DefineTyped
    <2>2. \A b \in Block : blocks'[b] = blocks[b]
      BY DefineTyped
    <2> QED
      BY <2>1, <2>2
  <1>5. Block' = Block \union {Fresh(1)}
    BY <1>3 DEF Fresh
  <1>6. Conditional' = Conditional
    BY <1>4, <1>5 DEF Conditional
  <1>7. \A b \in Conditional : Successors(b)' = Successors(b)
    BY <1>4 DEF Conditional, Successors
  <1> QED
    BY <1>2, <1>6, <1>7, RestKeepsConds

(* The return at the end is no branch. *)
LEMMA FinishKeepsConds ==
  ASSUME TypeInv, NoCycle, FinishFunction
  PROVE  CondFit' /\ NoCycle'
  <1>1. \A k \in DOMAIN agenda' : ~Branching(agenda'[k])
    BY DEF FinishFunction
  <1>2. Block' = Block /\ \A b \in Block : Successors(b)' = Successors(b)
    BY FinishKeepsSuccessors
  <1>3. Conditional' = Conditional
    <2>1. /\ insertBlock \in Block
          /\ IF blocks[insertBlock].terminators = <<>>
               THEN Grown(0, insertBlock, <<>>, Null) ELSE blocks' = blocks
      BY FinishTyped
    <2>2. CASE blocks[insertBlock].terminators # <<>>
      BY <2>1, <2>2 DEF Conditional, Block
    <2>3. CASE blocks[insertBlock].terminators = <<>>
      <3>1. Block = 1 .. Len(blocks) + 0
        BY TypeOfBlocks DEF TypeInv
      <3>2. \A b \in Block : blocks'[b].terminators =
                               IF b = insertBlock THEN Append(blocks[b].terminators, <<>>)
                               ELSE blocks[b].terminators
        BY <2>1, <2>3, <3>1 DEF Grown, Terms
      <3>3. blocks'[insertBlock].terminators = << <<>> >>
        <4>1. Append(<<>>, <<>>) = << <<>> >>
          OBVIOUS
        <4> QED
          BY <2>1, <2>3, <3>2, <4>1
      <3>4. /\ insertBlock \notin Conditional
            /\ ~ \E k \in DOMAIN blocks'[insertBlock].terminators :
                   Len(blocks'[insertBlock].terminators[k]) = 2
        <4>1. \A k \in DOMAIN << <<>> >> : << <<>> >>[k] = <<>>
          OBVIOUS
        <4>2. Len(<<>>) # 2 /\ DOMAIN <<>> = {}
          OBVIOUS
        <4> QED
          BY <2>3, <3>3, <4>1, <4>2 DEF Conditional
      <3>5. \A b \in Block : b # insertBlock =>
              blocks'[b].terminators = blocks[b].terminators
        BY <3>2
      <3> QED
        BY <1>2, <2>1, <3>4, <3>5 DEF Conditional
    <2> QED
      BY <2>2, <2>3
  <1>4. Conditional \subseteq Block
    BY DEF Conditional
  <1> QED
    BY <1>1, <1>2, <1>3, <1>4, RestKeepsConds

CondInv == FitInv /\ (SoundUnit => CondFit /\ NoCycle)

(* The invariant holds before anything is emitted ... *)
LEMMA CondInit == Init => CondInv
  <1> SUFFICES ASSUME Init PROVE CondFit /\ NoCycle
    BY FitInit DEF CondInv
  <1>1. blocks = <<>> /\ agenda = <<>>
    BY DEF Init
  <1>2. Conditional = {} /\ DOMAIN agenda = {}
    BY <1>1 DEF Conditional, Block
  <1>3. CondFit
    BY <1>2 DEF CondFit
  <1>4. (SUBSET {}) \ {{}} = {}
    OBVIOUS
  <1> QED
    BY <1>2, <1>3, <1>4 DEF NoCycle

(* ... every step keeps it ... *)
LEMMA CondAlwaysStep == CondInv /\ [Next]_vars => CondInv'
  <1> SUFFICES ASSUME CondInv, [Next]_vars, SoundUnit' PROVE CondFit' /\ NoCycle'
    BY FitStep DEF CondInv
  <1>1. SoundUnit
    BY ExtentKept DEF SoundUnit
  <1>2. TypeInv /\ BlocksFit /\ CondFit /\ NoCycle
    BY <1>1 DEF CondInv, FitInv, Fit
  <1>3. CASE UNCHANGED vars
    <2>1. UNCHANGED <<blocks, agenda, insertBlock>>
      BY <1>3 DEF vars, ir
    <2> QED
      BY <1>2, <2>1, StillKeepsConds
  <1>4. ASSUME NEW f \in FunctionNames, DeclareFunction(f) \/ InnerDeclaration(f)
        PROVE  CondFit' /\ NoCycle'
    <2>1. UNCHANGED <<blocks, agenda, insertBlock>>
      BY <1>4 DEF DeclareFunction, InnerDeclaration
    <2> QED
      BY <1>2, <2>1, StillKeepsConds
  <1>5. ASSUME NEW f \in FunctionNames, DefineFunction(f)
        PROVE  CondFit' /\ NoCycle'
    BY <1>2, <1>5, DefineKeepsConds
  <1>6. CASE FinishFunction
    BY <1>2, <1>6, FinishKeepsConds
  <1>7. ASSUME NEW l \in extent.labels, LabeledStatement(l) \/ GotoStatement(l)
        PROVE  CondFit' /\ NoCycle'
    <2>1. l \in Labels
      BY <1>2, TypeParts, CodeGeneratorAssumption DEF TypeInv, UnitTyped
    <2> QED
      BY <1>2, <1>7, <2>1, LabelGuides, BodyKeepsConds
  <1>8. CASE Ordinary
    BY <1>2, <1>8, OrdinaryGuides, BodyKeepsConds
  <1>9. Statement => Ordinary \/ \E l \in extent.labels : LabeledStatement(l) \/ GotoStatement(l)
    BY DEF Statement, Ordinary
  <1>10. Expression => Ordinary
    BY DEF Ordinary
  <1> QED
    BY <1>3, <1>4, <1>5, <1>6, <1>7, <1>8, <1>9, <1>10 DEF Next

(* ... so it always holds. *)
LEMMA CondAlways == Spec => []CondInv
  BY CondInit, CondAlwaysStep, PTL DEF Spec

(* Every loop of a finished unit in which no label leaks passes an         *)
(* unconditional branch, whatever its statements and conditions are: the   *)
(* walk of SCCP_Pass over undecided branches (sccp_pass.cc:617) ends.      *)
THEOREM NoConditionalCycles == Spec => [](SoundUnit => NoConditionalCycle)
  <1>1. CondInv => (SoundUnit => NoConditionalCycle)
    BY DEF CondInv, NoCycle, Conditional, NoConditionalCycle
  <1> QED
    BY <1>1, CondAlways, PTL
=============================================================================
