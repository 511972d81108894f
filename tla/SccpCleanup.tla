----------------------------- MODULE SccpCleanup -----------------------------
(***************************************************************************)
(* SCCP_Pass::runOnFunction to its end: after the analysis of Sccp come    *)
(* tearDownInsts, which erases instructions without value and puts         *)
(* constants and decided branches in place, and deleteDeadBlocks, which    *)
(* merges and deletes the blocks that were not reached.  Both work on      *)
(* std::maps keyed by pointers: their order is any order.                  *)
(***************************************************************************)
EXTENDS Sccp, SequencesExt

VARIABLES
  code,     \* the function as rewritten so far; fn stays the original
  pending,  \* instructions whose table entry tearDownInsts has not reached
  dead,     \* deadBlockSet, a vector
  next,     \* position of the iterator in dead
  dirty,    \* something was removed in this round
  stage     \* how far runOnFunction is

cleanup == <<code, pending, dead, next, dirty, stage>>

-----------------------------------------------------------------------------
(* What LLVM does to a function.                                           *)

Users(c, i) == {u \in Insts(c) : \E k \in DOMAIN c.inst[u].args :
                                   c.inst[u].args[k] = Ref(i)}

Erase(c, S) ==
  [c EXCEPT !.body   = [b \in Blocks(c) |-> SelectSeq(c.body[b], LAMBDA i : i \notin S)],
            !.inst   = [i \in Insts(c) \ S |-> c.inst[i]],
            !.parent = [i \in Insts(c) \ S |-> c.parent[i]]]

Replace(c, i, v) ==
  LET subst(args) == [k \in DOMAIN args |-> IF args[k] = Ref(i) THEN v ELSE args[k]]
  IN  Erase([c EXCEPT !.inst = [u \in Insts(c) |->
                                  [c.inst[u] EXCEPT !.args = subst(@)]]], {i})

Phis(c, b) == SelectSeq(c.body[b], LAMBDA i : c.inst[i].op = "phi")

(* A phi with one entry is its value. *)
FoldSinglePhis(c, b) ==
  FoldLeft(LAMBDA d, i : IF Len(d.inst[i].args) = 1
                           THEN Replace(d, i, d.inst[i].args[1]) ELSE d,
           c, Phis(c, b))

WithoutBlock(c, b) ==
  [c EXCEPT !.layout = SelectSeq(@, LAMBDA a : a # b),
            !.body   = [a \in Blocks(c) \ {b} |-> c.body[a]]]

(* MergeBlockIntoPredecessor, and when it does nothing. *)
Mergeable(c, b) ==
  \E p \in Blocks(c) \ {b} :
    /\ Preds(c, b) = {p}
    /\ Succs(c, p) = {b}
    /\ \A i \in ToSet(Phis(c, b)) : i \notin Users(c, i)

Merged(c, b) ==
  LET p == CHOOSE p \in Preds(c, b) : TRUE
      d == Erase(FoldSinglePhis(c, b), {Terminator(c, p)})
      rename(from) == [k \in DOMAIN from |-> IF from[k] = b THEN p ELSE from[k]]
  IN  WithoutBlock(
        [d EXCEPT !.body[p] = @ \o d.body[b],
                  !.parent  = [i \in Insts(d) |-> IF @[i] = b THEN p ELSE @[i]],
                  !.inst    = [i \in Insts(d) |->
                                 [d.inst[i] EXCEPT !.from = rename(@)]]], b)

(* DeleteDeadBlock: the block leaves the phis of its successors, and what  *)
(* it computed becomes undef.                                              *)
LeavePhi(r, b) ==
  LET kept == SelectSeq([k \in DOMAIN r.from |-> k], LAMBDA k : r.from[k] # b)
  IN  [r EXCEPT !.args = [k \in DOMAIN kept |-> r.args[kept[k]]],
                !.from = [k \in DOMAIN kept |-> r.from[kept[k]]]]

Deleted(c, b) ==
  LET left == [c EXCEPT !.inst = [i \in Insts(c) |->
                 IF c.inst[i].op = "phi" /\ c.parent[i] \in Succs(c, b)
                   THEN LeavePhi(c.inst[i], b) ELSE c.inst[i]]]
      kept == FoldLeft(FoldSinglePhis, left, SetToSeq(Succs(c, b) \ {b}))
  IN  WithoutBlock(FoldLeft(LAMBDA d, i : Replace(d, i, OtherConstant),
                            kept, kept.body[b]), b)

-----------------------------------------------------------------------------
CleanupInit ==
  /\ Init
  /\ code = fn /\ pending = {} /\ dead = <<>> /\ next = 1 /\ dirty = FALSE
  /\ stage = "analysis"

ContinueAnalysis ==
  /\ GetNextBlock \/ QueueExhausted \/ Visit
  /\ UNCHANGED cleanup

-----------------------------------------------------------------------------
(* tearDownInsts.                                                          *)
StartTearDown ==
  /\ stage = "analysis" /\ phase = "analysed"
  /\ stage' = "tearDown"
  /\ pending' = {i \in Insts(fn) : constantTable[i] # Absent}
  /\ UNCHANGED <<vars, code, dead, next, dirty>>

TearingDown(i, state) ==
  /\ stage = "tearDown" /\ i \in pending
  /\ constantTable[i].state = state
  /\ pending' = pending \ {i}

(* Not a constant, or erased earlier on. *)
KeepInst(i) ==
  /\ TearingDown(i, "top")
  /\ UNCHANGED <<vars, code, dead, next, dirty, stage>>

(* Mutant: an instruction without value goes, its users stay. *)
EraseUnknown_Alone(i) ==
  /\ TearingDown(i, "bottom")
  /\ stage' = IF Users(code, i) = {} THEN "tearDown" ELSE "dangling"
  /\ code' = Erase(code, {i})
  /\ UNCHANGED <<vars, dead, next, dirty>>

(* An instruction without value goes, and before it its users: they must be *)
(* in the table without value, those at top excepted.  LLVM objects if the  *)
(* result of an erased instruction is still used; among the users this      *)
(* depends on the order of the use list.                                    *)
EraseUnknown(i) ==
  LET users   == Users(code, i)
      erased  == {u \in users : constantTable[u].state = "bottom"}
      gone    == erased \union {i}
      outside == {u \in UNION {Users(code, e) : e \in gone} : u \notin gone}
      among   == {u \in UNION {Users(code, e) : e \in erased} : u \in gone}
      ends    == IF \E u \in users : constantTable[u].state \in {"absent", "value"}
                   THEN {"asserted"}
                   ELSE {e \in {"tearDown", "dangling"} :
                           /\ e = "tearDown" => outside = {}
                           /\ e = "dangling" => outside \union among # {}}
  IN
  /\ TearingDown(i, "bottom")
  /\ stage' \in ends
  /\ IF stage' = "tearDown"
       THEN /\ code' = Erase(code, gone)
            /\ constantTable' = [u \in Insts(fn) |-> IF u \in erased THEN Top
                                                     ELSE constantTable[u]]
       ELSE UNCHANGED <<code, constantTable>>
  /\ UNCHANGED <<fn, blockTable, workQueue, todo, phase, visited, dead, next,
                 dirty>>

(* A branch with a known condition becomes unconditional.  The phis of the *)
(* other successor are not told.                                           *)
FoldBranch(i) ==
  LET taken == fn.inst[i].succs[IF constantTable[i].value = 0 THEN 2 ELSE 1] IN
  /\ TearingDown(i, "value")
  /\ fn.inst[i].op = "condbr"
  /\ code' = [code EXCEPT !.inst[i] = Br(taken)]
  /\ UNCHANGED <<vars, dead, next, dirty, stage>>

(* Mutant: the instruction is erased, its uses are not replaced. *)
ReplaceByConstant_OnlyErased(i) ==
  /\ TearingDown(i, "value")
  /\ fn.inst[i].op # "condbr"
  /\ code' = Erase(code, {i})
  /\ UNCHANGED <<vars, dead, next, dirty, stage>>

ReplaceByConstant(i) ==
  /\ TearingDown(i, "value")
  /\ fn.inst[i].op # "condbr"
  /\ code' = Replace(code, i, ConstInt(constantTable[i].value, IntModulus))
  /\ UNCHANGED <<vars, dead, next, dirty, stage>>

-----------------------------------------------------------------------------
(* deleteDeadBlocks.                                                       *)
CollectDeadBlocks ==
  LET bottoms == {b \in Blocks(fn) : ~Reachable(b)} IN
  /\ stage = "tearDown" /\ pending = {}
  /\ dead' \in Bijection(1 .. Cardinality(bottoms), bottoms)
  /\ stage' = "deletion"
  /\ UNCHANGED <<vars, code, pending, next, dirty>>

(* Mutant: a block that is its own predecessor is kept. *)
Deletable_NoSelfLoop(c, b) == Preds(c, b) = {}

(* One step of the iterator over the dead blocks. *)
Deletable(c, b) == Preds(c, b) \subseteq {b}

ShortenChain ==
  /\ stage = "deletion" /\ next \in DOMAIN dead
  /\ LET b == dead[next] IN
       \/ /\ Mergeable(code, b) \/ Deletable(code, b)
          /\ code' = IF Mergeable(code, b) THEN Merged(code, b) ELSE Deleted(code, b)
          /\ dead' = RemoveAt(dead, next)
          /\ dirty' = TRUE
          /\ UNCHANGED next
       \/ /\ ~Mergeable(code, b) /\ ~Deletable(code, b)
          /\ next' = next + 1
          /\ UNCHANGED <<code, dead, dirty>>
  /\ UNCHANGED <<vars, pending, stage>>

NextRound ==
  /\ stage = "deletion" /\ next \notin DOMAIN dead
  /\ dirty
  /\ dirty' = FALSE /\ next' = 1
  /\ UNCHANGED <<vars, code, pending, dead, stage>>

FinishDeletion ==
  /\ stage = "deletion" /\ next \notin DOMAIN dead
  /\ ~dirty
  /\ stage' = IF dead = <<>> THEN "done" ELSE "dead_left"
  /\ UNCHANGED <<vars, code, pending, dead, next, dirty>>

CleanupNext ==
  \/ ContinueAnalysis
  \/ StartTearDown
  \/ \E i \in Insts(fn) : \/ KeepInst(i) \/ EraseUnknown(i)
                          \/ FoldBranch(i) \/ ReplaceByConstant(i)
  \/ CollectDeadBlocks \/ ShortenChain \/ NextRound \/ FinishDeletion

CleanupSpec == CleanupInit /\ [][CleanupNext]_<<vars, cleanup>>

-----------------------------------------------------------------------------
(* The assertions of tearDownInsts hold: who uses an instruction without    *)
(* value is in the table, and without value as well (sccp_pass.cc:742-747). *)
UsersAreUnknown == stage # "asserted"

(* No instruction is erased while another one still uses its result. *)
NothingDangles == stage # "dangling"

(* The assertion of deleteDeadBlocks holds (sccp_pass.cc:823). *)
NoDeadBlockLeft == stage # "dead_left"

(* The pass leaves a function that LLVM accepts: its blocks are those that  *)
(* were reached, every phi lists the predecessors its block now has, and    *)
(* nothing refers to what was removed.                                      *)
ResultIsFunction ==
  stage = "done" => /\ IsFunction(code)
                    /\ Blocks(code) = {b \in Blocks(fn) : Reachable(b)}
=============================================================================
