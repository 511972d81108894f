----------------------------- MODULE MCFunctions -----------------------------
(***************************************************************************)
(* Small IR functions for the runs on the optimiser: some compiled by hand *)
(* from C as src/src/codegen emits them and mem2reg leaves them, some      *)
(* enumerated as families of control flow graphs.  Integers have 4 bits,   *)
(* characters 2: the overflows of the real widths, at a smaller size.      *)
(***************************************************************************)
EXTENDS LlvmIr, SequencesExt

MCIntModulus  == 16
MCCharModulus == 4

C(v) == ConstInt(v, MCIntModulus)   \* an int constant
Add(a, b) == Instruction("binop", "add", <<a, b>>)
Sub(a, b) == Instruction("binop", "sub", <<a, b>>)
NonZero(a) == Instruction("icmp", "ne", <<a, C(0)>>)
Block(b, insts) == [name |-> b, insts |-> insts]

-----------------------------------------------------------------------------
(* int f(int a) { int x = 1; int y; if (a) y = 2; else y = 2; return y + x; } *)
SameOnBothSides == Function(<<
  Block("begin", << <<"j0", Br("header")>> >>),
  Block("header", << <<"c", NonZero(Arg)>>,
                     <<"j1", CondBr(Ref("c"), "then", "else")>> >>),
  Block("then", << <<"j2", Br("end")>> >>),
  Block("else", << <<"j3", Br("end")>> >>),
  Block("end", << <<"y", Phi(<<C(2), C(2)>>, <<"then", "else">>)>>,
                  <<"s", Add(Ref("y"), C(1))>>,
                  <<"r", Ret(<<Ref("s")>>)>> >>) >>)

(* int f() { int x = 1; int y; if (x) y = 2; else y = 3; return y; } *)
DecidedBranch == Function(<<
  Block("header", << <<"c", NonZero(C(1))>>,
                     <<"j1", CondBr(Ref("c"), "then", "else")>> >>),
  Block("then", << <<"j2", Br("end")>> >>),
  Block("else", << <<"j3", Br("end")>> >>),
  Block("end", << <<"y", Phi(<<C(2), C(3)>>, <<"then", "else">>)>>,
                  <<"r", Ret(<<Ref("y")>>)>> >>) >>)

(* int f(int a) { int y = 1; while (a) { y = y + 1; a = a - 1; } return y; } *)
Countdown == Function(<<
  Block("begin", << <<"j0", Br("header")>> >>),
  Block("header", << <<"y", Phi(<<C(1), Ref("y1")>>, <<"begin", "content">>)>>,
                     <<"n", Phi(<<Arg, Ref("n1")>>, <<"begin", "content">>)>>,
                     <<"c", NonZero(Ref("n"))>>,
                     <<"j1", CondBr(Ref("c"), "content", "end")>> >>),
  Block("content", << <<"y1", Add(Ref("y"), C(1))>>,
                      <<"n1", Sub(Ref("n"), C(1))>>,
                      <<"j2", Br("header")>> >>),
  Block("end", << <<"r", Ret(<<Ref("y")>>)>> >>) >>)

(* int f(int a, char *p) { int *q; char c; q = g(); c = *p; *q = c;         *)
(*                         if (a < 2) return 1; return c; }                 *)
Memory == Function(<<
  Block("begin", << <<"g", Instruction("call", "", <<OtherConstant>>)>>,
                    <<"q", Instruction("cast", "", <<Ref("g")>>)>>,
                    <<"l", Instruction("load", "", <<Arg>>)>>,
                    <<"w", Instruction("sext", "i8", <<Ref("l")>>)>>,
                    <<"st", Instruction("store", "", <<Ref("w"), Ref("q")>>)>>,
                    <<"j0", Br("header")>> >>),
  Block("header", << <<"lt", Instruction("icmp", "slt", <<Arg, C(2)>>)>>,
                     <<"z", Instruction("zext", "i1", <<Ref("lt")>>)>>,
                     <<"c", NonZero(Ref("z"))>>,
                     <<"j1", CondBr(Ref("c"), "then", "else")>> >>),
  Block("then", << <<"r1", Ret(<<C(1)>>)>> >>),
  Block("else", << <<"j2", Br("end")>> >>),
  Block("end", << <<"r", Ret(<<Ref("w")>>)>> >>) >>)

(* int *f(int a, int *p) { int x; int *q; x = p[a]; q = g(&x);              *)
(*                         if (q) return q; return a; }                     *)
Pointers == Function(<<
  Block("begin", << <<"x", Instruction("alloca", "", <<>>)>>,
                    <<"e", Instruction("gep", "", <<Arg, Arg>>)>>,
                    <<"l", Instruction("load", "", <<Ref("e")>>)>>,
                    <<"st", Instruction("store", "", <<Ref("l"), Ref("x")>>)>>,
                    <<"q", Instruction("call", "", <<OtherConstant, Ref("x")>>)>>,
                    <<"j0", Br("header")>> >>),
  Block("header", << <<"i", Instruction("ptrtoint", "", <<Ref("q")>>)>>,
                     <<"c", NonZero(Ref("i"))>>,
                     <<"j1", CondBr(Ref("c"), "then", "else")>> >>),
  Block("then", << <<"r1", Ret(<<Ref("q")>>)>> >>),
  Block("else", << <<"j2", Br("end")>> >>),
  Block("end", << <<"v", Instruction("inttoptr", "", <<Arg>>)>>,
                  <<"r", Ret(<<Ref("v")>>)>> >>) >>)

(* int f(int a) { int x = 0; while (a) { if (x) a = 0; else a = a - 1; x = 1 < 0; } *)
(*                return x + 3; }                                                  *)
StaysZero == Function(<<
  Block("begin", << <<"j0", Br("header")>> >>),
  Block("header", << <<"x", Phi(<<C(0), Ref("x1")>>, <<"begin", "ifend">>)>>,
                     <<"n", Phi(<<Arg, Ref("n2")>>, <<"begin", "ifend">>)>>,
                     <<"c", NonZero(Ref("n"))>>,
                     <<"j1", CondBr(Ref("c"), "content", "end")>> >>),
  Block("content", << <<"j2", Br("ifhead")>> >>),
  Block("end", << <<"s", Add(Ref("x"), C(3))>>, <<"r", Ret(<<Ref("s")>>)>> >>),
  Block("ifhead", << <<"d", NonZero(Ref("x"))>>,
                     <<"j3", CondBr(Ref("d"), "then", "else")>> >>),
  Block("then", << <<"j4", Br("ifend")>> >>),
  Block("else", << <<"n1", Sub(Ref("n"), C(1))>>, <<"j5", Br("ifend")>> >>),
  Block("ifend", << <<"n2", Phi(<<C(0), Ref("n1")>>, <<"then", "else">>)>>,
                    <<"lt", Instruction("icmp", "slt", <<C(1), C(0)>>)>>,
                    <<"x1", Instruction("zext", "i1", <<Ref("lt")>>)>>,
                    <<"j6", Br("header")>> >>) >>)

SourceFunctions == {SameOnBothSides, DecidedBranch, Countdown, Memory, Pointers,
                    StaysZero}

-----------------------------------------------------------------------------
(* int f(int n) { int x = 0; int y = 0;                                     *)
(*   while (n) { if (x) { if (n) y = 1; } x = 1; n = n - 1; } return y; }   *)
NestedIfInLoop == Function(<<
  Block("begin", << <<"j0", Br("header")>> >>),
  Block("header", << <<"x", Phi(<<C(0), C(1)>>, <<"begin", "ifend">>)>>,
                     <<"y", Phi(<<C(0), Ref("y3")>>, <<"begin", "ifend">>)>>,
                     <<"n", Phi(<<Arg, Ref("n1")>>, <<"begin", "ifend">>)>>,
                     <<"c", NonZero(Ref("n"))>>,
                     <<"j1", CondBr(Ref("c"), "content", "end")>> >>),
  Block("content", << <<"j2", Br("ifhead")>> >>),
  Block("end", << <<"r", Ret(<<Ref("y")>>)>> >>),
  Block("ifhead", << <<"d", NonZero(Ref("x"))>>,
                     <<"j3", CondBr(Ref("d"), "then", "else")>> >>),
  Block("then", << <<"j4", Br("ifhead2")>> >>),
  Block("else", << <<"j5", Br("ifend")>> >>),
  Block("ifend", << <<"y3", Phi(<<Ref("y2"), Ref("y")>>, <<"ifend2", "else">>)>>,
                    <<"n1", Sub(Ref("n"), C(1))>>,
                    <<"j6", Br("header")>> >>),
  Block("ifhead2", << <<"e", NonZero(Ref("n"))>>,
                      <<"j7", CondBr(Ref("e"), "then2", "else2")>> >>),
  Block("then2", << <<"j8", Br("ifend2")>> >>),
  Block("else2", << <<"j9", Br("ifend2")>> >>),
  Block("ifend2", << <<"y2", Phi(<<C(1), Ref("y")>>, <<"then2", "else2">>)>>,
                     <<"j10", Br("ifend")>> >>) >>)

(* int f(int n) { int x = 0; int y = 0;                                     *)
(*   while (n) { if (y) x = 5; y = 1; n = n - 1; } return x; }              *)
SetInLaterIteration == Function(<<
  Block("begin", << <<"j0", Br("header")>> >>),
  Block("header", << <<"x", Phi(<<C(0), Ref("x2")>>, <<"begin", "ifend">>)>>,
                     <<"y", Phi(<<C(0), C(1)>>, <<"begin", "ifend">>)>>,
                     <<"n", Phi(<<Arg, Ref("n1")>>, <<"begin", "ifend">>)>>,
                     <<"c", NonZero(Ref("n"))>>,
                     <<"j1", CondBr(Ref("c"), "content", "end")>> >>),
  Block("content", << <<"j2", Br("ifhead")>> >>),
  Block("end", << <<"r", Ret(<<Ref("x")>>)>> >>),
  Block("ifhead", << <<"d", NonZero(Ref("y"))>>,
                     <<"j3", CondBr(Ref("d"), "then", "else")>> >>),
  Block("then", << <<"j4", Br("ifend")>> >>),
  Block("else", << <<"j5", Br("ifend")>> >>),
  Block("ifend", << <<"x2", Phi(<<C(5), Ref("x")>>, <<"then", "else">>)>>,
                    <<"n1", Sub(Ref("n"), C(1))>>,
                    <<"j6", Br("header")>> >>) >>)

(* int f() { int i = 0; while (i < 2) i = i + 1; return i; } *)
CountingLoop == Function(<<
  Block("begin", << <<"j0", Br("header")>> >>),
  Block("header", << <<"i", Phi(<<C(0), Ref("i1")>>, <<"begin", "content">>)>>,
                     <<"lt", Instruction("icmp", "slt", <<Ref("i"), C(2)>>)>>,
                     <<"z", Instruction("zext", "i1", <<Ref("lt")>>)>>,
                     <<"c", NonZero(Ref("z"))>>,
                     <<"j1", CondBr(Ref("c"), "content", "end")>> >>),
  Block("content", << <<"i1", Add(Ref("i"), C(1))>>, <<"j2", Br("header")>> >>),
  Block("end", << <<"r", Ret(<<Ref("i")>>)>> >>) >>)

(* int f() { char c = 255; return c; } *)
NegativeChar == Function(<<
  Block("begin", << <<"w", Instruction("sext", "i8", <<ConstInt(-1, MCCharModulus)>>)>>,
                    <<"r", Ret(<<Ref("w")>>)>> >>),
  Block("dead", << <<"r2", Ret(<<C(0)>>)>> >>) >>)

(* int f() { int x = 1; int y = x - x; int z = 2; if (x) z = y; return z; } *)
ZeroDifference == Function(<<
  Block("begin", << <<"y", Sub(C(1), C(1))>>, <<"j0", Br("header")>> >>),
  Block("header", << <<"c", NonZero(C(1))>>,
                     <<"j1", CondBr(Ref("c"), "then", "else")>> >>),
  Block("then", << <<"j2", Br("end")>> >>),
  Block("else", << <<"j3", Br("end")>> >>),
  Block("end", << <<"z", Phi(<<Ref("y"), C(2)>>, <<"then", "else">>)>>,
                  <<"r", Ret(<<Ref("z")>>)>> >>) >>)

(* int f(int a, int n) { int b = 0;                                         *)
(*   while (n) { b = a && n; n = n - 1; } return b; }                       *)
AndInLoop == Function(<<
  Block("begin", << <<"j0", Br("header")>> >>),
  Block("header", << <<"b", Phi(<<C(0), Ref("a")>>, <<"begin", "content">>)>>,
                     <<"n", Phi(<<Arg, Ref("n1")>>, <<"begin", "content">>)>>,
                     <<"c", NonZero(Ref("n"))>>,
                     <<"j1", CondBr(Ref("c"), "content", "end")>> >>),
  Block("content", << <<"a", Instruction("binop", "and", <<Arg, Ref("n")>>)>>,
                      <<"n1", Sub(Ref("n"), C(1))>>,
                      <<"j2", Br("header")>> >>),
  Block("end", << <<"r", Ret(<<Ref("b")>>)>> >>) >>)

(* int f(int a) { if (a && 0) return 1; return 0; } *)
AndFalse == Function(<<
  Block("begin", << <<"j0", Br("header")>> >>),
  Block("header", << <<"c", NonZero(Arg)>>,
                     <<"j1", CondBr(Ref("c"), "both", "else")>> >>),
  Block("then", << <<"r1", Ret(<<C(1)>>)>> >>),
  Block("else", << <<"j2", Br("end")>> >>),
  Block("end", << <<"r2", Ret(<<C(0)>>)>> >>),
  Block("both", << <<"j3", CondBr(ConstInt(0, 2), "then", "else")>> >>),
  Block("dead1", << <<"j4", Br("end")>> >>),
  Block("dead2", << <<"r3", Ret(<<C(0)>>)>> >>) >>)

(* int f(int a) { int y = 0; while (1) { if (a) { y = 1; break; } a = a + 1; } *)
(*                return y; }                                                  *)
BreakWithResult == Function(<<
  Block("begin", << <<"j0", Br("header")>> >>),
  Block("header", << <<"n", Phi(<<Arg, Ref("n1")>>, <<"begin", "ifend">>)>>,
                     <<"y", Phi(<<C(0), Ref("y1")>>, <<"begin", "ifend">>)>>,
                     <<"j1", CondBr(ConstInt(1, 2), "content", "end")>> >>),
  Block("content", << <<"j2", Br("ifhead")>> >>),
  Block("end", << <<"z", Phi(<<Ref("y"), C(1)>>, <<"header", "then">>)>>,
                  <<"r", Ret(<<Ref("z")>>)>> >>),
  Block("ifhead", << <<"d", NonZero(Ref("n"))>>,
                     <<"j3", CondBr(Ref("d"), "then", "else")>> >>),
  Block("then", << <<"j4", Br("end")>> >>),
  Block("else", << <<"j5", Br("ifend")>> >>),
  Block("ifend", << <<"y1", Phi(<<Ref("y"), C(1)>>, <<"else", "dead1">>)>>,
                    <<"n1", Add(Ref("n"), C(1))>>,
                    <<"j6", Br("header")>> >>),
  Block("dead1", << <<"j7", Br("ifend")>> >>),
  Block("dead2", << <<"r2", Ret(<<C(0)>>)>> >>) >>)

(* int f() { int x = 1; int y = x - x; return y; } *)
ReturnsZero == Function(<<
  Block("begin", << <<"y", Sub(C(1), C(1))>>, <<"r", Ret(<<Ref("y")>>)>> >>),
  Block("dead", << <<"r2", Ret(<<C(0)>>)>> >>) >>)

(* int f(int a) { int x = 1; int y = x - x; y + 1; return a; } *)
UnusedZero == Function(<<
  Block("begin", << <<"y", Sub(C(1), C(1))>>,
                    <<"u", Add(Ref("y"), C(1))>>,
                    <<"r", Ret(<<Arg>>)>> >>),
  Block("dead", << <<"r2", Ret(<<C(0)>>)>> >>) >>)

(* int f(int a) { return 0; while (a) { a = a - 1; if (a) ; } *)
DeadLoopWithIf == Function(<<
  Block("begin", << <<"r", Ret(<<C(0)>>)>> >>),
  Block("dead", << <<"j0", Br("header")>> >>),
  Block("header", << <<"n", Phi(<<Arg, Ref("n1")>>, <<"dead", "ifend">>)>>,
                     <<"c", NonZero(Ref("n"))>>,
                     <<"j1", CondBr(Ref("c"), "content", "end")>> >>),
  Block("content", << <<"n1", Sub(Ref("n"), C(1))>>, <<"j2", Br("ifhead")>> >>),
  Block("end", << <<"r2", Ret(<<C(0)>>)>> >>),
  Block("ifhead", << <<"d", NonZero(Ref("n1"))>>,
                     <<"j3", CondBr(Ref("d"), "then", "else")>> >>),
  Block("then", << <<"j4", Br("ifend")>> >>),
  Block("else", << <<"j5", Br("ifend")>> >>),
  Block("ifend", << <<"j6", Br("header")>> >>) >>)

(* int f(int a) { int b = 0; if (0) { while (a) a = a - 1; b = a; return b; } *)
(*                return b + 1; }                                             *)
DeadCode == Function(<<
  Block("begin", << <<"j0", Br("header")>> >>),
  Block("header", << <<"j1", CondBr(ConstInt(0, 2), "then", "else")>> >>),
  Block("then", << <<"j2", Br("whead")>> >>),
  Block("else", << <<"j3", Br("end")>> >>),
  Block("end", << <<"b", Phi(<<C(0), Ref("n")>>, <<"else", "dead1">>)>>,
                  <<"s", Add(Ref("b"), C(1))>>,
                  <<"r1", Ret(<<Ref("s")>>)>> >>),
  Block("whead", << <<"n", Phi(<<Arg, Ref("n1")>>, <<"then", "content">>)>>,
                    <<"c", NonZero(Ref("n"))>>,
                    <<"j4", CondBr(Ref("c"), "content", "wend")>> >>),
  Block("content", << <<"n1", Sub(Ref("n"), C(1))>>, <<"j5", Br("whead")>> >>),
  Block("wend", << <<"r2", Ret(<<Ref("n")>>)>> >>),
  Block("dead1", << <<"j6", Br("end")>> >>),
  Block("dead2", << <<"r3", Ret(<<C(0)>>)>> >>) >>)

OnlyNestedIfInLoop == {NestedIfInLoop}
OnlySetInLaterIteration == {SetInLaterIteration}
OnlyCountingLoop == {CountingLoop}
OnlyNegativeChar == {NegativeChar}
OnlyZeroDifference == {ZeroDifference}
OnlyAndInLoop == {AndInLoop}

-----------------------------------------------------------------------------
(***************************************************************************)
(* Families.  A shape gives each block k its successors, what its branch   *)
(* tests and what it contributes to the phis of its successors; block 1 is *)
(* the entry, block n returns.  A block with predecessors starts with a    *)
(* phi and the sum of the phi and 1.                                       *)
(***************************************************************************)
BlockOf(k) == "block" \o ToString(k)
PhiOf(k)   == "phi" \o ToString(k)
SumOf(k)   == "sum" \o ToString(k)
TestOf(k)  == "test" \o ToString(k)
EndOf(k)   == "end" \o ToString(k)

ShapePreds(s, k) == {j \in DOMAIN s.succs : k \in ToSet(s.succs[j])}

(* The value block k sends along its outgoing edges, or tests. *)
ShapeValue(s, k, what) ==
  CASE what = "zero" -> C(0)
    [] what = "one"  -> C(1)
    [] what = "phi"  -> IF ShapePreds(s, k) = {} THEN C(1) ELSE Ref(PhiOf(k))
    [] what = "sum"  -> IF ShapePreds(s, k) = {} THEN C(2) ELSE Ref(SumOf(k))
    [] what = "arg"  -> Arg

ShapeBlock(s, k) ==
  LET preds == SetToSortSeq(ShapePreds(s, k), <)
      head  == IF preds = <<>> THEN <<>>
               ELSE << <<PhiOf(k), Phi([m \in DOMAIN preds |->
                                         ShapeValue(s, preds[m], s.out[preds[m]])],
                                      [m \in DOMAIN preds |-> BlockOf(preds[m])])>>,
                       <<SumOf(k), Add(Ref(PhiOf(k)), C(1))>> >>
      tail  == CASE k \notin DOMAIN s.succs ->
                      << <<EndOf(k), Ret(<<ShapeValue(s, k, "phi")>>)>> >>
                 [] OTHER ->
                      IF Len(s.succs[k]) = 1
                        THEN << <<EndOf(k), Br(BlockOf(s.succs[k][1]))>> >>
                        ELSE << <<TestOf(k), NonZero(ShapeValue(s, k, s.test[k]))>>,
                                <<EndOf(k), CondBr(Ref(TestOf(k)),
                                                   BlockOf(s.succs[k][1]),
                                                   BlockOf(s.succs[k][2]))>> >>
  IN  Block(BlockOf(k), head \o tail)

ShapeFunction(s) == Function(<<ShapeBlock(s, 1), ShapeBlock(s, 2),
                               ShapeBlock(s, 3), ShapeBlock(s, 4)>>)

(* Up to n blocks; block k may branch to the blocks of to[k]. *)
Shapes(n, to, tests, outs) ==
  LET targets(k) == {<<b>> : b \in to[k]} \union
                    {p \in to[k] \X to[k] : p[1] < p[2]}
      succs == {f \in [1 .. n - 1 -> UNION {targets(k) : k \in 1 .. n - 1}] :
                  \A k \in 1 .. n - 1 : f[k] \in targets(k)}
  IN  [succs : succs, test : [1 .. n - 1 -> tests], out : [1 .. n - 1 -> outs]]

(* What does not show in the function is fixed, to enumerate it once. *)
Canonical(s) ==
  /\ \A k \in DOMAIN s.test : Len(s.succs[k]) = 1 => s.test[k] = "arg"
  /\ s.out[1] # "phi" /\ s.test[1] # "sum"

=============================================================================
