--------------------------- MODULE ValueEmission ---------------------------
(***************************************************************************)
(* The instructions that IRCreator makes for values, by the types of their *)
(* operands.  A value is its LLVM type.  Where LLVM forbids an operand, or *)
(* the generator gives up with an internal error, the result is NoCode.    *)
(***************************************************************************)
EXTENDS TypeConversions

I(width)     == [kind |-> "i", width |-> width]
I8           == I(8)
I32          == I(32)
Ptr(t)       == [kind |-> "ptr", to |-> t]
VoidTy       == [kind |-> "voidty"]
StructTy(tag)    == [kind |-> "structty", tag |-> tag]
FunctionTy(r, ps) == [kind |-> "fn", returns |-> r, params |-> ps]
NoValue      == [kind |-> "none"]     \* a call that returns nothing
NoCode       == [kind |-> "nocode"]

IsI(v)   == v.kind = "i"
IsPtr(v) == v.kind = "ptr"
IsVoidP(t)  == IsPtr(t) /\ t.to = I8
IsVoidPP(t) == IsPtr(t) /\ IsVoidP(t.to)

(* A function as parameter is a pointer to it. *)
LlvmTypeOf[d \in Types] ==
  CASE TypeOf(d) = "int"    -> I32
    [] d.kind = "char"      -> I8
    [] d.kind = "void"      -> VoidTy
    [] IsPointerToVoid(d)   -> Ptr(I8)
    [] d.kind = "struct"    -> StructTy(d.tag)
    [] IsFunctionType(d)    ->
         FunctionTy(LlvmTypeOf[d.returns],
           [k \in DOMAIN d.params |->
              IF IsFunctionType(d.params[k]) THEN Ptr(LlvmTypeOf[d.params[k]])
              ELSE LlvmTypeOf[d.params[k]]])
    [] OTHER -> Ptr(LlvmTypeOf[d.to])
LlvmType(d) == LlvmTypeOf[d]

-----------------------------------------------------------------------------
(* LLVM. *)
IsSized(t) == t.kind \in {"i", "ptr"} \/ (t.kind = "structty" /\ t.tag \in DOMAIN Members)

SExtOrTrunc(v, t) == IF IsI(v) /\ IsI(t) THEN t ELSE NoCode
BitCast(v, t)     == IF v = t \/ (IsPtr(v) /\ IsPtr(t)) THEN t ELSE NoCode
PtrToInt(v)       == IF IsPtr(v) THEN I32 ELSE NoCode
IntToPtr(v, t)    == IF IsI(v) /\ IsPtr(t) THEN t ELSE NoCode
Load(v)           == IF IsPtr(v) /\ IsSized(v.to) THEN v.to ELSE NoCode
Gep(v, index)     == IF IsPtr(v) /\ IsSized(v.to) /\ IsI(index) THEN v ELSE NoCode
Operation(l, r)   == IF IsI(l) /\ l = r THEN l ELSE NoCode
ICmp(l, r)        == IF (IsI(l) \/ IsPtr(l)) /\ l = r THEN I(1) ELSE NoCode
SizeOf(t)         == IF IsSized(t) THEN I32 ELSE NoCode

-----------------------------------------------------------------------------
(* IRCreator. *)
Convert(v, t) == IF v = t THEN v ELSE SExtOrTrunc(v, t)

CreateArithmetic(l, r) == Operation(Convert(l, I32), Convert(r, I32))

CreatePAdd(pointer, index) == Gep(pointer, Convert(index, I32))

CreatePPMinus(l, r) ==
  IF IsPtr(l) /\ l = r /\ IsSized(l.to) THEN Convert(I(64), I32) ELSE NoCode

(* createLess, createEqual and createUnequal differ in the predicate only. *)
CreateComparison(l, r) ==
  LET pair ==
        CASE IsVoidP(l) /\ IsVoidP(r) -> <<l, r>>
          [] IsVoidP(l) /\ ~IsVoidP(r) ->
               <<IF r = I32 THEN PtrToInt(l) ELSE BitCast(l, r), r>>
          [] ~IsVoidP(l) /\ IsVoidP(r) ->
               <<l, IF l = I32 THEN PtrToInt(r) ELSE BitCast(r, l)>>
          [] ~IsVoidP(l) /\ ~IsVoidP(r) ->
               IF IsPtr(l) THEN <<l, IF IsPtr(r) THEN r ELSE Convert(r, l)>>
               ELSE IF IsPtr(r) THEN <<Convert(l, r), r>>
               ELSE <<Convert(l, I32), Convert(r, I32)>>
  IN  SExtOrTrunc(ICmp(BitCast(pair[1], pair[2]), pair[2]), I32)

(* createLogAnd and createLogOr: bitwise, on two pointers as they are. *)
CreateLogical(l, r) ==
  IF IsPtr(l) /\ IsPtr(r) THEN Operation(l, r)
  ELSE Operation(IF IsPtr(l) THEN PtrToInt(l) ELSE Convert(l, I32),
                 IF IsPtr(r) THEN PtrToInt(r) ELSE Convert(r, I32))

(* createLogNeg and createNeg: bitwise or arithmetic, a pointer as a number. *)
CreateNegation(v) == IF IsPtr(v) THEN IntToPtr(PtrToInt(v), v)
                     ELSE IF IsI(v) THEN v ELSE NoCode

CreateArrayAccess(pointer, index) == Load(Gep(pointer, index))

(* Mutant: the address of the pointer is taken for the pointer. *)
GetArrayPosition_NoLoad(address, index) == Gep(address, index)

GetArrayPosition(address, index) == Gep(Load(address), index)

(* Address of the k-th member. *)
GetMemberAddress(v, k) ==
  IF IsPtr(v) /\ v.to.kind = "structty" /\ IsSized(v.to) /\ k \in DOMAIN Members[v.to.tag]
  THEN Ptr(LlvmType(Members[v.to.tag][k].type)) ELSE NoCode
CreateAccess(v, k) == Load(GetMemberAddress(v, k))

(* The value of an assignment is what was stored. *)
CreateAssign(address, v, t) ==
  LET target == IF IsVoidPP(address) /\ ~IsVoidP(v) THEN Ptr(v) ELSE address
      value  == IF IsVoidP(v) THEN BitCast(v, t)
                ELSE IF IsVoidPP(address) THEN v
                ELSE Convert(v, t)
  IN  IF target = Ptr(value) THEN value ELSE NoCode

AllocNullptr(t) == IF IsPtr(t) THEN t ELSE IF IsI(t) THEN I32 ELSE Ptr(I32)

CreateFCall(f, values, types) ==
  LET converted == [k \in DOMAIN values |-> Convert(values[k], types[k])] IN
  IF IsPtr(f) /\ f.to.kind = "fn" /\ converted = f.to.params
  THEN IF f.to.returns = VoidTy THEN NoValue ELSE f.to.returns
  ELSE NoCode

MakePhi(l, r) == IF l = r THEN l ELSE NoCode

MakeConditionalBranch(v) ==
  ICmp(IF IsPtr(v) THEN PtrToInt(v) ELSE SExtOrTrunc(v, I32), I32)

(* Mutant: no conversion of pointers. *)
MakeReturn_IntOnly(v, t) ==
  IF v = NoValue THEN VoidTy
  ELSE IF IsI(t) /\ IsI(v) THEN SExtOrTrunc(v, t)
  ELSE IF v = t THEN v ELSE NoCode

(* The type that is returned; nothing from a void function. *)
MakeReturn(v, t) ==
  IF v = NoValue THEN VoidTy
  ELSE IF IsI(t) /\ IsI(v) THEN SExtOrTrunc(v, t)
  ELSE IF IsI(v) THEN IntToPtr(v, t)
  ELSE IF IsI(t) THEN PtrToInt(v)
  ELSE BitCast(v, t)
=============================================================================
