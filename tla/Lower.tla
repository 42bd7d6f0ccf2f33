------------------------------- MODULE Lower -------------------------------
(***************************************************************************)
(* IR2OR and ARMIR2OR: one IR statement becomes ORs; Package replaces the  *)
(* fake ones; the machine of ArmOr runs what is left.  The code is right   *)
(* when it has done to memory what the statement means.                    *)
(*                                                                         *)
(* IR comes in its lowest form, so operands are leaves:                    *)
(*   [k |-> "var", g, at, sz, sg, v]    a variable (or a PR) holding v;    *)
(*   [k |-> "const", sz, sg, v], "fconst" of a floating point type;        *)
(*   [k |-> "ind", base, ofst, sz, sg, v]   v at the address in base;      *)
(*   [k |-> "lda", g, at, sz, sg, v]    the address of a variable.         *)
(* An expression is [op, a, b, sz, sg].  A statement is [k, e, d]: what is *)
(* done with the value of e, and the variable or indirect place d it goes  *)
(* to.  A value is the natural number its bytes give.                      *)
(***************************************************************************)
EXTENDS Expand

CONSTANTS
    Stmts,      \* the statements
    Sp,         \* the stack pointer
    Fill(_)     \* the bytes of memory that no operand is in

VARIABLES
    stmt,   \* the statement converted
    phase   \* "ir", "or" when it is converted, "bb" when code is a list of
            \* basic blocks, "run" when it is packaged

vars == <<machine, stmt, phase>>

Relations == {"eq", "ne", "lt", "le", "gt", "ge"}
FpOps == {"fadd", "fsub", "fmul", "fdiv"}
FpConversions == {"i2f", "f2i", "f2f"}
FpRelations == {"flt", "fle", "fgt", "fge", "feq", "fne"}
IntRel == [flt |-> "lt", fle |-> "le", fgt |-> "gt", fge |-> "ge", feq |-> "eq", fne |-> "ne"]

Num(o) == IF o.sg THEN Signed(o.v, ByteBits * o.sz) ELSE o.v
Pair(sz, lo, hi) == IF sz > 4 THEN <<lo, hi>> ELSE <<lo>>
A(e) == Pair(e.a.sz, "a0", "a1")
B(e) == Pair(e.b.sz, "b0", "b1")
D(sz) == Pair(sz, "d0", "d1")

(***************************************************************************)
(* Operands.                                                               *)
(***************************************************************************)
ConvertLoadConst(o, r) ==
    BuildMoveImm(r[1], IF Len(r) = 2 THEN Num(o) % Word ELSE Num(o))
    \o IF Len(r) = 2 THEN BuildMoveImm(r[2], Num(o) \div Word) ELSE <<>>

\* Each word of the constant is a word of its own.
ConvertLoadConstFP(o, r) ==
    BuildMoveImm(r[1], o.v % Word) \o IF Len(r) = 2 THEN BuildMoveImm(r[2], o.v \div Word) ELSE <<>>

ConvertLoadVar(o, r) ==
    LET c == ComputeOfst(o, 0, "t1")
    IN  c.ors \o BuildLoad(r, c.base, c.ofst, o.sz, o.sg)

ConvertILoad(o, r) ==
    ConvertLoadVar(o.base, <<"x0">>) \o BuildLoad(r, "x0", o.ofst, o.sz, o.sg)

ConvertGeneralLoad(o, r) ==
    CASE o.k = "const" -> ConvertLoadConst(o, r)
      [] o.k = "fconst" -> ConvertLoadConstFP(o, r)
      [] o.k = "var"   -> ConvertLoadVar(o, r)
      [] o.k = "ind"   -> ConvertILoad(o, r)
      [] o.k = "lda"   -> BuildLda(o, 0, r[1])

Loads(e) == ConvertGeneralLoad(e.a, A(e)) \o ConvertGeneralLoad(e.b, B(e))

(***************************************************************************)
(* Expressions.                                                            *)
(***************************************************************************)
ConvertAddSubInt(e) ==
    Ret(Loads(e) \o IF e.op = "add" THEN BuildAdd(D(e.a.sz), A(e), B(e))
                    ELSE BuildSub(D(e.a.sz), A(e), B(e)), D(e.a.sz))

\* mapIRCode2ORCode of the operations on words
OrCode == [band |-> "and", bor |-> "orr", xor |-> "eor"]

ConvertBinaryOp(e) == Ret(Loads(e) \o <<OR(OrCode[e.op], <<"d0">>, A(e) \o B(e), 0)>>, <<"d0">>)

ConvertBitAnd(e) ==
    IF e.sz <= 4 THEN ConvertBinaryOp(e)
    ELSE Ret(Loads(e) \o BuildMultiBinary("and", D(e.sz), A(e), B(e)), D(e.sz))

\* The code asks for the OR of XOR whatever the operation is.
ConvertBinaryOpMoreThanWord(e) ==
    Ret(Loads(e) \o BuildMultiBinary("eor", D(e.sz), A(e), B(e)), D(e.sz))

\* convertMulofLongLong, convertMulofFloat, convertAddSubFP: the operands are
\* passed to a builtin function.
CallBuiltin(e, callee) ==
    LET c == BuildCall(callee, e.sz)
    IN  Ret(Loads(e) \o PassArgVariant(A(e) \o B(e)) \o c.ors, c.r)

ConvertMulofInt(e) == Ret(Loads(e) \o BuildMulRegReg(<<"d0">>, A(e), B(e)), <<"d0">>)

ConvertMul(e) == IF e.a.sz <= 4 THEN ConvertMulofInt(e) ELSE CallBuiltin(e, "muldi3")

\* Whether the operands are signed decides.
ConvertDiv(e) ==
    CallBuiltin(e, IF e.a.sg THEN IF e.sz <= 4 THEN "divsi3" ELSE "divdi3"
                   ELSE IF e.sz <= 4 THEN "udivsi3" ELSE "udivdi3")

\* Whether the result is signed decides.
ConvertRem(e) ==
    CallBuiltin(e, IF e.sg THEN IF e.sz <= 4 THEN "modsi3" ELSE "moddi3"
                   ELSE IF e.sz <= 4 THEN "umodsi3" ELSE "umoddi3")

(***************************************************************************)
(* Conversions.  A float is a word, a double two.                          *)
(***************************************************************************)
GenBuiltinVarFP2Int(e) ==
    CASE e.sz <= 4 /\ e.sg  -> IF e.a.sz = 4 THEN "fixsfsi" ELSE "fixdfsi"
      [] e.sz <= 4 /\ ~e.sg -> IF e.a.sz = 4 THEN "fixunssfsi" ELSE "fixunsdfsi"
      [] e.sz > 4 /\ e.sg   -> IF e.a.sz = 4 THEN "fixsfdi" ELSE "fixdfdi"
      [] e.sz > 4 /\ ~e.sg  -> IF e.a.sz = 4 THEN "fixunssfdi" ELSE "fixunsdfdi"

GenBuiltinVarInt2FP(e) ==
    CASE e.sz = 4 /\ e.a.sg  -> IF e.a.sz <= 4 THEN "floatsisf" ELSE "floatdisf"
      [] e.sz = 4 /\ ~e.a.sg -> IF e.a.sz <= 4 THEN "floatunsisf" ELSE "floatundisf"
      [] e.sz > 4 /\ e.a.sg  -> IF e.a.sz <= 4 THEN "floatsidf" ELSE "floatdidf"
      [] e.sz > 4 /\ ~e.a.sg -> IF e.a.sz <= 4 THEN "floatunsidf" ELSE "floatundidf"

GenBuiltinVarFP2FP(e) == IF e.sz = 4 THEN "truncdfsf2" ELSE "extendsfdf2"

\* A float that remains a float stays where it is.
ConvertCvtByBuiltIn(e) ==
    LET load == ConvertGeneralLoad(e.a, A(e))
        c == BuildCall(CASE e.op = "f2i" -> GenBuiltinVarFP2Int(e)
                         [] e.op = "i2f" -> GenBuiltinVarInt2FP(e)
                         [] e.op = "f2f" -> GenBuiltinVarFP2FP(e), e.sz)
    IN  IF e.op = "f2f" /\ e.sz = e.a.sz THEN Ret(load, A(e))
        ELSE Ret(load \o PassArgVariant(A(e)) \o c.ors, c.r)

ConvertCvtBetweenIntType(e) ==
    LET c == BuildTypeCvt(A(e), e.sz, e.a.sz, e.a.sg)
    IN  Ret(ConvertGeneralLoad(e.a, A(e)) \o c.ors, c.r)

ConvertCvt(e) == IF e.op = "cvt" THEN ConvertCvtBetweenIntType(e) ELSE ConvertCvtByBuiltIn(e)

ConvertNeg(e) ==
    IF e.a.k = "const"
    THEN Ret(ConvertLoadConst([e.a EXCEPT !.v = -Num(e.a), !.sg = FALSE], D(e.sz)), D(e.sz))
    ELSE Ret(ConvertGeneralLoad(e.a, A(e))
             \o IF e.sz <= 4 THEN <<OR("neg", A(e), A(e), 0)>>
                ELSE BuildMoveImm("c0", 0) \o BuildMoveImm("c1", 0)
                     \o BuildSub(D(e.sz), <<"c0", "c1">>, A(e)),
             IF e.sz <= 4 THEN A(e) ELSE D(e.sz))

\* The second word is combined with the result of the first.
ConvertBitNot(e) ==
    Ret(BuildMoveImm("d0", -1) \o ConvertGeneralLoad(e.a, A(e))
        \o <<OR("eor", <<"d0">>, <<"a0", "d0">>, 0)>>
        \o IF e.sz <= 4 THEN <<>> ELSE <<OR("eor", <<"d1">>, <<"a1", "d0">>, 0)>>, D(e.sz))

\* convertASR, convertLSR, convertLSL
ConvertShift(e) ==
    LET n == IF e.b.k = "const" THEN [imm |-> TRUE, n |-> Num(e.b)]
             ELSE [imm |-> FALSE, r |-> "b0"]
        load == ConvertGeneralLoad(e.a, A(e))
                \o IF n.imm THEN <<>> ELSE ConvertGeneralLoad(e.b, <<"b0">>)
        sh == IF e.op = "lsl" THEN BuildShiftLeft(A(e), n)
              ELSE BuildShiftRight(A(e), n, e.a.sg)
    IN  IF n.imm /\ n.n = 0 THEN Ret(load, A(e)) ELSE Ret(load \o sh.ors, sh.r)

(***************************************************************************)
(* Relations.  The result is the predicate the relation is true under.     *)
(***************************************************************************)
Preds(rel, sg) ==
    IF rel \in {"eq", "ne"} \/ sg THEN rel
    ELSE [lt |-> "lo", gt |-> "hi", le |-> "ls", ge |-> "hs"][rel]
Opposite == [eq |-> "ne", ne |-> "eq", lt |-> "ge", ge |-> "lt", gt |-> "le", le |-> "gt",
             lo |-> "hs", hs |-> "lo", hi |-> "ls", ls |-> "hi"]

\* convertRelationOpDWORD loads operands of both sizes, the smaller one
\* converted.
RelLoad(o, r) ==
    ConvertGeneralLoad(o, IF o.sz > 4 THEN r ELSE <<r[1]>>)
    \o IF o.sz > 4 THEN <<>>
       ELSE IF o.sg THEN <<OR("asr_i32", <<r[2]>>, <<r[1]>>, Bits - 1)>> ELSE BuildMoveImm(r[2], 0)

ForEquality(e, x, y) ==
    Ret(BuildCmp("cmp", "al", x[2], y[2]) \o BuildCmp("cmp", "eq", x[1], y[1]), e.op)

\* convertRelationOpDWORDForLTGELEGT
ForLTGELEGT(e, x, y) ==
    LET rel == IF e.op = "le" THEN "ge" ELSE IF e.op = "gt" THEN "lt" ELSE e.op
    IN  Ret(IF e.a.sg
            THEN BuildCmp("cmp", "al", x[1], y[1]) \o <<OR("sbcs", <<"t6">>, <<x[2], y[2]>>, 0)>>
            ELSE BuildCmp("cmp", "al", x[2], y[2]) \o BuildCmp("cmp", "eq", x[1], y[1]),
            Preds(rel, e.a.sg))

\* Mutant: the operands of <= and > are not swapped.
MutNotSwapped(e) ==
    LET x == <<"a0", "a1">>
        y == <<"b0", "b1">>
        c == IF e.op \in {"eq", "ne"} THEN ForEquality(e, x, y) ELSE ForLTGELEGT(e, x, y)
    IN  Ret(RelLoad(e.a, x) \o RelLoad(e.b, y) \o c.ors, c.r)

\* convertRelationOpDWORD, ...ForLTandGE, ...ForLEandGT
RelationDWORD(e) ==
    LET x == <<"a0", "a1">>
        y == <<"b0", "b1">>
        c == CASE e.op \in {"eq", "ne"} -> ForEquality(e, x, y)
               [] e.op \in {"lt", "ge"} -> ForLTGELEGT(e, x, y)
               [] e.op \in {"le", "gt"} -> ForLTGELEGT(e, y, x)
    IN  Ret(RelLoad(e.a, x) \o RelLoad(e.b, y) \o c.ors, c.r)

ConvertRelationOp(e) ==
    IF e.a.sz > 4 \/ e.b.sz > 4 THEN RelationDWORD(e)
    ELSE Ret(Loads(e) \o BuildCmp("cmp", "al", "a0", "b0"), Preds(e.op, e.a.sg))

\* recordRelationOpResult, outside branches
RecordRelationOpResult(c) ==
    Ret(c.ors \o If(c.r, BuildMoveImm("d0", 1)) \o If(Opposite[c.r], BuildMoveImm("d0", 0)),
        <<"d0">>)

\* convertRelationOpFP: the builtin function gives a word to compare with 0.
ConvertRelationOpFP(e) ==
    Ret(CallBuiltin(e, e.op).ors \o BuildCmpImm("cmp_i", "r0", 0), IntRel[e.op])
RecordRelationOpFP(c) ==
    Ret(c.ors \o If(Opposite[c.r], BuildMoveImm("r0", 0)) \o If(c.r, BuildMoveImm("r0", 1)),
        <<"r0">>)

\* convert
Exp(e) ==
    CASE e.op = "leaf"               -> Ret(ConvertGeneralLoad(e.a, A(e)), A(e))
      [] e.op \in {"add", "sub"}     -> ConvertAddSubInt(e)
      [] e.op = "band"               -> ConvertBitAnd(e)
      [] e.op \in {"bor", "xor"}     -> IF e.sz <= 4 THEN ConvertBinaryOp(e)
                                        ELSE ConvertBinaryOpMoreThanWord(e)
      [] e.op = "mul"                -> ConvertMul(e)
      [] e.op = "div"                -> ConvertDiv(e)
      [] e.op = "rem"                -> ConvertRem(e)
      [] e.op = "neg"                -> ConvertNeg(e)
      [] e.op = "bnot"               -> ConvertBitNot(e)
      [] e.op \in {"asr", "lsr", "lsl"} -> ConvertShift(e)
      [] e.op \in {"cvt"} \cup FpConversions -> ConvertCvt(e)
      [] e.op \in FpOps                 -> CallBuiltin(e, e.op)
      [] e.op \in Relations          -> RecordRelationOpResult(ConvertRelationOp(e))
      [] e.op \in FpRelations        -> RecordRelationOpFP(ConvertRelationOpFP(e))

\* insertCvt: a value smaller than its place is converted.
Value4Store(s) ==
    LET x == Exp(s.e)
        c == BuildTypeCvt(x.r, s.d.sz, s.e.sz, s.e.sg)
    IN  IF s.d.sz > s.e.sz /\ s.e.sz >= 4 THEN Ret(x.ors \o c.ors, c.r) ELSE x

(***************************************************************************)
(* Statements.                                                             *)
(***************************************************************************)
Emit(ors) ==
    /\ code' = ors
    /\ phase' = "or"
    /\ UNCHANGED <<at, regs, nzcv, mem, stmt>>
Converting(k) == phase = "ir" /\ stmt.k = k

\* convertStoreVar, convertStorePR, convertCopyPR
ConvertStoreVar ==
    /\ Converting("st")
    /\ LET x == Value4Store(stmt)
           c == ComputeOfst(stmt.d, 0, "t1")
       IN  Emit(x.ors \o BuildStore(x.r, c, stmt.d.sz))

ConvertIStore ==
    /\ Converting("ist")
    /\ LET x == Value4Store(stmt)
       IN  Emit(ConvertLoadVar(stmt.d.base, <<"x1">>) \o x.ors
                \o BuildStore(x.r, At("x1", stmt.d.ofst), stmt.d.sz))

\* The address of a value of more than two words, for a copy.
AddressOf(o, r) ==
    IF o.k = "ind" THEN ConvertLoadVar(o.base, <<r>>) ELSE BuildLda(o, 0, r)

\* convertStoreVar of more than 8 bytes, convertStoreViaAddress: the address
\* behind a pointer is the pointer, whatever the offset of the load is.
ConvertStoreMC ==
    /\ Converting("st_mc")
    /\ Emit(AddressOf(stmt.e.a, "a0") \o BuildLda(stmt.d, 0, "b0")
            \o BuildMemcpy("b0", "a0", stmt.d.sz))

ConvertIStoreMC ==
    /\ Converting("ist_mc")
    /\ Emit(ConvertLoadVar(stmt.d.base, <<"x1">>) \o AddressOf(stmt.e.a, "a0")
            \o (IF stmt.d.ofst = 0 THEN <<>> ELSE BuildAddRegImm("x1", "x1", stmt.d.ofst))
            \o BuildMemcpy("x1", "a0", stmt.d.sz))

BranchIf(c) == c.ors \o If(c.r, <<OR("b", <<>>, <<>>, 9)>>)
RelationOf(e) ==
    IF e.op \in FpRelations THEN ConvertRelationOpFP(e) ELSE ConvertRelationOp(e)

ConvertGoto ==
    /\ Converting("goto")
    /\ Emit(<<OR("b", <<>>, <<>>, 9)>>)

ConvertTruebr ==
    /\ Converting("truebr")
    /\ Emit(BranchIf(RelationOf(stmt.e)))

\* The relation is inverted and the statement becomes a truebr.
Invert == Opposite
          @@ [flt |-> "fge", fge |-> "flt", fgt |-> "fle", fle |-> "fgt",
              feq |-> "fne", fne |-> "feq"]
ConvertFalsebr ==
    /\ Converting("falsebr")
    /\ Emit(BranchIf(RelationOf([stmt.e EXCEPT !.op = Invert[@]])))

\* A value is returned in r0 and r1.
ConvertReturn ==
    /\ Converting("return")
    /\ LET x == Exp(stmt.e)
       IN  Emit(x.ors \o BuildMove("r0", x.r[1])
                \o IF stmt.e.sz <= 4 THEN <<>> ELSE BuildMove("r1", x.r[2]))

\* A larger one is copied to the buffer that is the first parameter.
ConvertReturnMC ==
    /\ Converting("return_mc")
    /\ Emit(AddressOf(stmt.e.a, "a0") \o BuildLda(stmt.d, 0, "b0")
            \o BuildMemcpyInternal("b0", "a0", stmt.d.sz))

(***************************************************************************)
(* The stack.                                                              *)
(***************************************************************************)
\* convertIntrinsic: SP is lowered, and copied to the result.
ConvertAlloca ==
    /\ Converting("alloca")
    /\ Emit(ConvertGeneralLoad(stmt.e.a, <<"a0">>) \o BuildAlloca("a0") \o BuildMove("d0", "sp"))

\* The entry and the exit of a function.
GenerateSpadjust ==
    /\ Converting("spadjust")
    /\ Emit(BuildSpadjust(Num(stmt.e.a)))

\* storeRegSetToStack
StoreParameter ==
    /\ Converting("param")
    /\ Emit(BuildStoreAndAssignRegister(ArgReg[stmt.e.a.v], stmt.d.at))

ConstructBBs ==
    /\ phase = "or"
    /\ code' = ConstructORBBList(code)
    /\ phase' = "bb"
    /\ UNCHANGED <<at, regs, nzcv, mem, stmt>>

\* CG::package: the ORs are expanded, and run.
DoPackage ==
    /\ phase = "bb"
    /\ code' = Emitted(code)
    /\ phase' = "run" /\ at' = 1
    /\ UNCHANGED <<regs, nzcv, mem, stmt>>

(***************************************************************************)
(* The builtin functions.                                                  *)
(***************************************************************************)
Trunc(n, d) == LET q == (IF n < 0 THEN -n ELSE n) \div (IF d < 0 THEN -d ELSE d)
               IN  IF (n < 0) = (d < 0) THEN q ELSE -q

\* A float is a small number times 1; the last word is not a number.
NaN(w) == w = Word - 1
Order(x, y) == IF Signed(x, Bits) < Signed(y, Bits) THEN -1 ELSE IF x = y THEN 0 ELSE 1

\* What is converted: a signed word or a float, an unsigned word, a signed
\* number of two words or a double, an unsigned one.
FromSigned == {"fixsfsi", "fixunssfsi", "fixsfdi", "fixunssfdi", "floatsisf", "floatsidf",
               "extendsfdf2"}
FromUnsigned == {"floatunsisf", "floatunsidf"}
FromSigned2 == {"fixdfsi", "fixunsdfsi", "fixdfdi", "fixunsdfdi", "floatdisf", "floatdidf",
                "truncdfsf2"}
FromUnsigned2 == {"floatundisf", "floatundidf"}

\* What the function called returns for the words in the registers.
Builtin(f, r) ==
    LET x == Signed(r["r0"], Bits)
        y == Signed(r["r1"], Bits)
        X == r["r0"] + Word * r["r1"]
        Y == r["r2"] + Word * r["r3"]
        sX == Signed(X, 2 * Bits)
        sY == Signed(Y, 2 * Bits)
    IN CASE f = "muldi3"  -> X * (Y % Word) + ((X * (Y \div Word)) % Word) * Word
         [] f = "divsi3"  -> Trunc(x, y)
         [] f = "udivsi3" -> r["r0"] \div r["r1"]
         [] f = "modsi3"  -> x - y * Trunc(x, y)
         [] f = "umodsi3" -> r["r0"] % r["r1"]
         [] f = "divdi3"  -> Trunc(sX, sY)
         [] f = "udivdi3" -> X \div Y
         [] f = "moddi3"  -> sX - sY * Trunc(sX, sY)
         [] f = "umoddi3" -> X % Y
         [] f = "fadd" -> x + y
         [] f = "fsub" -> x - y
         [] f = "fmul" -> x * y
         [] f = "fdiv" -> IF y = 0 THEN 0 ELSE Trunc(x, y)
         [] f \in FromSigned -> x
         [] f \in FromUnsigned -> r["r0"]
         [] f \in FromSigned2 -> sX
         [] f \in FromUnsigned2 -> X
         [] f \in {"flt", "fle", "feq", "fne"} ->
                IF NaN(r["r0"]) \/ NaN(r["r1"]) THEN 1 ELSE Order(r["r0"], r["r1"])
         [] f \in {"fgt", "fge"} ->
                IF NaN(r["r0"]) \/ NaN(r["r1"]) THEN -1 ELSE Order(r["r0"], r["r1"])

\* A call leaves nothing it need not keep in r1-r3, r12 and the flags.
RunCall ==
    /\ Running /\ Holds(Cur.p) /\ Cur.op = "bl"
    /\ LET copy == Cur.i = "memcpy"
           n == Builtin(Cur.i, regs)
       IN  /\ mem' = IF copy THEN [x \in DOMAIN mem |->
                                   IF x \in regs["r0"] .. regs["r0"] + regs["r2"] - 1
                                   THEN mem[regs["r1"] + x - regs["r0"]] ELSE mem[x]]
                     ELSE mem
           /\ regs' = [r \in DOMAIN regs |->
                        CASE r = "r0" /\ ~copy -> n % Word
                          [] r = "r1" /\ ~copy -> (n \div Word) % Word
                          [] r \in {"r1", "r2", "r3", "r12"} /\ (copy \/ r # "r1") -> Junk
                          [] OTHER -> regs[r]]
    /\ nzcv' = [n |-> 1, z |-> 1, c |-> 1, v |-> 1]
    /\ at' = at + 1
    /\ UNCHANGED code

(***************************************************************************)
(* The system.                                                             *)
(***************************************************************************)
AddrOf(o) == CASE o.k = "var" -> IF o.g THEN o.at ELSE Sp + o.at
               [] o.k = "ind" -> o.base.v + o.ofst

\* The operand is in memory, and the pointer to it; a value of more than two
\* words is what Fill gives.
Put(m, a, n, v) == [x \in DOMAIN m |-> IF x \in a .. a + n - 1 THEN ByteOf(v, x - a) ELSE m[x]]
InMem(m, o) ==
    LET p == IF o.k = "ind" THEN Put(m, AddrOf(o.base), 4, o.base.v) ELSE m
    IN  IF o.k \in {"var", "ind"} /\ o.sz <= 8 THEN Put(p, AddrOf(o), o.sz, o.v) ELSE p
MemBefore(s) ==
    InMem(InMem(InMem([x \in 0 .. MemSize - 1 |-> Fill(x)], s.d), s.e.a), s.e.b)

\* The argument registers hold different words.
ArgWord(k) == Junk + k

Init ==
    /\ stmt \in Stmts
    /\ phase = "ir"
    /\ code = <<>> /\ at = 0
    /\ regs = [[r \in RegNames |-> Junk] EXCEPT !["sp"] = Sp, !["r0"] = ArgWord(1),
                 !["r1"] = ArgWord(2), !["r2"] = ArgWord(3), !["r3"] = ArgWord(4)]
    /\ nzcv = [n |-> 0, z |-> 0, c |-> 0, v |-> 0]
    /\ mem = MemBefore(stmt)

Step(a) == phase = "run" /\ a /\ UNCHANGED <<stmt, phase>>
StepSkip == Step(Skip)
StepLoad == Step(RunLoad)
StepStore == Step(RunStore)
StepAlu == Step(RunAlu)
StepBranch == Step(RunBranch)
StepCall == Step(RunCall)

Next ==
    \/ ConvertStoreVar \/ ConvertIStore \/ ConvertStoreMC \/ ConvertIStoreMC
    \/ ConvertGoto \/ ConvertTruebr \/ ConvertFalsebr \/ ConvertReturn \/ ConvertReturnMC
    \/ ConvertAlloca \/ GenerateSpadjust \/ StoreParameter
    \/ ConstructBBs \/ DoPackage
    \/ StepSkip \/ StepLoad \/ StepStore \/ StepAlu \/ StepBranch \/ StepCall

\* Conversion and execution are sequential programs that go on.
Spec == Init /\ [][Next]_vars /\ WF_vars(Next)

(***************************************************************************)
(* What the statement means, in integers.                                  *)
(***************************************************************************)
Holds2(op, x, y) ==
    CASE op = "eq" -> x = y [] op = "ne" -> x # y
      [] op = "lt" -> x < y [] op = "le" -> x <= y
      [] op = "gt" -> x > y [] op = "ge" -> x >= y

RECURSIVE BitOp(_, _, _)
BitOp(f, x, y) == IF x = 0 /\ y = 0 THEN 0
                  ELSE 2 * BitOp(f, x \div 2, y \div 2) + f[<<x % 2, y % 2>>]
Bool2 == [band |-> [b \in {0, 1} \X {0, 1} |-> Bit(b = <<1, 1>>)],
          bor  |-> [b \in {0, 1} \X {0, 1} |-> Bit(b # <<0, 0>>)],
          xor  |-> [b \in {0, 1} \X {0, 1} |-> Bit(b[1] # b[2])]]

Meaning(e) ==
    LET x == Num(e.a)
        y == Num(e.b)
        shift == IF y > 2 * Bits THEN 2 * Bits ELSE y
    IN CASE e.op \in {"leaf", "cvt"} \cup FpConversions -> x
         [] e.op = "arg" -> ArgWord(x)
         [] e.op \in {"add", "fadd"} -> x + y
         [] e.op \in {"sub", "fsub"} -> x - y
         [] e.op = "mul" -> (x % Word) * y + (((x \div Word) * y) % Word) * Word
         [] e.op = "fmul" -> x * y
         [] e.op \in {"div", "fdiv"} -> Trunc(x, y)
         [] e.op = "rem" -> x - y * Trunc(x, y)
         [] e.op \in DOMAIN Bool2 -> BitOp(Bool2[e.op], e.a.v, e.b.v)
         [] e.op = "neg" -> -x
         [] e.op = "bnot" -> -1 - x
         [] e.op = "lsl" -> IF y >= ByteBits * e.sz THEN 0
                            ELSE (x % 2 ^ (ByteBits * e.sz - y)) * 2 ^ y
         [] e.op \in {"asr", "lsr"} -> x \div 2 ^ shift
         [] e.op \in Relations -> Bit(Holds2(e.op, x, y))
         [] e.op \in FpRelations -> IF NaN(e.a.v) \/ NaN(e.b.v) THEN Bit(e.op = "fne")
                                    ELSE Bit(Holds2(IntRel[e.op], x, y))

Ended == phase = "run" /\ ~Running
Wrap(n, sz, sg) ==
    LET w == n % 2 ^ (ByteBits * sz) IN IF sg THEN Signed(w, ByteBits * sz) ELSE w

\* The bytes of the place the statement stores to, and what they become.
Place(s) ==
    IF s.k \in {"st", "ist", "st_mc", "ist_mc", "return_mc", "param"}
    THEN AddrOf(s.d) .. AddrOf(s.d) + s.d.sz - 1 ELSE {}
ByteMeant(s, k) ==
    IF s.e.a.sz > 8 THEN MemBefore(s)[AddrOf(s.e.a) + k]
    ELSE ByteOf(Wrap(Meaning(s.e), s.e.sz, s.e.sg) % 2 ^ (ByteBits * s.d.sz), k)

\* The stack grows down: what alloca is asked for, and the frame at the entry, are
\* taken off.
SpMeant(s) ==
    CASE s.k = "alloca"   -> (Sp - s.e.a.v) % Word
      [] s.k = "spadjust" -> (Sp + Num(s.e.a)) % Word
      [] OTHER            -> Sp

\* What is computed, stored, returned or decided is what the statement means:
\* for every width, sign, kind of operand, form of immediate and offset, the
\* carries between words, the swapped comparisons of two words, the call of
\* builtin functions and the unrolled copies do what C says.
ResultIsMeaning ==
    Ended => /\ \A x \in Place(stmt) : mem[x] = ByteMeant(stmt, x - AddrOf(stmt.d))
             /\ stmt.k = "truebr" => (at = Len(code) + 2) = (Meaning(stmt.e) = 1)
             /\ stmt.k = "falsebr" => (at = Len(code) + 2) = (Meaning(stmt.e) = 0)
             /\ stmt.k = "return" =>
                  LET n == Wrap(Meaning(stmt.e), stmt.e.sz, stmt.e.sg)
                  IN  /\ regs["r0"] = n % Word
                      /\ stmt.e.sz > 4 => regs["r1"] = (n \div Word) % Word
             /\ regs["sp"] = SpMeant(stmt)
             /\ stmt.k = "alloca" => regs["d0"] = regs["sp"]
             /\ stmt.k = "goto" => at = Len(code) + 2

\* No OR changes a byte outside the place stored to, or the stack pointer unless
\* it adjusts it, in one step: no store is wider than its variable, and no
\* expansion of an offset loses the base.
OthersKept ==
    [][/\ mem' # mem => \A x \in DOMAIN mem \ Place(stmt) : mem'[x] = mem[x]
       /\ regs'["sp"] # regs["sp"] => stmt.k \in {"alloca", "spadjust"}
                                     /\ regs'["sp"] = SpMeant(stmt)]_vars

\* The code ends, the loops of memory copies too.
CodeEnds == <>Ended

\* The types of the state; what is emitted can be encoded: each OR has the
\* results and operands its description in the target's tables names, and no
\* immediate is wider than its field, whatever builder it comes from.
TypeOK ==
    /\ phase \in {"ir", "or", "bb", "run"}
    /\ regs \in [RegNames -> 0 .. Word - 1]
    /\ mem \in [0 .. MemSize - 1 -> 0 .. 2 ^ ByteBits - 1]
    /\ phase = "run" =>
          \A k \in DOMAIN code : code[k].op \in Branches \/ FitsDescription(code[k])
=============================================================================
