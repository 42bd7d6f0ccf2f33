------------------------------ MODULE ArmBuild ------------------------------
(***************************************************************************)
(* The OR sequences ARMCG and CG build for one operation each: moves,      *)
(* loads, stores, arithmetic on one and two words, shifts, conversions,    *)
(* comparisons, copies of memory, arguments of calls.                      *)
(*                                                                         *)
(* A builder gives the ORs and the registers its result is in,             *)
(* [ors |-> ..., r |-> ...], or the ORs alone when it is told the          *)
(* registers.  A value of two words is the pair <<low, high>> of registers *)
(* (an SRVec).  genReg() is a register name no other value of the          *)
(* statement has.                                                          *)
(***************************************************************************)
EXTENDS ArmOr

Ret(ors, r) == [ors |-> ors, r |-> r]

\* isValidImmOpnd looks at the magnitude.
Fits(imm, range) == imm < range /\ -imm < range

MaskByByte(n) == 2 ^ (n * ByteBits) - 1

BuildMove(to, from) == <<OR("mov", <<to>>, <<from>>, 0)>>
BuildMoveImm(to, imm) == <<OR("mov32_i", <<to>>, <<>>, imm)>>

(***************************************************************************)
(* Addresses, loads and stores.                                            *)
(***************************************************************************)
\* A variable is [g, at, ...]: a global at an address, or a local at an offset
\* of the stack pointer that is known when the frame is laid out: late.
\* computeOfst and buildLda.
ComputeOfst(var, ofst, t) ==
    IF var.g THEN [ors |-> BuildMoveImm(t, var.at), base |-> t, ofst |-> ofst, late |-> FALSE]
    ELSE [ors |-> <<>>, base |-> "sp", ofst |-> var.at + ofst, late |-> TRUE]

BuildAddRegImm(r, src, imm) == <<OR("add_i", <<r>>, <<src>>, imm)>>

BuildLda(var, ofst, r) ==
    IF ~var.g THEN BuildAddRegImm(r, "sp", var.at + ofst)
    ELSE BuildMoveImm(r, var.at) \o IF ofst > 0 THEN BuildAddRegImm(r, r, ofst) ELSE <<>>

LoadCode(sz, sg) ==
    CASE sz = 1 -> IF sg THEN "ldrsb" ELSE "ldrb"
      [] sz = 2 -> IF sg THEN "ldrsh" ELSE "ldrh"
      [] sz \in {3, 4} -> "ldr"

BuildLoad(r, base, ofst, sz, sg) ==
    IF sz > 4 THEN <<OR("ldrd", r, <<base>>, ofst)>>
    ELSE <<OR(LoadCode(sz, sg), <<r[1]>>, <<base>>, ofst)>>
         \o IF sz = 3 THEN BuildMoveImm("t1", MaskByByte(3))
                           \o <<OR("and", <<r[1]>>, <<r[1], "t1">>, 0)>>
            ELSE <<>>

\* genAddrCompForStoreLessThan4Byte and genAddrCompFor8ByteStore: an offset
\* the OR cannot hold is added to the base first.
GenAddrComp(c, range) ==
    IF c.late \/ Fits(c.ofst, range) THEN c
    ELSE [c EXCEPT !.ors = @ \o BuildAddRegImm("t2", c.base, c.ofst), !.base = "t2", !.ofst = 0]

BuildStoreFor3Byte(r, c) ==
    c.ors \o BuildMoveImm("t1", MaskByByte(3))
    \o <<OR("and", <<r[1]>>, <<r[1], "t1">>, 0), OR("str", <<>>, <<r[1], c.base>>, c.ofst)>>

\* selectORCodeForStoreLessThan4Byte, selectORCodeForStore8Byte: the code is
\* chosen for the offset before the offset is moved to the base.
StoreCode(sz, c) ==
    CASE sz = 1 -> IF ~c.late /\ Fits(c.ofst, Range12) THEN "strb_i12" ELSE "strb"
      [] sz = 2 -> IF ~c.late /\ Fits(c.ofst, Range8) THEN "strh_i8" ELSE "strh"
      [] sz = 4 -> IF ~c.late /\ Fits(c.ofst, Range12) THEN "str_i12" ELSE "str"
      [] OTHER  -> IF ~c.late /\ Fits(c.ofst, Range8) THEN "strd_i8" ELSE "strd"

\* The address c is what ComputeOfst gave, or At(...) of a register.
At(base, ofst) == [ors |-> <<>>, base |-> base, ofst |-> ofst, late |-> FALSE]

BuildStore(r, c, sz) ==
    IF sz = 3 THEN BuildStoreFor3Byte(r, c)
    ELSE LET n == GenAddrComp(c, IF sz \in {1, 4} THEN Range12 ELSE Range8)
             words == IF sz > 4 THEN r ELSE <<r[1]>>
         IN  n.ors \o <<OR(StoreCode(sz, c), <<>>, words \o <<n.base>>, n.ofst)>>

\* A parameter register is stored after allocation: r12 takes the address.
BuildStoreAndAssignRegister(r, ofst) ==
    LET ors == BuildStore(<<r>>, At("sp", ofst), 4)
        renamed(q) == [k \in DOMAIN q |-> IF q[k] = "t2" THEN "r12" ELSE q[k]]
    IN  [k \in DOMAIN ors |-> [ors[k] EXCEPT !.d = renamed(@), !.s = renamed(@)]]

\* buildSpadjust with the size setSpadjustOffset gives it later, and buildAlloca.
BuildSpadjust(n) == <<OR("spadjust_i", <<"sp", "r12">>, <<"sp">>, n)>>
BuildAlloca(x) == <<OR("spadjust_r", <<"sp", "r12">>, <<"sp", x>>, 0)>>

(***************************************************************************)
(* Arithmetic.                                                             *)
(***************************************************************************)

\* buildAddRegReg
BuildAdd(r, x, y) ==
    IF Len(r) = 1 THEN <<OR("add", r, <<x[1], y[1]>>, 0)>>
    ELSE <<OR("adds", <<r[1]>>, <<x[1], y[1]>>, 0), OR("adc", <<r[2]>>, <<x[2], y[2]>>, 0)>>
BuildSub(r, x, y) ==
    IF Len(r) = 1 THEN <<OR("sub", r, <<x[1], y[1]>>, 0)>>
    ELSE <<OR("subs", <<r[1]>>, <<x[1], y[1]>>, 0), OR("sbc", <<r[2]>>, <<x[2], y[2]>>, 0)>>

BuildMulRegReg(r, x, y) == <<OR("mul", r, <<x[1], y[1]>>, 0)>>

\* buildMultiBinaryORByRegSize: word by word.
BuildMultiBinary(op, r, x, y) ==
    [k \in DOMAIN r |-> OR(op, <<r[k]>>, <<x[k], y[k]>>, 0)]

BuildIncReg(r, n) == IF n = 0 THEN <<>> ELSE BuildAddRegImm(r, r, n)

BuildCmp(op, p, x, y) == If(p, <<OR(op, <<>>, <<x, y>>, 0)>>)
BuildCmpImm(op, x, imm) == <<OR(op, <<>>, <<x>>, imm)>>

(***************************************************************************)
(* Shifts.  The amount is a register, or an immediate.                     *)
(***************************************************************************)
BuildShiftLeftReg(x, n) ==
    Ret(<<OR("rsb_i", <<"t6">>, <<n>>, Bits),
          OR("sub_i", <<"t1">>, <<n>>, Bits),
          OR("lsl", <<"t5">>, <<x[2], n>>, 0),
          OR("lsr", <<"t6">>, <<x[1], "t6">>, 0),
          OR("lsl", <<"t4">>, <<x[1], "t1">>, 0),
          OR("orrs", <<"t5">>, <<"t5", "t6">>, 0),
          OR("lsl", <<"d0">>, <<x[1], n>>, 0),
          OR("ands_asr_i", <<"d1">>, <<"t5", "t1">>, Bits)>>
        \o If("cc", <<OR("mov", <<"d1">>, <<"t4">>, 0)>>), <<"d0", "d1">>)

\* The source registers are shifted in place.
BuildShiftLeftImm(x, n) ==
    Ret(CASE n < Bits ->
               <<OR("lsl_i", <<x[2]>>, <<x[2]>>, n),
                 OR("orr_lsr_i", <<x[2]>>, <<x[2], x[1]>>, Bits - n),
                 OR("lsl_i", <<x[1]>>, <<x[1]>>, n)>>
          [] n \in Bits .. 2 * Bits - 1 ->
               <<OR("lsl_i", <<x[2]>>, <<x[1]>>, n - Bits), OR("mov_i", <<x[1]>>, <<>>, 0)>>
          [] OTHER ->
               <<OR("mov_i", <<x[2]>>, <<>>, 0), OR("mov_i", <<x[1]>>, <<>>, 0)>>, x)

\* buildShiftRightCase2
BuildShiftRightReg(x, n, sg) ==
    LET sh == IF sg THEN "asr" ELSE "lsr" IN
    Ret(<<OR("sub_i", <<"t5">>, <<n>>, Bits),
          OR(sh, <<"t6">>, <<x[2], "t5">>, 0),
          OR("rsb_i", <<"t3">>, <<n>>, Bits),
          OR("lsl", <<"t3">>, <<x[2], "t3">>, 0),
          OR("lsr", <<"t2">>, <<x[1], n>>, 0),
          OR("orr", <<"d0">>, <<"t3", "t2">>, 0)>>
        \o BuildCmpImm("cmp_i", "t5", 0)
        \o If("ge", <<OR("mov", <<"d0">>, <<"t6">>, 0)>>)
        \o <<OR(sh, <<"d1">>, <<x[2], n>>, 0)>>, <<"d0", "d1">>)

\* buildShiftRightCase3: in place, or in fresh registers when the low word
\* comes from the high one.
BuildShiftRightImm(x, n, sg) ==
    LET sh == IF sg THEN "asr_i" ELSE "lsr_i"
        fill(r) == IF sg THEN OR("asr_i", <<r>>, <<x[2]>>, Bits - 1)
                   ELSE OR("mov_i", <<r>>, <<>>, 0)
    IN  CASE n < Bits ->
               Ret(<<OR("lsr_i", <<x[1]>>, <<x[1]>>, n),
                     OR("orr_lsl_i", <<x[1]>>, <<x[1], x[2]>>, Bits - n),
                     OR(sh, <<x[2]>>, <<x[2]>>, n)>>, x)
          [] n \in Bits .. 2 * Bits - 1 ->
               Ret(<<OR(sh, <<"d0">>, <<x[2]>>, n - Bits), fill("d1")>>, <<"d0", "d1">>)
          [] OTHER -> Ret(<<fill(x[1]), fill(x[2])>>, x)

\* buildShiftLeft; a is [imm |-> TRUE, n |-> amount] or a register.
BuildShiftLeft(x, a) ==
    CASE Len(x) = 1 /\ a.imm  -> Ret(<<OR("lsl_i32", <<"d0">>, x, a.n)>>, <<"d0">>)
      [] Len(x) = 1 /\ ~a.imm -> Ret(<<OR("lsl", <<"d0">>, x \o <<a.r>>, 0)>>, <<"d0">>)
      [] Len(x) = 2 /\ a.imm  -> BuildShiftLeftImm(x, a.n)
      [] Len(x) = 2 /\ ~a.imm -> BuildShiftLeftReg(x, a.r)

\* buildShiftRightCase1
BuildShiftRightWord(x, a, sg) ==
    LET sh == IF sg THEN "asr" ELSE "lsr"
    IN  Ret(<<IF a.imm THEN OR(sh \o "_i32", <<"d0">>, x, a.n)
              ELSE OR(sh, <<"d0">>, x \o <<a.r>>, 0)>>, <<"d0">>)

BuildShiftRight(x, a, sg) ==
    CASE Len(x) = 1 -> BuildShiftRightWord(x, a, sg)
      [] Len(x) = 2 /\ a.imm  -> BuildShiftRightImm(x, a.n, sg)
      [] Len(x) = 2 /\ ~a.imm -> BuildShiftRightReg(x, a.r, sg)

\* buildTypeCvt: a value of a word or less becomes two words.
BuildTypeCvt(x, dsz, ssz, sg) ==
    IF dsz <= 4 \/ dsz <= ssz THEN Ret(<<>>, x)
    ELSE Ret(IF sg THEN <<OR("asr_i32", <<"d1">>, <<x[1]>>, Bits - 1)>>
             ELSE BuildMoveImm("d1", 0), <<x[1], "d1">>)

(***************************************************************************)
(* Calls and copies of memory.                                             *)
(***************************************************************************)
\* passArgVariant: words w of the arguments to r0, r1, ...
ArgReg == <<"r0", "r1", "r2", "r3">>
PassArgVariant(w) == [k \in DOMAIN w |-> OR("mov", <<ArgReg[k]>>, <<w[k]>>, 0)]

BuildCall(callee, sz) ==
    Ret(<<OR("bl", <<>>, <<>>, callee)>>, IF sz > 4 THEN <<"r0", "r1">> ELSE <<"r0">>)

BuildMemcpy(tgt, src, n) ==
    BuildMoveImm("t1", n) \o PassArgVariant(<<tgt, src, "t1">>) \o BuildCall("memcpy", n).ors

BuildMemAssign(tgt, src, n) ==
    IF n = 3
    THEN BuildLoad(<<"t3">>, src, 0, 4, FALSE) \o BuildMoveImm("t4", MaskByByte(3))
         \o <<OR("and", <<"t5">>, <<"t3", "t4">>, 0)>> \o BuildStore(<<"t5">>, At(tgt, 0), 4)
    ELSE BuildLoad(<<"t3">>, src, 0, n, FALSE) \o BuildStore(<<"t3">>, At(tgt, 0), n)

BuildMemAssignUnroll(tgt, src, words) ==
    BuildMemAssign(tgt, src, 4)
    \o IF words = 1 THEN <<>>
       ELSE BuildIncReg(src, 4) \o BuildIncReg(tgt, 4) \o BuildMemAssign(tgt, src, 4)

\* Mutant: the counter is not compared with what is left.
MutLoopForever(tgt, src, n) ==
    BuildMoveImm("t6", n) \o <<OR("label", <<>>, <<>>, 1)>>
    \o BuildMemAssign(tgt, src, 4)
    \o BuildAddRegImm("t6", "t6", -4)
    \o BuildCmpImm("teq_i", tgt, 0) \o If("ne", <<OR("b", <<>>, <<>>, 1)>>)

BuildMemAssignLoop(tgt, src, n) ==
    BuildMoveImm("t6", n) \o <<OR("label", <<>>, <<>>, 1)>>
    \o BuildMemAssign(tgt, src, 4)
    \o BuildIncReg(src, 4) \o BuildIncReg(tgt, 4) \o BuildAddRegImm("t6", "t6", -4)
    \o BuildCmpImm("teq_i", "t6", 0) \o If("ne", <<OR("b", <<>>, <<>>, 1)>>)

\* buildMemcpyInternal: the bytes that are not a word first.
BuildMemcpyInternal(tgt, src, n) ==
    LET rest == n % 4
        words == (n - rest) \div 4
    IN  (IF rest = 0 THEN <<>>
         ELSE BuildMemAssign(tgt, src, rest) \o BuildIncReg(src, rest) \o BuildIncReg(tgt, rest))
        \o CASE words = 0 -> <<>>
             [] words \in {1, 2} -> BuildMemAssignUnroll(tgt, src, words)
             [] OTHER -> BuildMemAssignLoop(tgt, src, n - rest)
=============================================================================
