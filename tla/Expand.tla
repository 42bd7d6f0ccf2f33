------------------------------- MODULE Expand -------------------------------
(***************************************************************************)
(* ARMCG::expandFakeOR: what the fake ORs become when a function is        *)
(* packaged.  Registers are assigned and stack offsets are known; an       *)
(* immediate the machine cannot encode goes through r12.                   *)
(***************************************************************************)
EXTENDS ArmBuild, ArmMach, SequencesExt

Range5 == Bits  \* the immediates of 5 bits are the shifts of a word

FakeShifts == {"lsl_i32", "lsr_i32", "asr_i32"}
FakeImms == {"add_i", "sub_i", "lsr_i"} \cup FakeShifts
FakeStores == {"str", "strb", "strh", "strd"}
FakeLoads == {"ldr", "ldrb", "ldrsb", "ldrh", "ldrsh", "ldrd"}
RegForm == [add_i |-> "add", sub_i |-> "sub", lsr_i |-> "lsr",
            lsl_i32 |-> "lsl", lsr_i32 |-> "lsr", asr_i32 |-> "asr"]
RealCode == [str |-> "str_i12", strb |-> "strb_i12", strh |-> "strh_i8", strd |-> "strd_i8",
             ldr |-> "ldr_i12", ldrb |-> "ldrb_i12", ldrsb |-> "ldrsb_i8",
             ldrh |-> "ldrh_i8", ldrsh |-> "ldrsh_i8", ldrd |-> "ldrd_i8"]
OfstRange(o) == IF o.op \in {"str", "strb", "ldr", "ldrb"} THEN Range12 ELSE Range8

ExpandFakeMov32(p, to, imm) ==
    If(p, <<OR("movw_i", <<to>>, <<>>, imm % Half),
            OR("movt_i", <<to>>, <<>>, (imm \div Half) % Half)>>)

\* add_i, sub_i, lsr_i, and expandFakeShift.
ExpandFakeImm(o) ==
    IF Fits(o.i, Range5) THEN <<o>>
    ELSE ExpandFakeMov32(o.p, "r12", o.i)
         \o <<[o EXCEPT !.op = RegForm[o.op], !.s = @ \o <<"r12">>, !.i = 0]>>

\* Mutant: the sum is computed, and the store goes to the old base.
MutFakeStore(o) ==
    IF Fits(o.i, OfstRange(o)) THEN <<o>>
    ELSE ExpandFakeImm([OR("add_i", <<"r12">>, <<Last(o.s)>>, o.i) EXCEPT !.p = o.p])
         \o <<[o EXCEPT !.op = RealCode[o.op], !.i = 0]>>

\* Every operand that is the base is renamed, the words stored too.
ExpandFakeStore(o) ==
    IF Fits(o.i, OfstRange(o)) THEN <<o>>
    ELSE LET base == Last(o.s)
         IN  ExpandFakeImm([OR("add_i", <<"r12">>, <<base>>, o.i) EXCEPT !.p = o.p])
             \o <<[o EXCEPT !.op = RealCode[o.op], !.i = 0,
                            !.s = [k \in DOMAIN @ |-> IF @[k] = base THEN "r12" ELSE @[k]]]>>

\* expandFakeLoad, expandFakeMultiLoad: the first result holds the address.
\* The addition is itself fake, and then runs whatever the predicate is.
ExpandFakeLoad(o) ==
    IF Fits(o.i, OfstRange(o))
    THEN <<IF o.op = "ldrd" THEN [o EXCEPT !.op = "ldrd_i8"] ELSE o>>
    ELSE ExpandFakeImm(OR("add_i", <<o.d[1]>>, o.s, o.i))
         \o <<[o EXCEPT !.op = RealCode[o.op], !.i = 0, !.s = <<o.d[1]>>]>>

\* buildAdd and buildSub always give one OR here, so the register kept for the
\* forms of two and three is not used; the addition is itself fake.
ExpandFakeSpadjust(o) ==
    IF o.op = "spadjust_i"
    THEN ExpandFakeImm([OR("add_i", <<"sp">>, <<"sp">>, o.i) EXCEPT !.p = o.p])
    ELSE If(o.p, BuildSub(<<"sp">>, <<o.s[1]>>, <<o.s[2]>>))

ExpandFakeOR(o) ==
    CASE o.op = "mov32_i"     -> ExpandFakeMov32(o.p, o.d[1], o.i)
      [] o.op \in {"spadjust_i", "spadjust_r"} -> ExpandFakeSpadjust(o)
      [] o.op \in FakeImms    -> ExpandFakeImm(o)
      [] o.op \in FakeStores  -> ExpandFakeStore(o)
      [] o.op \in FakeLoads   -> ExpandFakeLoad(o)
      [] OTHER                -> <<o>>

\* Mutant: the ORs are emitted as they are.
MutKeepFake(ors) == ors

\* CG::package
Package(ors) == FlattenSeq([k \in DOMAIN ors |-> ExpandFakeOR(ors[k])])

(***************************************************************************)
(* Basic blocks: the labels in front of a block, and its ORs.              *)
(***************************************************************************)
NewBB == [labels |-> <<>>, ors |-> <<>>]
IsLowerBoundary(o) == o.op \in {"b", "bl", "ret"}
IsUpperBoundary(o) == o.op = "label"

\* A branch or a call ends a block; a label begins one, and is no OR of it.
ConstructORBBList(ors) ==
    LET grown(bbs, o) == [bbs EXCEPT ![Len(bbs)].ors = Append(@, o)]
        blocks[k \in 0 .. Len(ors)] ==
            IF k = 0 THEN <<NewBB>>
            ELSE LET bbs == blocks[k - 1]
                     o == ors[k]
                 IN  CASE IsLowerBoundary(o) -> Append(grown(bbs, o), NewBB)
                       [] IsUpperBoundary(o) -> Append(bbs, [NewBB EXCEPT !.labels = <<o.i>>])
                       [] OTHER              -> grown(bbs, o)
    IN  blocks[Len(ors)]

\* The code of the blocks one after the other, with their labels.
Emitted(bbs) ==
    FlattenSeq([k \in DOMAIN bbs |->
        [j \in DOMAIN bbs[k].labels |-> OR("label", <<>>, <<>>, bbs[k].labels[j])]
        \o Package(bbs[k].ors)])

(***************************************************************************)
(* What can be encoded.                                                    *)
(***************************************************************************)
\* A fake OR left as it is has the encoding of the real one.
EncodedAs(op) ==
    IF op \in DOMAIN RealCode THEN RealCode[op]
    ELSE CASE op = "lsl_i32" -> "lsl_i" [] op = "lsr_i32" -> "lsr_i"
           [] op = "asr_i32" -> "asr_i" [] OTHER -> op

ImmRange == [i5 |-> Bits, i6 |-> 2 * Bits, i8 |-> Range8, i12 |-> Range12, i16 |-> Half,
             i32 |-> Word]
Registers(desc) == SelectSeq(desc, LAMBDA d : d = "r")

\* The OR has the registers its description names, and the immediate fits.
FitsDescription(o) ==
    LET g == SRDescGroup[EncodedAs(o.op)]
    IN  /\ EncodedAs(o.op) \notin {"mov32_i"} \cup DirectLoads \cup DirectStores
        /\ Len(o.d) = Len(Registers(g.res)) /\ Len(o.s) = Len(Registers(g.opnd))
        /\ \A k \in DOMAIN g.opnd :
              g.opnd[k] \in DOMAIN ImmRange => Fits(o.i, ImmRange[g.opnd[k]])
=============================================================================
