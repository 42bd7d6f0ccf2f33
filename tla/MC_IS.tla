------------------------------- MODULE MC_IS -------------------------------
(***************************************************************************)
(* PerformIS on ARM: every block of BlockLen ORs of a menu of ARM          *)
(* operations with the cycles of ArmMach, list scheduled or serialized.    *)
(***************************************************************************)
EXTENDS PerformIS, ArmMach

CONSTANTS r1, r2, ip, flags, ge, R1, R2, RIP, RF, RGE, RU, BlockLen

MCSR == {r1, r2, ip, flags, ge}
MCReg == {R1, R2, RIP, RF, RGE}
MCPhyReg == (r1 :> R1) @@ (r2 :> R2) @@ (ip :> RIP) @@ (flags :> RF) @@ (ge :> RGE)
MCAlias == (R1 :> {R1}) @@ (R2 :> {R2}) @@ (RIP :> {RIP}) @@ (RF :> {RF, RGE}) @@ (RGE :> {RF, RGE})

\* An OR of code c.
Of(c, res, opnd, base) ==
    [res |-> res, avail |-> [k \in DOMAIN res |-> ResultCycle(c, k)], opnd |-> opnd,
     last |-> LastCycle(c),
     mem |-> IF c \in LoadCodes THEN "load" ELSE IF c \in StoreCodes THEN "store" ELSE "none",
     memAvail |-> MemCycle(c), br |-> c \in BranchCodes, nop |-> FALSE,
     spadj |-> c \in SpadjustCodes, base |-> base, slot |-> 0, slots |-> {0}]

Mov   == Of("mov", <<r1>>, {r2}, {})
Movge == Of("mov", <<r1>>, {r2, ge}, {})
Subs  == Of("subs", <<r2, flags>>, {r1}, {})
Sbc   == Of("sbc", <<r1>>, {r1, flags}, {})
Ldr   == Of("ldr_i12", <<r1>>, {r2}, {r2})
Str   == Of("str_i12", <<>>, {r1, r2}, {r2})
Spadj == Of("spadjust_i", <<r2, ip>>, {r2}, {})
Nop   == [Mov EXCEPT !.res = <<>>, !.avail = <<>>, !.opnd = {}, !.nop = TRUE]
B     == Of("b", <<>>, {flags}, {})

Menu == {Mov, Movge, Subs, Sbc, Ldr, Str, Spadj, Nop}

\* The last OR is one that waits for what came before, or ends the block.
\* A move predicated on ge comes before the flags are set: after it the code
\* issues it too early (isRegResourceConflict knows no aliases).
MCBlocks ==
    {b \in [1 .. BlockLen -> Menu \cup {B}] :
       /\ \A x \in 1 .. BlockLen - 1 : b[x] # B
       /\ b[BlockLen] \in {B, Ldr, Str, Sbc, Movge}
       /\ \A x, y \in 1 .. BlockLen : b[x] = Subs /\ b[y] = Movge => y < x}

NoGraphs(Bs) == [b \in Bs |-> {}]
MCGraphs == NoGraphs(MCBlocks)
=============================================================================
