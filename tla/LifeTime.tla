------------------------------ MODULE LifeTime ------------------------------
(***************************************************************************)
(* The life times of a basic block: LifeTimeMgr::create of or_lra.cpp with *)
(* ARMLifeTimeMgr::handlePreferredReg.  An OR k has two positions, 2k - 1  *)
(* for its operands and 2k for its results; 0 stands for the entry of the  *)
(* block and the last position for its end.  The block is scanned from its *)
(* end to its entry, one OR a step.                                        *)
(***************************************************************************)
EXTENDS Integers, Sequences, Functions, FiniteSets

CONSTANTS
    SR,         \* the symbolic registers of the allocated register file
    Reg,        \* its physical registers
    PhyReg,     \* SR_phy_reg before the allocation, 0 is REG_UNDEF
    Global,     \* the SRs that SR_is_global
    RetSR,      \* dedicated SRs of tmGetRegSetOfReturnValue
    GRA,        \* CG::isGRAEnable
    BBs         \* the blocks considered

ASSUME LifeTimeRegisters ==
    /\ Reg \subseteq Nat \ {0} /\ IsFiniteSet(Reg)
    /\ PhyReg \in [SR -> Reg \cup {0}]
    /\ Global \subseteq SR
    /\ RetSR \subseteq {s \in SR : PhyReg[s] # 0}
    /\ GRA \in BOOLEAN

\* SRs and physical registers are different things: a value can be kept in
\* either (Stores, below).
ASSUME PlacesDiffer == SR \cap Reg = {}

\* A dedicated SR stands for one register for ever; the other SRs that are
\* not global are local to a block (LRA::verifyRegSR).
Dedicated == {s \in SR : PhyReg[s] # 0} \ Global
Local == {s \in SR : PhyReg[s] = 0} \ Global

(***************************************************************************)
(* An OR: its results and operands of this register file, whether it has a *)
(* predicate other than the true one, the low and the high SR of the pair  *)
(* that a two register load or store transfers, and the target and the     *)
(* source of a copy.                                                       *)
(***************************************************************************)
Pair == {<<>>} \cup (SR \X SR)

OR == [ res : Seq(SR), opnd : SUBSET SR, cond : BOOLEAN,
        pair : Pair, copy : Pair ]

BB == [ ors : Seq(OR), exit : BOOLEAN, livein : SUBSET SR, liveout : SUBSET SR ]

Results(o) == {o.res[i] : i \in 1 .. Len(o.res)}

\* The two SRs of a pair both occur in the OR, are both allocated already or
\* both to be, and no SR is the low one of a pair and the high one of another:
\* ARM lowering loads a pair into, and stores it from, one vector of SRs.
LifeTimeBlock(b) ==
    /\ b \in BB
    /\ b.ors # <<>>
    /\ b.livein \cup b.liveout \subseteq Global
    /\ \A i \in 1 .. Len(b.ors) : b.ors[i].pair # <<>> =>
         /\ Range(b.ors[i].pair) \subseteq Results(b.ors[i]) \cup b.ors[i].opnd
         /\ PhyReg[b.ors[i].pair[1]] = 0 <=> PhyReg[b.ors[i].pair[2]] = 0
         /\ \A j \in 1 .. Len(b.ors) : b.ors[j].pair # <<>> =>
              b.ors[i].pair[1] # b.ors[j].pair[2]

ASSUME LifeTimeBlocks == \A b \in BBs : LifeTimeBlock(b)

VARIABLES
    bb,         \* m_bb
    stage,      \* where create() is
    idx,        \* the OR it scans next
    live,       \* live_lt_list, the life times named by their SRs
    lts,        \* m_sr2lt_map and m_lt_tab: the SRs that have a life time
    ltpos,      \* LT_pos
    desc,       \* LT_desc: the positions where the SR occurs, and how
    nextSib,    \* SibMgr::m_lt2nextsiblist
    prevSib     \* SibMgr::m_lt2prevsiblist

ltvars == <<bb, stage, idx, live, lts, ltpos, desc, nextSib, prevSib>>

OrNum == Len(bb.ors)
LastPos == 2 * OrNum + 1        \* getMaxLifeTimeLen() - 1
Positions == 0 .. LastPos

IsReg(s) == PhyReg[s] # 0

\* The same physical register (recordPhysicalRegOcc, CG::isSREqual).
SamePhy(s, t) == IsReg(s) /\ PhyReg[s] = PhyReg[t]

LTInit ==
    /\ bb \in BBs
    /\ stage = "liveout"
    /\ idx = Len(bb.ors)
    /\ live = {}
    /\ lts = {}
    /\ ltpos = [s \in SR |-> {}]
    /\ desc = [s \in SR |-> {}]
    /\ nextSib = [s \in SR |-> <<>>]
    /\ prevSib = [s \in SR |-> <<>>]

\* What lives past the end: the global SRs that have a register
\* (processLiveOutSR) and, in an exit block, the registers of the return value
\* (processFuncExitBB).
LiveAtEnd ==
    (IF GRA THEN {s \in bb.liveout : IsReg(s)} ELSE {})
      \cup (IF bb.exit THEN RetSR ELSE {})

ProcessLiveOut ==
    /\ stage = "liveout"
    /\ live' = LiveAtEnd
    /\ lts' = LiveAtEnd
    /\ ltpos' = [s \in SR |-> IF s \in LiveAtEnd THEN {LastPos} ELSE {}]
    /\ bb' = IF GRA /\ bb.exit THEN [bb EXCEPT !.liveout = @ \cup RetSR] ELSE bb
    /\ stage' = "scan"
    /\ UNCHANGED <<idx, desc, nextSib, prevSib>>

\* Mutants: an OR that may not be executed ends life times; only the first
\* result does.
KilledByCond(o) ==
    {s \in live : s \in Results(o) \/ \E r \in Results(o) : SamePhy(r, s)}

\* The life times that a result of o ends: those of the same SR or register,
\* unless o may not be executed.
Killed(o) ==
    IF o.cond THEN {}
    ELSE {s \in live : s \in Results(o) \/ \E r \in Results(o) : SamePhy(r, s)}

LiveBefore(o) == (live \ Killed(o)) \cup o.opnd

\* Where s occurs in OR k: in an operand or a result, or, while it is live, in
\* another SR of its register.
Occurrences(s, k) ==
    LET o == bb.ors[k]
    IN  {<<2 * k, "def">> : r \in {x \in Results(o) :
                                     x = s \/ (s \in live /\ SamePhy(x, s))}}
        \cup {<<2 * k - 1, "use">> : u \in {x \in o.opnd :
                   x = s \/ (s \in live \ Killed(o) /\ SamePhy(x, s))}}

\* SibMgr::setSib
AddSib(list, s) == IF s \in Range(list) THEN list ELSE <<s>> \o list

\* One iteration of create(): the results, then the operands, then
\* handlePreferredReg, which gives no preferred register to a pair whose SRs
\* are both allocated or both not.
ScanOR ==
    /\ stage = "scan"
    /\ idx > 0
    /\ LET o == bb.ors[idx]
       IN  /\ live' = LiveBefore(o)
           /\ lts' = lts \cup Results(o) \cup o.opnd
           /\ ltpos' = [s \in SR |->
                  ltpos[s]
                    \cup (IF s \in live \cup Results(o) THEN {2 * idx} ELSE {})
                    \cup (IF s \in LiveBefore(o) THEN {2 * idx - 1} ELSE {})]
           /\ desc' = [s \in SR |-> desc[s] \cup Occurrences(s, idx)]
           /\ IF o.pair = <<>>
              THEN UNCHANGED <<nextSib, prevSib>>
              ELSE /\ nextSib' = [nextSib EXCEPT
                         ![o.pair[1]] = AddSib(@, o.pair[2])]
                   /\ prevSib' = [prevSib EXCEPT
                         ![o.pair[2]] = AddSib(@, o.pair[1])]
    /\ idx' = idx - 1
    /\ UNCHANGED <<bb, stage>>

\* processLiveInSR and appendPosition: what is still live lives from the entry.
LiveAtEntry == live \cup (IF GRA THEN {s \in bb.livein : IsReg(s)} ELSE {})

PosAtEntry(s) == ltpos[s] \cup (IF s \in LiveAtEntry THEN {0} ELSE {})

\* reviseLTCase1: a local life time that seems live at the entry, because its
\* definitions have predicates or it has none, starts at its first occurrence.
RevisedPos(s) ==
    IF s \in Local /\ 0 \in PosAtEntry(s)
    THEN {p \in PosAtEntry(s) : \E d \in desc[s] : d[1] <= p}
    ELSE PosAtEntry(s)

\* The end of create(): the live-in SRs, then reviseLifeTime, which also
\* removes the return registers that an exit block does not know.
FinishCreate ==
    /\ stage = "scan"
    /\ idx = 0
    /\ live' = {}
    /\ LET dropped == IF bb.exit
                      THEN {s \in RetSR : s \notin bb.livein /\ desc[s] = {}}
                      ELSE {}
       IN  /\ lts' = (lts \cup LiveAtEntry) \ dropped
           /\ ltpos' = [s \in SR |-> IF s \in dropped THEN {} ELSE RevisedPos(s)]
    /\ stage' = "created"
    /\ UNCHANGED <<bb, idx, desc, nextSib, prevSib>>

LTNext == ProcessLiveOut \/ ScanOR \/ FinishCreate

LTSpec == LTInit /\ [][LTNext]_ltvars
-----------------------------------------------------------------------------
(***************************************************************************)
(* What the block computes when every SR lives in a place: its own, or a   *)
(* physical register.  A value is named by the OR and the result it comes  *)
(* from; OR 0 is the entry, where every register has a value and the       *)
(* places of the SRs without a register have none.                         *)
(***************************************************************************)
Place == [s \in SR |-> IF IsReg(s) THEN PhyReg[s] ELSE s]

NoValue == <<0, 0>>

CondORs == {k \in 1 .. OrNum : bb.ors[k].cond}

Stores(loc, skipped) ==
    LET store[k \in 0 .. OrNum] ==
          IF k = 0
          THEN [l \in SR \cup Reg |-> IF l \in Reg THEN <<0, l>> ELSE NoValue]
          ELSE LET before == store[k - 1]
                   res == bb.ors[k].res
               IN  IF k \in skipped THEN before
                   ELSE [l \in SR \cup Reg |->
                           IF \E i \in 1 .. Len(res) : loc[res[i]] = l
                           THEN <<k, CHOOSE i \in 1 .. Len(res) : loc[res[i]] = l>>
                           ELSE before[l]]
    IN  store

\* Whatever predicated ORs are skipped, every operand that has a value in the
\* block as it is has the same value when SRs live in the places of loc, and
\* so have the SRs of "seen" at the end.
SameValues(loc, seen) ==
    \A skipped \in SUBSET CondORs :
        LET before == Stores(Place, skipped)
            after == Stores(loc, skipped)
            Same(s, k) == before[k][Place[s]] \in {NoValue, after[k][loc[s]]}
        IN  /\ \A k \in (1 .. OrNum) \ skipped :
                 \A s \in bb.ors[k].opnd : Same(s, k - 1)
            /\ \A s \in seen : Same(s, OrNum)
-----------------------------------------------------------------------------
(* Properties *)

TypeOKLT ==
    /\ bb \in BB
    /\ stage \in {"liveout", "scan", "created"}
    /\ idx \in 0 .. OrNum
    /\ live \subseteq lts
    /\ lts \subseteq SR
    /\ ltpos \in [SR -> SUBSET Positions]
    /\ desc \in [SR -> SUBSET (Positions \X {"def", "use"})]
    /\ nextSib \in [SR -> Seq(SR)]
    /\ prevSib \in [SR -> Seq(SR)]

\* Life times are long enough: however the local SRs are put into registers,
\* as long as two that share one have no position in common, every value
\* arrives where it is read, whatever predicated ORs are executed.
ColouringsKeepValues ==
    stage = "created" =>
        \A colour \in [Local -> Reg] :
            LET loc == [s \in SR |-> IF s \in Local THEN colour[s] ELSE Place[s]]
                Legal == \A s, t \in lts :
                    s # t /\ loc[s] = loc[t] /\ ~(IsReg(s) /\ IsReg(t))
                      => ltpos[s] \cap ltpos[t] = {}
            IN  Legal => SameValues(loc, LiveAtEnd \cap lts)

=============================================================================
