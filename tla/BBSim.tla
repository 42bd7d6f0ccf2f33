------------------------------- MODULE BBSim -------------------------------
(***************************************************************************)
(* The cycle-accurate simulator of a basic block: BBSimulator of           *)
(* or_sim.cpp with the overrides of ARMSim (arm_sim.cpp).  It keeps the    *)
(* cycle counter, the ORs being executed and the execution table, and it   *)
(* answers whether an OR can be issued in the current cycle.               *)
(***************************************************************************)
EXTENDS Block, FiniteSets

CONSTANTS
    SlotNum,    \* SLOT_NUM: the issue slots of the target, 1 on ARM
    ArmTarget   \* whether ARMSim's register rule is used or BBSimulator's

ASSUME SimAssumption == SlotNum \in Nat \ {0} /\ ArmTarget \in BOOLEAN

Slot == 0 .. SlotNum - 1

\* computeORSlot gives every OR a slot of the target.
ASSUME SlotAssumption ==
    \A b \in Blocks : \A i \in 1 .. Len(b) : b[i].slot \in Slot

VARIABLES
    cyc,        \* m_cyc_counter
    slotLst,    \* m_slot_lst: the ORs being executed, in which slot, since when
    execTab,    \* m_exec_tab: the OR issued in each slot and cycle
    orSlot      \* the function unit each OR is assigned (computeORSlot)

simvars == <<cyc, slotLst, execTab, orSlot>>

InitSim ==
    /\ cyc = 0
    /\ slotLst = {}
    /\ execTab = {}
    /\ orSlot = [o \in ORsOf |-> bb[o].slot]

Desc(s, o, c) == [slot |-> s, or |-> o, start |-> c]    \* class ORDesc
Cell(s, o, c) == [slot |-> s, or |-> o, cyc |-> c]      \* an entry of m_exec_tab

\* getShadow: the cycles after the first in which o is still executing.
Shadow(o) == bb[o].last - 1

InShadow(d) == cyc > d.start    \* isInShadow

\* done()
SimDone == slotLst = {}

\* getOccupiedSlot: a stack adjustment of ARM takes all the slots.
OccupiedSlots(o) == IF ArmTarget /\ bb[o].spadj THEN Slot ELSE {orSlot[o]}

\* ORSI_reg_result_avail_cyc of the first result of c that o reads, the last
\* result's if it reads none (computeDependentResultIndex compares pointers).
DependentAvail(c, o) ==
    LET read == {i \in 1 .. Len(bb[c].res) : bb[c].res[i] \in bb[o].opnd}
    IN  IF read = {} THEN bb[c].last
        ELSE bb[c].avail[CHOOSE i \in read : \A j \in read : i <= j]

\* Mutants: an OR that overwrites a result does not wait for it; an OR waits
\* one cycle less than it should.
RegResourceConflictNoOut(deps, d, o) ==
    LET c == bb[d.or]
    IN  \E i \in 1 .. Len(c.res) :
           /\ cyc < d.start + c.avail[i]
           /\ "REG_FLOW" \in deps /\ MustUse(bb[o], c.res[i])

RegResourceConflictShort(deps, d, o) ==
    deps \cap {"REG_OUT", "REG_FLOW"} # {} /\ cyc < d.start + bb[d.or].last - 1

\* BBSimulator::isRegResourceConflict waits for the last result.
BaseRegConflict(deps, d) ==
    deps \cap {"REG_OUT", "REG_FLOW"} # {} /\ cyc < d.start + bb[d.or].last

\* ARMSim::isRegResourceConflict waits for each result o reads or overwrites,
\* the flags excepted when overwritten.
RegResourceConflict(deps, d, o) ==
    LET c == bb[d.or]
        late(i) == cyc < d.start + c.avail[i]
    IN  IF ArmTarget
        THEN \E i \in 1 .. Len(c.res) : late(i) /\
               \/ "REG_FLOW" \in deps /\ MustUse(bb[o], c.res[i])
               \/ "REG_OUT" \in deps /\ c.res[i] # Rflag /\ MustDef(bb[o], c.res[i])
        ELSE BaseRegConflict(deps, d)

\* The memory result of a store, the only OR that has one, is not available.
MemResultLate(d) == bb[d.or].mem = "store" /\ cyc < d.start + bb[d.or].memAvail

\* BBSimulator::isMemResourceConflict
BaseMemConflict(deps, d) ==
    deps \cap {"MEM_VOL", "MEM_OUT", "MEM_FLOW"} # {} /\ MemResultLate(d)

\* ARMSim::isMemResourceConflict
MemResourceConflict(deps, d) ==
    IF ArmTarget
    THEN \/ deps \cap {"MEM_FLOW", "MEM_OUT"} # {}
            /\ (bb[d.or].mem # "store" \/ MemResultLate(d))
         \/ "MEM_VOL" \in deps /\ MemResultLate(d)
    ELSE BaseMemConflict(deps, d)

\* isResourceConflict
ResourceConflict(d, o) ==
    LET deps == DepsOf(d.or, o)
    IN  IF "HYB" \in deps THEN cyc < d.start + DependentAvail(d.or, o)
        ELSE RegResourceConflict(deps, d, o) \/ MemResourceConflict(deps, d)

\* canBeIssued: no OR that takes several cycles starts in this one, and none
\* still executes on whose results o waits.
CanBeIssued(o) ==
    \A d \in slotLst :
        Shadow(d.or) # 0 =>
            /\ InShadow(d)
            /\ DepsOf(d.or, o) # {} => ~ResourceConflict(d, o)

\* issue() of every OR of a bundle (the OR of each slot, 0 for none), then
\* runOneCycle(): the counter advances and the ORs whose last result is
\* available retire.
IssueAndRun(bundle) ==
    LET issued == {s \in Slot : bundle[s] # 0}
        taken  == UNION {{<<t, bundle[s]>> : t \in OccupiedSlots(bundle[s])}
                            : s \in issued}
        execs  == slotLst \cup {Desc(x[1], x[2], cyc) : x \in taken}
    IN  /\ execTab' = execTab \cup {Cell(x[1], x[2], cyc) : x \in taken}
        /\ slotLst' = {d \in execs : cyc + 1 < d.start + bb[d.or].last}
        /\ cyc' = cyc + 1

\* n calls of runOneCycle() with nothing issued.
RunCycles(n) ==
    /\ cyc' = cyc + n
    /\ slotLst' = {d \in slotLst : cyc + n < d.start + bb[d.or].last}

\* reset()
Reset ==
    /\ cyc' = 0
    /\ slotLst' = {}
    /\ execTab' = {}

NoBundle == [s \in Slot |-> 0]
IssuedORs == {x.or : x \in execTab}
=============================================================================
