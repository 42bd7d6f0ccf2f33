----------------------------- MODULE AssignReg -----------------------------
(***************************************************************************)
(* The first colouring of local register allocation: the usable registers  *)
(* of the life times (LifeTimeMgr::computeUsableRegs), the interference    *)
(* graph (InterfGraph::build), and LRA::assignRegister for one life time   *)
(* after the other (LRA::computePrioList).  The life times no register is  *)
(* found for are handed to solveConflict.                                  *)
(*                                                                         *)
(* The order of the list depends on floating point costs and on the        *)
(* critical path; the model takes the life times in any order.             *)
(***************************************************************************)
EXTENDS LifeTime

CONSTANTS
    Allocable,      \* tmMapRegFile2RegSetAllocable
    CallerSaved,    \* tmGetRegSetOfCallerSaved
    CalleeSaved,    \* tmGetRegSetOfCalleeSaved
    CanAllocCallee, \* RaMgr::canAllocCallee
    FP              \* the frame pointer's register, 0 if not isUseFP

ASSUME AllocableRegisters ==
    /\ SR # {}
    /\ Allocable \subseteq Reg
    /\ CallerSaved \subseteq Reg
    /\ CalleeSaved \subseteq Reg
    /\ CanAllocCallee \in BOOLEAN
    /\ FP \in Reg \cup {0}
    /\ \A s \in RetSR : PhyReg[s] \notin Allocable

VARIABLES
    step,       \* where LRA::perform is
    phy,        \* SR_phy_reg
    usable,     \* m_lt2usable_reg_set_map
    antici,     \* m_lt2antici_reg_set_map
    pref,       \* LT_preferred_reg
    ig,         \* the edges of the interference graph, sets of two SRs
    prio,       \* the life times of prio_list not yet tried
    uncolored,  \* uncolored_list
    cur,        \* the life time assignRegister works on
    todo        \* the neighbours it has yet to look at

arvars == <<step, phy, usable, antici, pref, ig, prio, uncolored, cur, todo>>
lravars == <<ltvars, arvars>>

Allocated(s) == phy[s] # 0
Neighbours(s) == {t \in lts : {s, t} \in ig}

ARInit ==
    /\ LTInit
    /\ step = "lifetime"
    /\ phy = PhyReg
    /\ usable = [s \in SR |-> {}]
    /\ antici = [s \in SR |-> {}]
    /\ pref = [s \in SR |-> 0]
    /\ ig = {}
    /\ prio = {}
    /\ uncolored = {}
    /\ cur = CHOOSE s \in SR : TRUE
    /\ todo = {}

CreateLifeTimes ==
    /\ LTNext
    /\ UNCHANGED arvars

\* ARMCG::isEvenReg: the registers are numbered from 1, r0 being the first.
IsEvenReg(r) == r % 2 = 1

\* ARMLifeTimeMgr::considerSpecialConstraints: a pair starts at an even
\* register.
PairRegs(s, k) ==
    CASE bb.ors[k].pair = <<>> -> Reg
      [] bb.ors[k].pair # <<>> /\ s = bb.ors[k].pair[1] -> {r \in Reg : IsEvenReg(r)}
      [] bb.ors[k].pair # <<>> /\ s = bb.ors[k].pair[2] -> {r \in Reg : ~IsEvenReg(r)}
      [] OTHER -> Reg

OrsOf(s) == {k \in 1 .. OrNum : \E d \in desc[s] : d[1] \in {2 * k - 1, 2 * k}}

\* recomputeLTUsableRegs and computeLifeTimeUsableRegs
UsableRegs(s) ==
    IF Allocated(s) THEN {phy[s]}
    ELSE {r \in Allocable \ {FP} : \A k \in OrsOf(s) : r \in PairRegs(s, k)}

\* addAnticiReg: the registers of the SRs that s is copied from or to.
AnticiRegs(s) ==
    {phy[t] : t \in {t \in SR : Allocated(t) /\ ~Allocated(s) /\
                       \E k \in OrsOf(s) : bb.ors[k].copy \in {<<s, t>>, <<t, s>>}}}

ComputeUsableRegs ==
    /\ stage = "created"
    /\ step = "lifetime"
    /\ usable' = [s \in SR |-> IF s \in lts THEN UsableRegs(s) ELSE {}]
    /\ antici' = [s \in SR |-> IF s \in lts THEN AnticiRegs(s) ELSE {}]
    /\ step' = "graph"
    /\ UNCHANGED <<ltvars, phy, pref, ig, prio, uncolored, cur, todo>>

\* Mutant: an edge only between two life times without a register.
IsInterferredUnallocated(s, t) ==
    /\ s # t
    /\ ltpos[s] \cap ltpos[t] # {}
    /\ ~Allocated(s) /\ ~Allocated(t)

\* InterfGraph::isInterferred, for life times of one register file that are
\* not all estimated.
IsInterferred(s, t) ==
    /\ s # t
    /\ ltpos[s] \cap ltpos[t] # {}
    /\ ~(Allocated(s) /\ Allocated(t))

\* InterfGraph::build and buildPriorityList
BuildGraph ==
    /\ step = "graph"
    /\ ig' = {e \in SUBSET lts : \E s, t \in e : e = {s, t} /\ IsInterferred(s, t)}
    /\ prio' = lts
    /\ step' = "next"
    /\ UNCHANGED <<ltvars, phy, usable, antici, pref, uncolored, cur, todo>>

UsedByNeighbours(s) == {phy[t] : t \in {t \in Neighbours(s) : Allocated(t)}}

\* Mutant: a life time without a register is not recorded.
UncoloredAfterForgets(s, ok) == uncolored

UncoloredAfter(s, ok) == IF ok THEN uncolored ELSE uncolored \cup {s}

\* What assignRegister leaves of the usable registers before it chooses.
Deducted(s) ==
    (usable[s] \ (IF CanAllocCallee THEN {} ELSE CalleeSaved)) \ UsedByNeighbours(s)

\* computePrioList: an allocated or a global life time is passed over; the
\* others go to assignRegister, which fails if no register is left or the
\* preferred one is not.
NextLifeTime ==
    /\ step = "next"
    /\ \E s \in prio :
         /\ prio' = prio \ {s}
         /\ IF Allocated(s) \/ s \in Global
            THEN UNCHANGED <<step, usable, uncolored, cur, todo>>
            ELSE /\ cur' = s
                 /\ usable' = [usable EXCEPT ![s] = Deducted(s)]
                 /\ \/ /\ \/ Deducted(s) = {}
                          \/ pref[s] \notin Deducted(s) \cup {0}
                       /\ uncolored' = UncoloredAfter(s, FALSE)
                       /\ UNCHANGED <<step, todo>>
                    \/ /\ pref[s] \in Deducted(s)
                       /\ step' = "fin"
                       /\ UNCHANGED <<uncolored, todo>>
                    \/ /\ Deducted(s) # {}
                       /\ pref[s] = 0
                       /\ step' = "avoid"
                       /\ todo' = {t \in Neighbours(s) : ~Allocated(t)}
                       /\ UNCHANGED uncolored
    /\ UNCHANGED <<ltvars, phy, antici, pref, ig>>

\* Mutant: as many usable registers are few enough.
AvoidNeighbourOrEqual ==
    /\ step = "avoid"
    /\ \E t \in todo :
         /\ usable' = [usable EXCEPT ![cur] =
                 IF Cardinality(usable[t]) <= Cardinality(@) THEN @ \ usable[t] ELSE @]
         /\ todo' = todo \ {t}
    /\ UNCHANGED <<ltvars, step, phy, antici, pref, ig, prio, uncolored, cur>>

\* One iteration of the loop that keeps the registers of a neighbour with
\* fewer usable registers for it; its preferred register becomes usable.
AvoidNeighbour ==
    /\ step = "avoid"
    /\ \E t \in todo :
         LET ofNeighbour == usable[t] \cup ({pref[t]} \ {0})
         IN  /\ usable' = [usable EXCEPT ![t] = ofNeighbour,
                 ![cur] = IF Cardinality(ofNeighbour) < Cardinality(@)
                          THEN @ \ ofNeighbour ELSE @]
             /\ todo' = todo \ {t}
    /\ UNCHANGED <<ltvars, step, phy, antici, pref, ig, prio, uncolored, cur>>

Lowest(regs) == {r \in regs : \A q \in regs : r <= q}

\* The register assignRegister chooses and what is left of the usable ones: the
\* lowest anticipated one; or a caller saved one, any, as chooseByRegFileGroup
\* takes registers off a copy; or any, and it takes lower ones off for good.
Candidates ==
    LET wanted == antici[cur] \cap usable[cur]
        caller == usable[cur] \cap CallerSaved
    IN  IF wanted # {} THEN {[reg |-> r, left |-> usable[cur]] : r \in Lowest(wanted)}
        ELSE IF caller # {} THEN {[reg |-> r, left |-> usable[cur]] : r \in caller}
        ELSE {c \in [reg : usable[cur], left : SUBSET usable[cur]] :
                c.reg \in Lowest(c.left)}

\* The siblings of a list get consecutive registers, counted on from r by d;
\* the ones before the first that is not allocable get their preference.
SiblingReg(r, d, i) == r + d * i

\* Mutant: any register number but REG_UNDEF will do.
FittingAny(list, r, d) ==
    {i \in 1 .. Len(list) : \A j \in 1 .. i : SiblingReg(r, d, j) # 0}

Fitting(list, r, d) ==
    {i \in 1 .. Len(list) : \A j \in 1 .. i : SiblingReg(r, d, j) \in Allocable}

\* Mutant: the siblings are checked but get no preference.
PrefAfterNone(list, r, d, p) == p

PrefAfter(list, r, d, p) ==
    [s \in SR |-> IF ~Allocated(s) /\ \E i \in Fitting(list, r, d) : list[i] = s
                  THEN SiblingReg(r, d, CHOOSE i \in Fitting(list, r, d) : list[i] = s)
                  ELSE p[s]]

\* The end of assignRegister with register r: checkAndAssignNextSiblingLT and
\* checkAndAssignPrevSiblingLT give the siblings their preferences, and fail
\* when one would get a register that is not allocable.
Fin(r, left) ==
    LET next == nextSib[cur]
        prev == prevSib[cur]
        nextFits == Fitting(next, r, 1) = 1 .. Len(next)
        prevFits == Fitting(prev, r, -1) = 1 .. Len(prev)
        pref1 == PrefAfter(next, r, 1, pref)
    IN  /\ pref' = IF nextFits THEN PrefAfter(prev, r, -1, pref1) ELSE pref1
        /\ IF nextFits /\ prevFits
           THEN /\ phy' = [phy EXCEPT ![cur] = r]
                /\ usable' = [t \in SR |->
                       IF t = cur THEN left
                       ELSE IF t \in Neighbours(cur) /\ ~Allocated(t)
                       THEN usable[t] \ {r} ELSE usable[t]]
           ELSE phy' = phy /\ usable' = [usable EXCEPT ![cur] = left]
        /\ uncolored' = UncoloredAfter(cur, nextFits /\ prevFits)
        /\ step' = "next"
        /\ UNCHANGED <<ltvars, antici, ig, prio, cur, todo>>

\* assignRegister chooses a register, or takes the preferred one.
AssignChosen ==
    step = "avoid" /\ todo = {} /\ \E c \in Candidates : Fin(c.reg, c.left)

AssignPreferred == step = "fin" /\ Fin(pref[cur], usable[cur])

ARNext ==
    \/ CreateLifeTimes
    \/ ComputeUsableRegs
    \/ BuildGraph
    \/ NextLifeTime
    \/ AvoidNeighbour
    \/ AssignChosen
    \/ AssignPreferred

ARSpec == ARInit /\ [][ARNext]_lravars /\ WF_lravars(ARNext)
-----------------------------------------------------------------------------
(* Properties *)

Steps == {"lifetime", "graph", "next", "avoid", "fin"}

TypeOKAR ==
    /\ TypeOKLT
    /\ step \in Steps
    /\ phy \in [SR -> Reg \cup {0}]
    /\ usable \in [SR -> SUBSET Reg]
    /\ antici \in [SR -> SUBSET Reg]
    /\ pref \in [SR -> Allocable \cup {0}]
    /\ ig \subseteq SUBSET lts
    /\ prio \subseteq lts
    /\ uncolored \subseteq Local
    /\ cur \in SR
    /\ todo \subseteq Neighbours(cur)

\* Life times are long enough (ColouringsKeepValues of LifeTime.tla).  They are
\* not changed once they are created: look at them there.
LifeTimesKeepValues == step = "lifetime" => ColouringsKeepValues

\* Two life times with a common position never share a register, unless both
\* had it before the allocation.
NoSharedRegister ==
    \A s, t \in lts :
        s # t /\ Allocated(s) /\ phy[s] = phy[t] /\ ~(IsReg(s) /\ IsReg(t))
          => ltpos[s] \cap ltpos[t] = {}

\* What assignRegister asserts: keeping registers for the neighbours always
\* leaves one for the life time itself, in whatever order they are met and
\* however their sets overlap.
RegisterLeft == step = "avoid" => usable[cur] # {}

\* The two registers of a pair are an even one and the next, as soon as both
\* are assigned and whichever is first; the assertions of the sibling checks.
PairsAdjacent ==
    \A k \in 1 .. OrNum :
        LET low == bb.ors[k].pair[1]
            high == bb.ors[k].pair[2]
        IN  bb.ors[k].pair # <<>> /\ Allocated(low) /\ Allocated(high)
                /\ ~IsReg(low)
              => IsEvenReg(phy[low]) /\ phy[high] = phy[low] + 1

\* Every local life time gets a register or is handed to solveConflict.
NoneForgotten ==
    step = "next" =>
        \A s \in lts \cap Local : Allocated(s) \/ s \in uncolored \cup prio

AllTried == step = "next" /\ prio = {}

\* When every life time is coloured, the block computes in registers what it
\* computed in symbolic registers.
ValuesKept ==
    AllTried /\ uncolored = {} =>
        SameValues([s \in SR |-> IF Allocated(s) THEN phy[s] ELSE s], LiveAtEnd)

\* "Pick out registers which should not be used as allocable register": the
\* frame pointer is never given to a symbolic register.
FramePointerSpared == FP # 0 => \A s \in Local : phy[s] # FP

=============================================================================
