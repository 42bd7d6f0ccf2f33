-------------------------------- MODULE LIS --------------------------------
(***************************************************************************)
(* The cycle-accurate list scheduler of a basic block (class LIS of        *)
(* or_lis.cpp, ARMLIS of arm_lis.cpp): schedule(), which reorders the      *)
(* block along its dependence graph, and serialize(), which only times it. *)
(*                                                                         *)
(* A step is a call of computeReadyList's loop body, the choice of the     *)
(* candidates of a cycle, the choice of the OR for one slot, or the issue  *)
(* of the bundle chosen.                                                   *)
(***************************************************************************)
EXTENDS BBSim

CONSTANTS
    Graphs,     \* the dependence graphs considered for each block
    LisModes,   \* the values of g_do_lis considered: schedule() or serialize()
    DelaySlot,  \* SCH_BRANCH_DELAY_SLOT and SCH_ALLOW_RESCHED, set together
    ChangeSlot  \* SCH_CHANGE_SLOT

ASSUME ModeAssumption == LisModes \cup {DelaySlot, ChangeSlot} \subseteq BOOLEAN

\* Edges go forward in program order, and a hybrid edge, which only
\* buildMemDep makes, carries other flags only if it leaves a memory OR.
ASSUME GraphsAssumption ==
    /\ DOMAIN Graphs = Blocks
    /\ \A b \in Blocks : \A g \in Graphs[b] :
         /\ g \subseteq [from : 1 .. Len(b), to : 1 .. Len(b), dep : DepType]
         /\ \A e \in g : e.from < e.to
         /\ \A e, f \in g : e.dep = "HYB" /\ f.from = e.from /\ f.to = e.to =>
               f.dep = "HYB" \/ IsMem(b[e.from])

VARIABLES
    phase,      \* where schedule() or serialize() is
    step,       \* the vertices left in stepddg
    ready,      \* m_ready_list
    visited,    \* visited: the vertices that have been on the ready list
    brPreds,    \* m_br_all_preds
    brStart,    \* ORDESC_start_cyc(m_br_ord)
    next,       \* serialize: the next OR of the list; 0 when schedule() runs
    cand,       \* m_tmp_orlist: the candidates of this cycle
    issueOrs,   \* issue_ors: the OR chosen for each slot, 0 for none
    beChanged,  \* be_changed of selectIssueORs
    si          \* the slot being filled

lisvars == <<phase, step, ready, visited, brPreds, brStart, next,
             cand, issueOrs, beChanged, si>>
vars == <<bb, edge, simvars, lisvars>>

\* get_br(): the last branch of the block, 0 if there is none.
Br == LET brs == {o \in ORsOf : bb[o].br}
      IN  IF brs = {} THEN 0 ELSE CHOOSE o \in brs : \A p \in brs : p <= o

\* isScheduleDelaySlot(): m_br_ord # nullptr
IsScheduleDelaySlot == DelaySlot /\ Br # 0

\* The branch schedule() keeps out of the list and issues last.
Left == IF IsScheduleDelaySlot THEN 0 ELSE Br

\* g_do_lis: schedule() orders the block.
DoLis == next = 0

InitLISState ==
    /\ InitSim
    /\ \E lis \in LisModes : /\ phase = IF lis THEN "enter" ELSE "serial"
                             /\ next = IF lis THEN 0 ELSE 1
    /\ step = {} /\ ready = {} /\ visited = {} /\ brPreds = {}
    /\ brStart = -1
    /\ cand = {} /\ issueOrs = NoBundle /\ beChanged = {} /\ si = 0

InitLIS ==
    /\ bb \in Blocks
    /\ edge \in Graphs[bb]
    /\ InitLISState

block == <<bb, edge>>
select == <<cand, issueOrs, beChanged, si>>
-----------------------------------------------------------------------------
(* schedule() *)

Preds(o, S) == {p \in S : DepsOf(p, o) # {}}

\* getDependentPreds: o and everything it transitively depends on.
AndDependentPreds(o) ==
    {p \in ORsOf : \A S \in SUBSET ORsOf : PredClosed(S) /\ o \in S => p \in S}

\* schedule(), up to RESCH: clone the graph, keep the branch out of it unless
\* its delay slots are scheduled too.
EnterSchedule ==
    /\ phase = "enter"
    /\ step' = ORsOf \ {Left}
    /\ brPreds' = IF IsScheduleDelaySlot THEN AndDependentPreds(Br) ELSE {}
    /\ phase' = "ready"
    /\ UNCHANGED <<block, simvars, ready, visited, brStart, next, select>>

\* computeReadyList: the roots not visited yet become ready, the NOPs among
\* them leave the graph; once more if a NOP that left had an edge.
ComputeReadyList ==
    /\ phase = "ready"
    /\ LET roots == {o \in step \ visited : Preds(o, step) = {}}
           nops  == {o \in roots : bb[o].nop}
           redo  == \E o \in nops : \E p \in step : DepsOf(o, p) # {}
       IN  /\ ready' = ready \cup (roots \ nops)
           /\ visited' = visited \cup (roots \ nops)
           /\ step' = step \ nops
           /\ phase' = IF redo THEN "ready" ELSE "fill"
    /\ UNCHANGED <<block, simvars, brPreds, brStart, next, select>>

\* isIssueCand: the branch waits for the cycle rescheduling gave it, and any
\* OR waits for the results it depends on.
IsIssueCand(o) ==
    /\ ~(IsScheduleDelaySlot /\ o = Br /\ brStart # -1 /\ brStart > cyc)
    /\ CanBeIssued(o)

\* Mutants: the loop ends with ORs left in the graph, or executing.
LoopEndsEarly == phase = "fill" /\ DoLis /\ SimDone
LoopEndsExecuting == phase = "fill" /\ DoLis /\ step = {}

\* The condition of schedule()'s loop.
LoopEnds == phase = "fill" /\ DoLis /\ step = {} /\ SimDone

\* fillIssueSlot, up to tryIssueCandList.
FillIssueSlot ==
    /\ phase = "fill"
    /\ ~LoopEnds
    /\ cand' = {o \in ready : IsIssueCand(o)}
    /\ issueOrs' = NoBundle
    /\ beChanged' = {}
    /\ si' = 0
    /\ phase' = "select"
    /\ UNCHANGED <<block, simvars, step, ready, visited, brPreds, brStart, next>>

Selecting == phase \in {"select", "selectLeft"}

\* makeIssued: the candidate's function unit serves the slot and is free, or
\* the candidate can be moved to the slot (changeSlot).
CanMakeIssued(o) ==
    \/ orSlot[o] = si /\ issueOrs[si] = 0
    \/ ChangeSlot /\ si \in bb[o].slots

ValidCands == {o \in cand : CanMakeIssued(o)}

\* selectBestOR and selectBestORByPriority: the predecessors of the branch
\* first if its delay slots are scheduled, then the longest shadow; get_slack
\* of m_ddg, whose start cycles nothing computes, is 0 for every OR.  Ties go
\* to the smallest OR id, which is not the position in the block.
BestORs(valid) ==
    LET pool == IF IsScheduleDelaySlot /\ valid \cap brPreds # {}
                THEN valid \cap brPreds ELSE valid
    IN  {o \in pool : \A p \in pool : Shadow(p) <= Shadow(o)}

\* selectIssueOR: every candidate that passes has been moved to the slot, the
\* best one is chosen for it.
SelectIssueOR ==
    /\ Selecting
    /\ si < SlotNum /\ cand # {}
    /\ ValidCands # {}
    /\ \E best \in BestORs(ValidCands) :
         /\ issueOrs' = [issueOrs EXCEPT ![si] = best]
         /\ cand' = cand \ {best}
    /\ orSlot' = [o \in ORsOf |-> IF o \in ValidCands THEN si ELSE orSlot[o]]
    /\ si' = si + 1
    /\ UNCHANGED <<block, cyc, slotLst, execTab, phase, step, ready, visited,
                   brPreds, brStart, next, beChanged>>

\* The slots whose OR rollBackORs can move to the slot being filled.
Movable == {i \in Slot \ beChanged :
                issueOrs[i] # 0 /\ si \in bb[issueOrs[i]].slots}

\* Mutant: a slot nothing suits and nothing can be moved to is tried for ever.
RollBackORsNoAdvance ==
    /\ Selecting
    /\ si < SlotNum /\ cand # {}
    /\ ValidCands = {}
    /\ ChangeSlot
    /\ \E i \in Movable :
         /\ \A m \in Movable : i <= m
         /\ orSlot' = [orSlot EXCEPT ![issueOrs[i]] = si]
         /\ issueOrs' = [issueOrs EXCEPT ![si] = issueOrs[i], ![i] = 0]
         /\ beChanged' = beChanged \cup {si}
         /\ si' = i
    /\ UNCHANGED <<block, cyc, slotLst, execTab, phase, step, ready, visited,
                   brPreds, brStart, next, cand>>

\* Mutant: the OR that is moved stays in its old slot too.
RollBackORsCopies ==
    /\ Selecting
    /\ si < SlotNum /\ cand # {}
    /\ ValidCands = {}
    /\ IF ChangeSlot /\ Movable # {}
       THEN \E i \in Movable :
              /\ \A m \in Movable : i <= m
              /\ orSlot' = [orSlot EXCEPT ![issueOrs[i]] = si]
              /\ issueOrs' = [issueOrs EXCEPT ![si] = issueOrs[i]]
              /\ beChanged' = beChanged \cup {si}
              /\ si' = i
       ELSE /\ si' = si + 1
            /\ UNCHANGED <<orSlot, issueOrs, beChanged>>
    /\ UNCHANGED <<block, cyc, slotLst, execTab, phase, step, ready, visited,
                   brPreds, brStart, next, cand>>

\* Mutant: the bound of the slots is not looked at.
RollBackORsNoBound ==
    /\ Selecting
    /\ cand # {}
    /\ ValidCands = {}
    /\ si' = si + 1
    /\ UNCHANGED <<block, simvars, phase, step, ready, visited, brPreds, brStart,
                   next, cand, issueOrs, beChanged>>

\* selectIssueORs when no candidate suits the slot: rollBackORs moves an OR
\* already chosen to it and its old slot is filled again, or the slot stays
\* as it is.  Its assertion that the slot is empty is SlotFree below.
RollBackORs ==
    /\ Selecting
    /\ si < SlotNum /\ cand # {}
    /\ ValidCands = {}
    /\ IF ChangeSlot /\ Movable # {}
       THEN \E i \in Movable :
              /\ \A m \in Movable : i <= m
              /\ orSlot' = [orSlot EXCEPT ![issueOrs[i]] = si]
              /\ issueOrs' = [issueOrs EXCEPT ![si] = issueOrs[i], ![i] = 0]
              /\ beChanged' = beChanged \cup {si}
              /\ si' = i
       ELSE /\ si' = si + 1
            /\ UNCHANGED <<orSlot, issueOrs, beChanged>>
    /\ UNCHANGED <<block, cyc, slotLst, execTab, phase, step, ready, visited,
                   brPreds, brStart, next, cand>>

BundleORs == {issueOrs[s] : s \in Slot} \ {0}

\* Mutant: the in-degree of a successor is not counted.
NewlyReadyAnyPred ==
    {o \in step \ BundleORs : Preds(o, step) \cap BundleORs # {}}

\* updateReadyList and removeOR for the ORs of the bundle: a successor becomes
\* ready when its last predecessor in the graph is removed.
NewlyReady ==
    {o \in step \ BundleORs :
        Preds(o, step) # {} /\ Preds(o, step) \subseteq BundleORs}

\* The ready list once the bundle is issued (m_ready_list.remove).
ReadyAfter == (ready \ BundleORs) \cup NewlyReady

\* The caller of tryIssueCandList goes on: the loop of schedule(), its end, or
\* serialize(), which calls again until something was issued.
PhaseAfter ==
    CASE phase = "selectLeft" -> "check"
      [] DoLis /\ phase = "select" -> "fill"
      [] OTHER -> IF BundleORs = {} THEN "fill" ELSE "serial"

\* The rest of tryIssueCandList: issue the bundle and run a cycle.
TryIssueCandList ==
    /\ Selecting
    /\ si = SlotNum \/ cand = {}
    /\ IssueAndRun(issueOrs)
    /\ brStart' = IF IsScheduleDelaySlot /\ Br \in BundleORs THEN cyc ELSE brStart
    /\ IF DoLis /\ phase = "select"
       THEN /\ ready' = ReadyAfter
            /\ visited' = visited \cup NewlyReady
            /\ step' = step \ BundleORs
       ELSE /\ ready' = ready \ BundleORs
            /\ UNCHANGED <<visited, step>>
    /\ phase' = PhaseAfter
    /\ UNCHANGED <<block, orSlot, brPreds, next, select>>

\* The end of schedule()'s loop: a branch that was kept out is issued last,
\* without asking isIssueCand.
IssueLeft ==
    /\ LoopEnds
    /\ IF Left # 0
       THEN /\ cand' = {Left}
            /\ issueOrs' = NoBundle
            /\ beChanged' = {}
            /\ si' = 0
            /\ phase' = "selectLeft"
       ELSE /\ phase' = "check"
            /\ UNCHANGED select
    /\ UNCHANGED <<block, simvars, step, ready, visited, brPreds, brStart, next>>

EndCyc == cyc - 1

\* The branch would leave the block too early.  The code accepts an OR that
\* delivers br_latency cycles after the start of the branch, one more than the
\* branch takes.
NeedReschedule == IsScheduleDelaySlot /\ brStart < EndCyc - bb[Br].last

\* The cycle the next attempt gives the branch: br_latency cycles before the
\* end (max_try is br_latency, the addend 0).
NewBrStart == IF EndCyc - brStart > bb[Br].last THEN EndCyc - bb[Br].last
              ELSE brStart + 1

Reschedule ==
    /\ phase = "check"
    /\ NeedReschedule
    /\ brStart' = NewBrStart
    /\ step' = ORsOf
    /\ ready' = {} /\ visited' = {}
    /\ Reset
    /\ phase' = "ready"
    /\ UNCHANGED <<block, orSlot, brPreds, next, select>>

EndSchedule ==
    /\ phase = "check"
    /\ ~NeedReschedule
    /\ phase' = "done"
    /\ UNCHANGED <<block, simvars, step, ready, visited, brPreds, brStart, next,
                   select>>
-----------------------------------------------------------------------------
(* serialize() *)

\* The next OR of the list is the only one ready; fillIssueSlot is called
\* until it has been issued.
SerializeNext ==
    /\ phase = "serial"
    /\ next <= Len(bb)
    /\ ready' = ready \cup {next}
    /\ next' = next + 1
    /\ phase' = "fill"
    /\ UNCHANGED <<block, simvars, step, visited, brPreds, brStart, select>>

\* Pad \in Int: the cycles of the delay slots nothing fills.
Pad == IF IsScheduleDelaySlot THEN brStart + bb[Br].last - 1 - EndCyc ELSE 0

Serialized == phase = "serial" /\ next > Len(bb)

EndSerialize ==
    /\ Serialized
    /\ RunCycles(IF Pad > 0 THEN Pad ELSE 0)
    /\ phase' = "done"
    /\ UNCHANGED <<block, execTab, orSlot, step, ready, visited, brPreds, brStart,
                   next, select>>

NextLIS ==
    \/ EnterSchedule \/ ComputeReadyList \/ FillIssueSlot
    \/ SelectIssueOR \/ RollBackORs \/ TryIssueCandList
    \/ IssueLeft \/ Reschedule \/ EndSchedule
    \/ SerializeNext \/ EndSerialize

SpecLIS == InitLIS /\ [][NextLIS]_vars /\ WF_vars(NextLIS)
-----------------------------------------------------------------------------
(* Properties *)

TypeOKLIS ==
    /\ bb \in Blocks /\ edge \in Graphs[bb]
    /\ cyc \in Nat
    /\ slotLst \subseteq [slot : Slot, or : ORsOf, start : Nat]
    /\ execTab \subseteq [slot : Slot, or : ORsOf, cyc : Nat]
    /\ orSlot \in [ORsOf -> Slot]
    /\ phase \in {"enter", "ready", "fill", "select", "selectLeft", "check",
                  "serial", "done"}
    /\ step \subseteq ORsOf /\ ready \subseteq ORsOf /\ visited \subseteq ORsOf
    /\ brPreds \subseteq ORsOf
    /\ brStart \in Int
    /\ next \in 0 .. Len(bb) + 1
    /\ cand \subseteq ORsOf
    /\ issueOrs \in [Slot -> ORsOf \cup {0}]
    /\ beChanged \subseteq Slot
    /\ si \in 0 .. SlotNum

\* The ready list never holds an OR that waits for another, and misses none
\* that does not: between two cycles it is exactly the set of the graph's
\* roots, so no OR is forgotten and none is issued early.
ReadyIsRoots ==
    DoLis /\ phase \in {"fill", "select"} =>
        ready = {o \in step : Preds(o, step) = {}}

\* An OR of the execution table comes strictly after every OR it depends on,
\* through any number of cycles, bundles and reschedules.
DependencesKept ==
    DoLis => \A e \in edge : \A y \in execTab : y.or = e.to =>
        \/ bb[e.from].nop
        \/ \E x \in execTab : x.or = e.from /\ x.cyc < y.cyc

\* When the block is scheduled nothing of it is lost: every OR but the NOPs
\* schedule() drops is in the execution table.
NothingLost ==
    phase = "done" => \A o \in ORsOf : o \in IssuedORs \/ (DoLis /\ bb[o].nop)

\* An OR that reads a result is issued when that result is available, and
\* one that overwrites a result comes after the write it overwrites has
\* landed (the flags excepted on ARM): canBeIssued, asked for the ORs still
\* executing only, is enough.
ResultsAvailable ==
    \A x, y \in execTab : LandedBy(x.or, y.or, x.cyc, y.cyc)

\* Without delay slots the branch is alone in the last cycle, and everything
\* else has delivered its results by then.
BranchLast ==
    DoLis /\ Left # 0 /\ phase = "done" =>
        \A x \in execTab : x.or = Left =>
            \A y \in execTab : y.or # Left => y.cyc + bb[y.or].last <= x.cyc

\* A slot about to be filled is empty, however often rollBackORs went back: no
\* OR chosen is overwritten by updateIssueORs, and the assertion rollBackORs
\* starts with (or_lis.cpp:290) is never reached with an OR in the slot.
SlotFree == Selecting /\ si < SlotNum /\ cand # {} => issueOrs[si] = 0

\* schedule() and serialize() return: no cycle waits for ever for a
\* candidate, the rollback of slots ends, and so does rescheduling.
Terminates == <>(phase = "done")

\* Both implement the abstract scheduler: each step of theirs gives a bundle
\* its cycle as IssueOrder permits, starts again, or is invisible.
When == [o \in ORsOf |-> IF o \in IssuedORs
                         THEN (CHOOSE x \in execTab : x.or = o).cyc ELSE -1]
Abstract == INSTANCE IssueOrder WITH now <- cyc, when <- When
ImplementsIssueOrder == Abstract!Spec
=============================================================================
