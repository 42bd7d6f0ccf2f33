----------------------------- MODULE LISProofs -----------------------------
(***************************************************************************)
(* Proofs about the list scheduler: the type invariant, and that an OR is  *)
(* scheduled after everything it depends on, for every block, every        *)
(* acyclic graph, every number of slots and every mode.                    *)
(***************************************************************************)
EXTENDS LIS, TLAPS

\* The graph, from the constants or from DDG: its edges go forward.
GraphOK ==
    /\ edge \subseteq [from : ORsOf, to : ORsOf, dep : DepType]
    /\ \A e \in edge : e.from < e.to

\* TypeOKLIS but for the origin of the graph.
StateOK ==
    /\ bb \in Blocks
    /\ cyc \in Nat
    /\ slotLst \subseteq [slot : Slot, or : ORsOf, start : Nat]
    /\ execTab \subseteq [slot : Slot, or : ORsOf, cyc : Nat]
    /\ orSlot \in [ORsOf -> Slot]
    /\ phase \in {"enter", "ready", "fill", "select", "selectLeft", "check",
                  "serial", "done"}
    /\ step \subseteq ORsOf /\ ready \subseteq ORsOf /\ visited \subseteq ORsOf
    /\ brPreds \subseteq ORsOf
    /\ brStart \in Int
    /\ next \in 0 .. Len(bb) + 1
    /\ phase = "serial" => next # 0
    /\ cand \subseteq ORsOf
    /\ issueOrs \in [Slot -> ORsOf \cup {0}]
    /\ beChanged \subseteq Slot
    /\ si \in 0 .. SlotNum
-----------------------------------------------------------------------------
(* The block and its branch. *)

LEMMA BlockType ==
    ASSUME NEW b \in Blocks
    PROVE  /\ b \in Seq(OR)
           /\ Len(b) \in Nat
           /\ \A i \in 1 .. Len(b) : b[i] \in OR /\ (b[i].br => i = Len(b))
  BY BlocksAssumption DEF BlocksAssumptionOf

LEMMA ORType ==
    ASSUME bb \in Blocks, NEW o \in ORsOf
    PROVE  o \in Nat /\ o # 0 /\ bb[o] \in OR /\ bb[o].last \in Nat /\ bb[o].slot \in Slot
  <1>1. o \in Nat /\ o # 0 /\ bb[o] \in OR
    BY BlockType DEF ORsOf
  <1>2. QED
    BY <1>1, SlotAssumption DEF OR, ORsOf

\* get_br() finds the only branch, the last OR.
LEMMA BrType ==
    ASSUME bb \in Blocks
    PROVE  /\ Br \in ORsOf \cup {0}
           /\ Br # 0 => Br = Len(bb)
  <1> DEFINE brs == {o \in ORsOf : bb[o].br}
  <1>1. \A o \in brs : o = Len(bb)
    BY BlockType DEF ORsOf
  <1>2. CASE brs = {}
    BY <1>2 DEF Br
  <1>3. CASE brs # {}
    <2>1. Len(bb) \in brs /\ \A p \in brs : p <= Len(bb)
      BY <1>1, <1>3, BlockType
    <2>2. (CHOOSE o \in brs : \A p \in brs : p <= o) \in brs
      BY <2>1
    <2>3. Br \in brs
      BY <1>3, <2>2 DEF Br
    <2>4. QED
      BY <1>1, <2>3
  <1>4. QED
    BY <1>2, <1>3

LEMMA LeftType ==
    ASSUME bb \in Blocks
    PROVE  /\ Left \in ORsOf \cup {0}
           /\ Left # 0 => Left = Br /\ Left = Len(bb)
           /\ IsScheduleDelaySlot => Br \in ORsOf
  BY BrType DEF Left, IsScheduleDelaySlot
-----------------------------------------------------------------------------
(* Type correctness. *)

LEMMA SlotType == 0 .. SlotNum - 1 = Slot /\ SlotNum \in Nat \ {0}
  BY SimAssumption DEF Slot


LEMMA BundleType ==
    ASSUME StateOK
    PROVE  BundleORs \subseteq ORsOf /\ NewlyReady \subseteq ORsOf
  BY DEF StateOK, BundleORs, NewlyReady

LEMMA InitType == InitLISState /\ bb \in Blocks => StateOK
  <1> SUFFICES ASSUME InitLISState, bb \in Blocks PROVE StateOK
    OBVIOUS
  <1>1. orSlot \in [ORsOf -> Slot]
    BY ORType DEF InitLISState, InitSim
  <1>2. issueOrs \in [Slot -> ORsOf \cup {0}]
    BY DEF InitLISState, NoBundle
  <1>3. next \in 0 .. Len(bb) + 1
    BY BlockType DEF InitLISState
  <1>4. QED
    BY <1>1, <1>2, <1>3, SimAssumption DEF InitLISState, InitSim, StateOK

\* The bundle's ORs enter the tables in slots of the target.
LEMMA IssueType ==
    ASSUME StateOK, IssueAndRun(issueOrs)
    PROVE  /\ cyc' \in Nat
           /\ slotLst' \subseteq [slot : Slot, or : ORsOf, start : Nat]
           /\ execTab' \subseteq [slot : Slot, or : ORsOf, cyc : Nat]
  <1> DEFINE taken == UNION {{<<t, issueOrs[s]>> : t \in OccupiedSlots(issueOrs[s])}
                                : s \in {u \in Slot : issueOrs[u] # 0}}
  <1>1. \A x \in taken : x[1] \in Slot /\ x[2] \in ORsOf
    BY DEF StateOK, OccupiedSlots
  <1>2. /\ execTab' = execTab \cup {Cell(x[1], x[2], cyc) : x \in taken}
        /\ slotLst' \subseteq slotLst \cup {Desc(x[1], x[2], cyc) : x \in taken}
        /\ cyc' = cyc + 1
    BY DEF IssueAndRun
  <1> HIDE DEF taken
  <1>3. QED
    BY <1>1, <1>2 DEF StateOK, Cell, Desc

LEMMA TryIssueType == ASSUME StateOK, TryIssueCandList PROVE StateOK'
  <1>1. /\ cyc' \in Nat
        /\ slotLst' \subseteq [slot : Slot, or : ORsOf, start : Nat]
        /\ execTab' \subseteq [slot : Slot, or : ORsOf, cyc : Nat]
    BY IssueType DEF TryIssueCandList
  <1>2. ready' \subseteq ORsOf /\ visited' \subseteq ORsOf /\ step' \subseteq ORsOf
    BY BundleType DEF StateOK, TryIssueCandList, ReadyAfter
  <1>3. brStart' \in Int
    BY DEF StateOK, TryIssueCandList
  <1>4. phase' \in {"fill", "check", "serial"}
    BY DEF TryIssueCandList, PhaseAfter
  <1>7. phase' = "serial" => ~DoLis
    BY DEF TryIssueCandList, PhaseAfter, Selecting
  <1>5. /\ bb' = bb /\ orSlot' = orSlot /\ brPreds' = brPreds /\ next' = next
        /\ cand' = cand /\ issueOrs' = issueOrs /\ beChanged' = beChanged /\ si' = si
    BY DEF TryIssueCandList, block, select
  <1>6. QED
    BY <1>1, <1>2, <1>3, <1>4, <1>5, <1>7 DEF StateOK, ORsOf, DoLis

LEMMA SelectType == ASSUME StateOK, SelectIssueOR PROVE StateOK'
  <1>1. si \in Slot /\ si + 1 \in 0 .. SlotNum
    BY SlotType DEF StateOK, SelectIssueOR
  <1>2. PICK best \in ValidCands :
           issueOrs' = [issueOrs EXCEPT ![si] = best] /\ cand' = cand \ {best}
    BY DEF SelectIssueOR, BestORs
  <1>3. best \in ORsOf
    BY DEF ValidCands, StateOK
  <1>4. orSlot' = [o \in ORsOf |-> IF o \in ValidCands THEN si ELSE orSlot[o]]
    BY DEF SelectIssueOR
  <1>5. orSlot' \in [ORsOf -> Slot]
    BY <1>1, <1>4 DEF StateOK
  <1>6. issueOrs' \in [Slot -> ORsOf \cup {0}]
    BY <1>2, <1>3 DEF StateOK
  <1>7. QED
    BY <1>1, <1>2, <1>5, <1>6
       DEF StateOK, SelectIssueOR, block, ORsOf

LEMMA RollBackType == ASSUME StateOK, RollBackORs PROVE StateOK'
  <1>1. si \in Slot /\ si + 1 \in 0 .. SlotNum
    BY SlotType DEF StateOK, RollBackORs
  <1>2. CASE ChangeSlot /\ Movable # {}
    <2>1. PICK i \in Movable :
             /\ orSlot' = [orSlot EXCEPT ![issueOrs[i]] = si]
             /\ issueOrs' = [issueOrs EXCEPT ![si] = issueOrs[i], ![i] = 0]
             /\ beChanged' = beChanged \cup {si}
             /\ si' = i
      BY <1>2 DEF RollBackORs
    <2>2. i \in Slot /\ i \in 0 .. SlotNum /\ issueOrs[i] \in ORsOf
      BY SlotType DEF Movable, StateOK
    <2>3. orSlot' \in [ORsOf -> Slot]
      BY <1>1, <2>1, <2>2, SlotType DEF StateOK
    <2>4. issueOrs' \in [Slot -> ORsOf \cup {0}]
      BY <2>1, <2>2 DEF StateOK
    <2>5. QED
      BY <1>1, <2>1, <2>2, <2>3, <2>4
         DEF StateOK, RollBackORs, block, ORsOf
  <1>3. CASE ~(ChangeSlot /\ Movable # {})
    BY <1>1, <1>3 DEF StateOK, RollBackORs, block, ORsOf
  <1>4. QED
    BY <1>2, <1>3

\* The actions that fill the candidates and those that leave the bundle alone.
LEMMA FillType ==
    ASSUME StateOK, FillIssueSlot \/ IssueLeft PROVE StateOK'
  <1>1. NoBundle \in [Slot -> ORsOf \cup {0}]
    BY DEF NoBundle
  <1>2. 0 \in 0 .. SlotNum
    BY SimAssumption
  <1>3. CASE FillIssueSlot
    BY <1>1, <1>2, <1>3
       DEF FillIssueSlot, StateOK, block, simvars, ORsOf
  <1>4. CASE IssueLeft /\ Left # 0
    BY <1>1, <1>2, <1>4, LeftType
       DEF IssueLeft, StateOK, block, simvars, ORsOf
  <1>5. CASE IssueLeft /\ Left = 0
    BY <1>5 DEF IssueLeft, StateOK, block, simvars, select, ORsOf
  <1>6. QED
    BY <1>3, <1>4, <1>5

LEMMA RescheduleType == ASSUME StateOK, Reschedule PROVE StateOK'
  <1>1. Br \in ORsOf /\ bb[Br].last \in Nat
    BY LeftType, ORType DEF StateOK, Reschedule, NeedReschedule
  <1>2. brStart' \in Int
    BY <1>1 DEF StateOK, Reschedule, NewBrStart, EndCyc
  <1>3. QED
    BY <1>2 DEF StateOK, Reschedule, Reset, block, select, ORsOf

LEMMA SerializeType ==
    ASSUME StateOK, SerializeNext \/ EndSerialize PROVE StateOK'
  <1>1. Len(bb) \in Nat
    BY BlockType DEF StateOK
  <1>2. CASE SerializeNext
    BY <1>1, <1>2
       DEF SerializeNext, StateOK, block, simvars, select, ORsOf
  <1>3. CASE EndSerialize
    <2>1. (IF Pad > 0 THEN Pad ELSE 0) \in Nat
      <3>1. CASE IsScheduleDelaySlot
        BY SMTT(30), <3>1, LeftType, ORType DEF StateOK, Pad, EndCyc
      <3>2. CASE ~IsScheduleDelaySlot
        BY <3>2 DEF Pad
      <3>3. QED
        BY <3>1, <3>2
    <2>2. cyc' \in Nat /\ slotLst' \subseteq slotLst
      BY <1>3, <2>1 DEF EndSerialize, RunCycles, StateOK
    <2>3. QED
      BY <1>3, <2>2
         DEF EndSerialize, StateOK, block, select, ORsOf
  <1>4. QED
    BY <1>2, <1>3

LEMMA EnterType ==
    ASSUME StateOK, EnterSchedule \/ ComputeReadyList \/ EndSchedule
    PROVE  StateOK'
  <1>1. CASE EnterSchedule
    <2>1. AndDependentPreds(Br) \subseteq ORsOf
      BY DEF AndDependentPreds
    <2>2. QED
      BY <1>1, <2>1
         DEF EnterSchedule, StateOK, block, simvars, select, ORsOf
  <1>2. CASE ComputeReadyList
    BY <1>2
       DEF ComputeReadyList, StateOK, block, simvars, select, ORsOf
  <1>3. CASE EndSchedule
    BY <1>3 DEF EndSchedule, StateOK, block, simvars, select, ORsOf
  <1>4. QED
    BY <1>1, <1>2, <1>3

LEMMA NextType == StateOK /\ [NextLIS]_vars => StateOK'
  <1> SUFFICES ASSUME StateOK, [NextLIS]_vars PROVE StateOK'
    OBVIOUS
  <1>1. CASE UNCHANGED vars
    BY <1>1 DEF vars, simvars, lisvars, StateOK, ORsOf
  <1>2. QED
    BY <1>1, EnterType, FillType, SelectType, RollBackType, TryIssueType,
       RescheduleType, SerializeType DEF NextLIS

\* A step never changes the mode: schedule() never becomes serialize().
LEMMA ModeStep == ASSUME StateOK, [NextLIS]_vars PROVE DoLis' <=> DoLis
  <1>1. next \in Nat /\ next' \in {next, next + 1}
    BY DEF StateOK, NextLIS, vars, lisvars, EnterSchedule, ComputeReadyList,
           FillIssueSlot, SelectIssueOR, RollBackORs, TryIssueCandList, IssueLeft,
           Reschedule, EndSchedule, SerializeNext, EndSerialize
  <1>2. next' = next + 1 => SerializeNext
    BY <1>1 DEF NextLIS, vars, lisvars, EnterSchedule, ComputeReadyList,
           FillIssueSlot, SelectIssueOR, RollBackORs, TryIssueCandList, IssueLeft,
           Reschedule, EndSchedule, EndSerialize
  <1>3. SerializeNext => next # 0
    BY DEF SerializeNext, StateOK
  <1>4. QED
    BY <1>1, <1>2, <1>3 DEF DoLis

\* A step never changes the block or the graph.
LEMMA GraphStep == ASSUME [NextLIS]_vars PROVE bb' = bb /\ edge' = edge
  BY DEF NextLIS, vars, EnterSchedule, ComputeReadyList, FillIssueSlot, SelectIssueOR,
         RollBackORs, TryIssueCandList, IssueLeft, Reschedule, EndSchedule,
         SerializeNext, EndSerialize, block

\* The scheduler's state is well formed in every mode: whatever is issued,
\* moved or rescheduled, the lists hold ORs of the block, the bundle fits the
\* slots and the slot being filled is one of the target's.
THEOREM TypeCorrect == SpecLIS => []TypeOKLIS
  <1> DEFINE I == StateOK /\ edge \in Graphs[bb]
  <1>1. InitLIS => I
    BY InitType DEF InitLIS
  <1>2. I /\ [NextLIS]_vars => I'
    BY NextType, GraphStep
  <1>3. I => TypeOKLIS
    BY DEF StateOK, TypeOKLIS
  <1>4. QED
    BY <1>1, <1>2, <1>3, PTL DEF SpecLIS
-----------------------------------------------------------------------------
(* The loop of schedule(). *)

Scheduled(o) == o \in IssuedORs \/ bb[o].nop
Root(o) == \A e \in edge : e.to = o => e.from \notin step

\* The ORs left in stepddg have not been issued and nothing outside waits for
\* them but the branch kept out; the ready list holds roots.
LoopInv ==
    /\ Left \notin step /\ Left \notin IssuedORs
    /\ step \cap IssuedORs = {}
    /\ \A e \in edge : e.from \in step => e.to \in step \cup {Left}
    /\ \A o \in ORsOf \ step : o = Left \/ Scheduled(o)
    /\ ready = visited \cap step
    /\ \A o \in ready : Root(o)

\* After the loop the branch kept out is the only candidate, and the slots
\* passed over are not the one it is assigned.
LastInv ==
    /\ Left # 0 /\ Left \notin IssuedORs
    /\ \A o \in ORsOf : o = Left \/ Scheduled(o)
    /\ cand \subseteq {Left} /\ BundleORs \subseteq {Left}
    /\ cand # {} => BundleORs = {} /\ si <= orSlot[Left]
    /\ cand = {} => BundleORs = {Left}

ScheduleInv ==
    /\ phase # "serial"
    /\ \A x \in execTab : x.cyc < cyc
    /\ phase = "enter" => execTab = {} /\ ready = {} /\ visited = {}
    /\ phase \in {"ready", "fill", "select"} => LoopInv
    /\ phase \in {"fill", "select"} => \A o \in step : Root(o) => o \in ready
    /\ phase = "select" => cand \subseteq ready /\ BundleORs \subseteq ready
    /\ phase = "selectLeft" => LastInv
    /\ phase \in {"check", "done"} => \A o \in ORsOf : Scheduled(o)
    /\ DependencesKept

\* The inductive invariant.
Inv ==
    /\ StateOK
    /\ GraphOK
    /\ DoLis => ScheduleInv

LEMMA RootPreds ==
    ASSUME NEW o
    PROVE  Preds(o, step) = {} <=> Root(o)
  BY DEF Preds, DepsOf, Root

\* An edge never leaves the branch kept out, the last OR.
LEMMA LeftIsLast ==
    ASSUME StateOK, GraphOK, NEW e \in edge
    PROVE  e.from # Left /\ e.from \in ORsOf /\ e.to \in ORsOf /\ Len(bb) \in Nat
  <1>1. e.from \in ORsOf /\ e.to \in ORsOf /\ e.from < e.to
    BY DEF GraphOK
  <1>2. Left # 0 => Left = Len(bb)
    BY LeftType DEF StateOK
  <1>3. Len(bb) \in Nat
    BY BlockType DEF StateOK
  <1>4. QED
    BY <1>1, <1>2, <1>3 DEF ORsOf

\* What issuing a bundle adds to the execution table.
LEMMA IssueCells ==
    ASSUME StateOK, IssueAndRun(issueOrs)
    PROVE  /\ cyc' = cyc + 1
           /\ execTab \subseteq execTab'
           /\ \A x \in execTab' : x \in execTab \/ (x.or \in BundleORs /\ x.cyc = cyc)
           /\ IssuedORs' = IssuedORs \cup BundleORs
  <1> DEFINE issued == {u \in Slot : issueOrs[u] # 0}
             taken == UNION {{<<t, issueOrs[s]>> : t \in OccupiedSlots(issueOrs[s])}
                                : s \in issued}
  <1>1. \A x \in taken : x[2] \in BundleORs
    BY DEF BundleORs
  <1>2. \A o \in BundleORs : \E x \in taken : x[2] = o
    <2> SUFFICES ASSUME NEW o \in BundleORs PROVE \E x \in taken : x[2] = o
      OBVIOUS
    <2>1. PICK s \in issued : issueOrs[s] = o
      BY DEF BundleORs
    <2>2. \E t : t \in OccupiedSlots(o)
      BY SlotType DEF OccupiedSlots
    <2>3. PICK t : t \in OccupiedSlots(o)
      BY <2>2
    <2>4. <<t, o>> \in taken
      BY <2>1, <2>3
    <2>5. QED
      BY <2>4
  <1>3. execTab' = execTab \cup {Cell(x[1], x[2], cyc) : x \in taken} /\ cyc' = cyc + 1
    BY DEF IssueAndRun
  <1> HIDE DEF taken, issued
  <1>4. \A x \in execTab' : x \in execTab \/ (x.or \in BundleORs /\ x.cyc = cyc)
    BY <1>1, <1>3 DEF Cell
  <1>5. ASSUME NEW o \in BundleORs PROVE \E x \in execTab' : x.or = o
    <2>1. PICK x \in taken : x[2] = o
      BY <1>2
    <2>2. Cell(x[1], x[2], cyc) \in execTab' /\ Cell(x[1], x[2], cyc).or = o
      BY <1>3, <2>1 DEF Cell
    <2>3. QED
      BY <2>2
  <1>6. IssuedORs' = IssuedORs \cup BundleORs
    BY <1>3, <1>4, <1>5 DEF IssuedORs
  <1>7. QED
    BY <1>3, <1>4, <1>6

\* The dependences of the bundle's ORs have been issued in earlier cycles.
LEMMA IssueKeepsDependences ==
    ASSUME Inv, DoLis, TryIssueCandList
    PROVE  DependencesKept'
  <1>1. StateOK /\ ScheduleInv /\ GraphOK /\ DependencesKept
    BY DEF Inv, ScheduleInv
  <1>2. IssueAndRun(issueOrs) /\ bb' = bb /\ edge' = edge
    BY DEF TryIssueCandList, block
  <1>3. SUFFICES ASSUME NEW e \in edge, NEW y \in execTab', y.or = e.to, ~bb[e.from].nop
                 PROVE  \E x \in execTab' : x.or = e.from /\ x.cyc < y.cyc
    BY <1>2 DEF DependencesKept
  <1>4. CASE y \in execTab
    BY <1>1, <1>2, <1>3, <1>4, IssueCells DEF DependencesKept
  <1>5. CASE y.or \in BundleORs /\ y.cyc = cyc
    <2>1. e.from \in ORsOf /\ e.from # Left
      BY <1>1, LeftIsLast
    <2>2. CASE phase = "select"
      <3>1. e.from \notin step
        BY <1>1, <1>3, <1>5, <2>2 DEF ScheduleInv, LoopInv, Root
      <3>2. e.from \in IssuedORs
        BY <1>1, <1>3, <2>1, <2>2, <3>1 DEF ScheduleInv, LoopInv, Scheduled
      <3>3. QED
        BY <1>1, <1>2, <1>5, <3>2, IssueCells DEF ScheduleInv, IssuedORs
    <2>3. CASE phase = "selectLeft"
      <3>1. e.from \in IssuedORs
        BY <1>1, <1>3, <2>1, <2>3 DEF ScheduleInv, LastInv, Scheduled
      <3>2. QED
        BY <1>1, <1>2, <1>5, <3>1, IssueCells DEF ScheduleInv, IssuedORs
    <2>4. QED
      BY <2>2, <2>3 DEF TryIssueCandList, Selecting
  <1>6. QED
    BY <1>1, <1>2, <1>4, <1>5, IssueCells

\* The bundle's ORs leave stepddg and the ready list, the roots they uncover
\* enter the ready list.
LEMMA IssueKeepsLoop ==
    ASSUME Inv, DoLis, TryIssueCandList, phase = "select"
    PROVE  /\ LoopInv'
           /\ \A o \in step' : Root(o)' => o \in ready'
           /\ phase' = "fill"
  <1>1. StateOK /\ GraphOK /\ LoopInv /\ BundleORs \subseteq ready
          /\ \A o \in step : Root(o) => o \in ready
    BY DEF Inv, ScheduleInv
  <1>2. /\ bb' = bb /\ edge' = edge /\ IssueAndRun(issueOrs) /\ phase' = "fill"
        /\ ready' = ReadyAfter /\ visited' = visited \cup NewlyReady
        /\ step' = step \ BundleORs
    BY DEF TryIssueCandList, block, PhaseAfter
  <1>3. IssuedORs' = IssuedORs \cup BundleORs /\ Left' = Left /\ ORsOf' = ORsOf
    BY <1>1, <1>2, IssueCells DEF Left, IsScheduleDelaySlot, Br, ORsOf
  <1>4. BundleORs \subseteq step /\ \A o \in BundleORs : Root(o)
    BY <1>1 DEF LoopInv
  <1>5. \A o : o \in NewlyReady <=>
               o \in step \ BundleORs /\ ~Root(o) /\
               \A e \in edge : e.to = o /\ e.from \in step => e.from \in BundleORs
    BY DEF NewlyReady, Preds, DepsOf, Root
  <1>6. \A o \in step' : Root(o)' <=>
               \A e \in edge : e.to = o /\ e.from \in step => e.from \in BundleORs
    BY <1>2 DEF Root
  <1>7. Left' \notin step' /\ Left' \notin IssuedORs' /\ step' \cap IssuedORs' = {}
    BY <1>1, <1>2, <1>3, <1>4 DEF LoopInv
  <1>8. \A e \in edge' : e.from \in step' => e.to \in step' \cup {Left'}
    BY <1>1, <1>2, <1>3, <1>4 DEF LoopInv, Root
  <1>9. \A o \in ORsOf' \ step' : o = Left' \/ Scheduled(o)'
    BY <1>1, <1>2, <1>3 DEF LoopInv, Scheduled
  <1>10. ready' = visited' \cap step'
    BY <1>1, <1>2, <1>5 DEF LoopInv, ReadyAfter
  <1>11. \A o \in ready' : Root(o)'
    <2> SUFFICES ASSUME NEW o \in ready' PROVE Root(o)'
      OBVIOUS
    <2>1. CASE o \in NewlyReady
      BY <1>2, <1>5, <1>6, <2>1
    <2>2. CASE o \in ready \ BundleORs
      BY <1>1, <1>2, <1>6, <2>2 DEF LoopInv, Root
    <2>3. QED
      BY <1>2, <2>1, <2>2 DEF ReadyAfter
  <1>12. \A o \in step' : Root(o)' => o \in ready'
    BY <1>1, <1>2, <1>5, <1>6 DEF ReadyAfter
  <1>13. QED
    BY <1>2, <1>7, <1>8, <1>9, <1>10, <1>11, <1>12 DEF LoopInv

LEMMA TryIssueInv == ASSUME Inv, DoLis, TryIssueCandList PROVE ScheduleInv'
  <1>1. StateOK /\ GraphOK /\ ScheduleInv
    BY DEF Inv
  <1>2. /\ bb' = bb /\ edge' = edge /\ IssueAndRun(issueOrs) /\ phase' = PhaseAfter
        /\ phase \in {"select", "selectLeft"}
    BY DEF TryIssueCandList, block, Selecting
  <1>3. \A x \in execTab' : x.cyc < cyc'
    BY <1>1, <1>2, IssueCells DEF ScheduleInv, StateOK
  <1>4. DependencesKept'
    BY IssueKeepsDependences
  <1>5. CASE phase = "select"
    BY <1>3, <1>4, <1>5, IssueKeepsLoop DEF ScheduleInv
  <1>6. CASE phase = "selectLeft"
    <2>1. LastInv
      BY <1>1, <1>6 DEF ScheduleInv
    <2>2. BundleORs = {Left}
      <3>1. CASE cand = {}
        BY <2>1, <3>1 DEF LastInv
      <3>2. CASE cand # {}
        <4>1. si = SlotNum /\ si <= orSlot[Left]
          BY <2>1, <3>2 DEF TryIssueCandList, LastInv
        <4>2. orSlot[Left] \in Slot
          BY <1>1, <2>1, LeftType DEF StateOK, LastInv
        <4>3. QED
          BY <4>1, <4>2, SlotType
      <3>3. QED
        BY <3>1, <3>2
    <2>3. IssuedORs' = IssuedORs \cup {Left}
      BY <1>1, <1>2, <2>2, IssueCells
    <2>4. \A o \in ORsOf' : Scheduled(o)'
      BY <1>2, <2>1, <2>3 DEF LastInv, Scheduled, ORsOf
    <2>5. phase' = "check"
      BY <1>2, <1>6 DEF PhaseAfter
    <2>6. QED
      BY <1>3, <1>4, <2>4, <2>5 DEF ScheduleInv
  <1>7. QED
    BY <1>2, <1>5, <1>6

\* What does not change when neither the block nor the execution table does.
LEMMA Frame ==
    ASSUME ScheduleInv, DoLis, bb' = bb, edge' = edge, cyc' = cyc, execTab' = execTab
    PROVE  /\ Left' = Left /\ IssuedORs' = IssuedORs /\ ORsOf' = ORsOf
           /\ \A o : Scheduled(o)' <=> Scheduled(o)
           /\ \A x \in execTab' : x.cyc < cyc'
           /\ DependencesKept'
  BY DEF ScheduleInv, Left, IsScheduleDelaySlot, Br, IssuedORs, Scheduled, ORsOf,
         DependencesKept

LEMMA EnterInv == ASSUME Inv, DoLis, EnterSchedule PROVE ScheduleInv'
  <1>1. /\ bb' = bb /\ edge' = edge /\ cyc' = cyc /\ execTab' = execTab /\ phase = "enter"
        /\ phase' = "ready" /\ step' = ORsOf \ {Left} /\ ready' = ready /\ visited' = visited
    BY DEF EnterSchedule, block, simvars
  <1>2. ScheduleInv /\ GraphOK /\ StateOK /\ execTab = {} /\ ready = {} /\ visited = {}
    BY <1>1 DEF Inv, ScheduleInv
  <1>3. IssuedORs = {}
    BY <1>2 DEF IssuedORs
  <1>4. \A e \in edge : e.to \in ORsOf
    BY <1>2 DEF GraphOK
  <1>5. LoopInv'
    BY <1>1, <1>2, <1>3, <1>4, Frame DEF LoopInv
  <1>6. QED
    BY <1>1, <1>2, <1>5, Frame DEF ScheduleInv

LEMMA ReadyListInv == ASSUME Inv, DoLis, ComputeReadyList PROVE ScheduleInv'
  <1> DEFINE roots == {o \in step \ visited : Preds(o, step) = {}}
             nops == {o \in roots : bb[o].nop}
             redo == \E o \in nops : \E p \in step : DepsOf(o, p) # {}
  <1>1. /\ bb' = bb /\ edge' = edge /\ cyc' = cyc /\ execTab' = execTab /\ phase = "ready"
        /\ ready' = ready \cup (roots \ nops) /\ visited' = visited \cup (roots \ nops)
        /\ step' = step \ nops /\ phase' = IF redo THEN "ready" ELSE "fill"
    BY DEF ComputeReadyList, block, simvars
  <1>2. ScheduleInv /\ GraphOK /\ StateOK /\ LoopInv
    BY <1>1 DEF Inv, ScheduleInv
  <1>3. \A o \in step : o \in roots <=> o \notin visited /\ Root(o)
    BY RootPreds
  <1>4. nops \subseteq roots /\ roots \subseteq step /\ \A o \in nops : bb[o].nop
    OBVIOUS
  <1>5. ~redo => \A e \in edge : e.from \in nops => e.to \notin step
    BY DEF DepsOf
  <1> HIDE DEF roots, nops, redo
  <1>6. \A o : Root(o) => Root(o)'
    BY <1>1 DEF Root
  <1>7. LoopInv'
    <2>1. Left' \notin step' /\ Left' \notin IssuedORs' /\ step' \cap IssuedORs' = {}
      BY <1>1, <1>2, Frame DEF LoopInv
    <2>2. \A e \in edge' : e.from \in step' => e.to \in step' \cup {Left'}
      BY <1>1, <1>2, <1>3, <1>4, Frame DEF LoopInv, Root
    <2>3. \A o \in ORsOf' \ step' : o = Left' \/ Scheduled(o)'
      BY <1>1, <1>2, <1>4, Frame DEF LoopInv, Scheduled
    <2>4. ready' = visited' \cap step'
      BY <1>1, <1>2, <1>3, <1>4 DEF LoopInv
    <2>5. \A o \in ready' : Root(o)'
      BY <1>1, <1>2, <1>3, <1>4, <1>6 DEF LoopInv
    <2>6. QED
      BY <2>1, <2>2, <2>3, <2>4, <2>5 DEF LoopInv
  <1>8. ASSUME ~redo, NEW o \in step', Root(o)' PROVE o \in ready'
    <2>1. Root(o)
      BY <1>1, <1>5, <1>8 DEF Root
    <2>2. QED
      BY <1>1, <1>2, <1>3, <1>8, <2>1 DEF LoopInv
  <1>9. QED
    BY <1>1, <1>2, <1>7, <1>8, Frame DEF ScheduleInv

LEMMA FillInv == ASSUME Inv, DoLis, FillIssueSlot PROVE ScheduleInv'
  <1>1. /\ bb' = bb /\ edge' = edge /\ cyc' = cyc /\ execTab' = execTab
        /\ step' = step /\ ready' = ready /\ visited' = visited
        /\ phase = "fill" /\ phase' = "select" /\ issueOrs' = NoBundle /\ cand' \subseteq ready
    BY DEF FillIssueSlot, block, simvars
  <1>2. ScheduleInv /\ LoopInv
    BY <1>1 DEF Inv, ScheduleInv
  <1>3. LoopInv' /\ \A o \in step' : Root(o)' => o \in ready'
    BY <1>1, <1>2, Frame DEF LoopInv, Root, ScheduleInv
  <1>4. BundleORs' = {}
    BY <1>1 DEF BundleORs, NoBundle
  <1>5. QED
    BY <1>1, <1>2, <1>3, <1>4, Frame DEF ScheduleInv

LEMMA SelectInv == ASSUME Inv, DoLis, SelectIssueOR PROVE ScheduleInv'
  <1>1. /\ bb' = bb /\ edge' = edge /\ cyc' = cyc /\ execTab' = execTab
        /\ step' = step /\ ready' = ready /\ visited' = visited
        /\ phase' = phase /\ phase \in {"select", "selectLeft"}
    BY DEF SelectIssueOR, block, Selecting
  <1>2. PICK best \in cand :
           issueOrs' = [issueOrs EXCEPT ![si] = best] /\ cand' = cand \ {best}
    BY DEF SelectIssueOR, BestORs, ValidCands
  <1>3. ScheduleInv /\ StateOK
    BY DEF Inv
  <1>4. si \in Slot /\ best \in ORsOf /\ best # 0
    BY <1>2, <1>3, SlotType, ORType DEF StateOK, SelectIssueOR
  <1>5. BundleORs' \subseteq BundleORs \cup {best} /\ best \in BundleORs'
    BY <1>2, <1>3, <1>4 DEF BundleORs, StateOK
  <1>6. CASE phase = "select"
    <2>1. LoopInv' /\ \A o \in step' : Root(o)' => o \in ready'
      BY <1>1, <1>3, <1>6, Frame DEF LoopInv, Root, ScheduleInv
    <2>2. cand' \subseteq ready' /\ BundleORs' \subseteq ready'
      BY <1>1, <1>2, <1>3, <1>5, <1>6 DEF ScheduleInv
    <2>3. QED
      BY <1>1, <1>3, <1>6, <2>1, <2>2, Frame DEF ScheduleInv
  <1>7. CASE phase = "selectLeft"
    <2>1. LastInv
      BY <1>3, <1>7 DEF ScheduleInv
    <2>2. cand = {Left} /\ best = Left
      BY <1>2, <2>1 DEF LastInv
    <2>3. cand' = {} /\ BundleORs' = {Left}
      BY <1>2, <1>5, <2>1, <2>2 DEF LastInv
    <2>4. LastInv'
      BY <1>1, <1>3, <2>1, <2>3, Frame DEF LastInv
    <2>5. QED
      BY <1>1, <1>3, <1>7, <2>4, Frame DEF ScheduleInv
  <1>8. QED
    BY <1>1, <1>6, <1>7

LEMMA RollBackInv == ASSUME Inv, DoLis, RollBackORs PROVE ScheduleInv'
  <1>1. /\ bb' = bb /\ edge' = edge /\ cyc' = cyc /\ execTab' = execTab
        /\ step' = step /\ ready' = ready /\ visited' = visited /\ cand' = cand
        /\ phase' = phase /\ phase \in {"select", "selectLeft"}
        /\ cand # {} /\ ValidCands = {}
    BY DEF RollBackORs, block, Selecting
  <1>2. ScheduleInv /\ StateOK
    BY DEF Inv
  <1>3. si \in Slot
    BY <1>2, SlotType DEF StateOK, RollBackORs
  <1>4. BundleORs' \subseteq BundleORs
    BY <1>2, <1>3 DEF RollBackORs, Movable, BundleORs, StateOK
  <1>5. CASE phase = "select"
    <2>1. LoopInv' /\ \A o \in step' : Root(o)' => o \in ready'
      BY <1>1, <1>2, <1>5, Frame DEF LoopInv, Root, ScheduleInv
    <2>2. cand' \subseteq ready' /\ BundleORs' \subseteq ready'
      BY <1>1, <1>2, <1>4, <1>5 DEF ScheduleInv
    <2>3. QED
      BY <1>1, <1>2, <1>5, <2>1, <2>2, Frame DEF ScheduleInv
  <1>6. CASE phase = "selectLeft"
    <2>1. LastInv /\ cand = {Left} /\ BundleORs = {}
      BY <1>1, <1>2, <1>6 DEF ScheduleInv, LastInv
    <2>2. \A s \in Slot : issueOrs[s] = 0
      BY <2>1 DEF BundleORs
    <2>3. Movable = {}
      BY <2>2 DEF Movable
    <2>4. orSlot' = orSlot /\ si' = si + 1
      BY <2>3 DEF RollBackORs
    <2>5. orSlot[Left] # si
      BY <1>1, <1>3, <2>1, <2>2 DEF ValidCands, CanMakeIssued
    <2>6. orSlot[Left] \in Slot
      BY <1>2, <2>1, LeftType DEF StateOK, LastInv
    <2>7. si' <= orSlot'[Left]
      BY <1>1, <1>3, <2>1, <2>4, <2>5, <2>6, SimAssumption DEF LastInv, Slot
    <2>8. LastInv'
      BY <1>1, <1>2, <1>4, <2>1, <2>7, Frame DEF LastInv
    <2>9. QED
      BY <1>1, <1>2, <1>6, <2>8, Frame DEF ScheduleInv
  <1>7. QED
    BY <1>1, <1>5, <1>6

LEMMA IssueLeftInv == ASSUME Inv, DoLis, IssueLeft PROVE ScheduleInv'
  <1>1. /\ bb' = bb /\ edge' = edge /\ cyc' = cyc /\ execTab' = execTab /\ orSlot' = orSlot
        /\ phase = "fill" /\ step = {}
    BY DEF IssueLeft, LoopEnds, block, simvars
  <1>2. ScheduleInv /\ StateOK /\ LoopInv
    BY <1>1 DEF Inv, ScheduleInv
  <1>3. \A o \in ORsOf : o = Left \/ Scheduled(o)
    BY <1>1, <1>2 DEF LoopInv
  <1>4. CASE Left # 0
    <2>1. phase' = "selectLeft" /\ cand' = {Left} /\ issueOrs' = NoBundle /\ si' = 0
      BY <1>4 DEF IssueLeft
    <2>2. BundleORs' = {}
      BY <2>1 DEF BundleORs, NoBundle
    <2>3. orSlot[Left] \in Slot
      BY <1>2, <1>4, LeftType DEF StateOK
    <2>4. LastInv'
      BY <1>1, <1>2, <1>3, <1>4, <2>1, <2>2, <2>3, Frame DEF LastInv, LoopInv, Slot
    <2>5. QED
      BY <1>1, <1>2, <2>1, <2>4, Frame DEF ScheduleInv
  <1>5. CASE Left = 0
    <2>1. phase' = "check"
      BY <1>5 DEF IssueLeft
    <2>2. \A o \in ORsOf' : Scheduled(o)'
      BY <1>1, <1>2, <1>3, <1>5, Frame, ORType DEF StateOK
    <2>3. QED
      BY <1>1, <1>2, <2>1, <2>2, Frame DEF ScheduleInv
  <1>6. QED
    BY <1>4, <1>5

LEMMA RescheduleInv == ASSUME Inv, DoLis, Reschedule PROVE ScheduleInv'
  <1>1. /\ bb' = bb /\ edge' = edge /\ cyc' = 0 /\ execTab' = {} /\ phase' = "ready"
        /\ step' = ORsOf /\ ready' = {} /\ visited' = {} /\ IsScheduleDelaySlot
    BY DEF Reschedule, Reset, block, NeedReschedule
  <1>2. StateOK /\ GraphOK
    BY DEF Inv
  <1>3. Left' = 0 /\ ORsOf' = ORsOf /\ 0 \notin ORsOf
    BY <1>1, <1>2, ORType DEF Left, IsScheduleDelaySlot, Br, ORsOf, StateOK
  <1>4. IssuedORs' = {}
    BY <1>1 DEF IssuedORs
  <1>5. LoopInv'
    BY <1>1, <1>2, <1>3, <1>4 DEF LoopInv, GraphOK
  <1>6. QED
    BY <1>1, <1>5 DEF ScheduleInv, DependencesKept

LEMMA EndInv == ASSUME Inv, DoLis, EndSchedule PROVE ScheduleInv'
  <1>1. /\ bb' = bb /\ edge' = edge /\ cyc' = cyc /\ execTab' = execTab
        /\ phase = "check" /\ phase' = "done"
    BY DEF EndSchedule, block, simvars
  <1>2. ScheduleInv
    BY DEF Inv
  <1>3. QED
    BY <1>1, <1>2, Frame DEF ScheduleInv

LEMMA NextInv == Inv /\ [NextLIS]_vars => Inv'
  <1> SUFFICES ASSUME Inv, [NextLIS]_vars PROVE Inv'
    OBVIOUS
  <1>1. StateOK' /\ GraphOK'
    BY NextType, GraphStep DEF Inv, GraphOK, ORsOf
  <1>2. ASSUME DoLis PROVE ScheduleInv'
    <2>1. ~SerializeNext /\ ~EndSerialize
      BY <1>2 DEF Inv, ScheduleInv, SerializeNext, EndSerialize, Serialized
    <2>2. ASSUME UNCHANGED vars PROVE ScheduleInv'
      <3>1. /\ bb' = bb /\ edge' = edge /\ cyc' = cyc /\ execTab' = execTab
            /\ orSlot' = orSlot /\ phase' = phase /\ step' = step /\ ready' = ready
            /\ visited' = visited /\ cand' = cand /\ issueOrs' = issueOrs /\ si' = si
        BY <2>2 DEF vars, simvars, lisvars
      <3>2. ScheduleInv
        BY <1>2 DEF Inv
      <3>3. BundleORs' = BundleORs
        BY <3>1 DEF BundleORs
      <3>4. QED
        BY <1>2, <3>1, <3>2, <3>3, Frame DEF ScheduleInv, LoopInv, LastInv, Root
    <2>3. QED
      BY <1>2, <2>1, <2>2, EnterInv, ReadyListInv, FillInv, SelectInv, RollBackInv,
         TryIssueInv, IssueLeftInv, RescheduleInv, EndInv DEF NextLIS
  <1>3. DoLis' => DoLis
    BY ModeStep DEF Inv
  <1>4. QED
    BY <1>1, <1>2, <1>3 DEF Inv

LEMMA InitInv == InitLIS => Inv
  <1> SUFFICES ASSUME InitLIS PROVE Inv
    OBVIOUS
  <1>1. StateOK
    BY InitType DEF InitLIS
  <1>2. GraphOK
    BY GraphsAssumption DEF InitLIS, GraphOK, ORsOf
  <1>3. ASSUME DoLis PROVE ScheduleInv
    BY <1>3, ModeAssumption DEF DoLis, InitLIS, InitLISState, InitSim, ScheduleInv, DependencesKept
  <1>4. QED
    BY <1>1, <1>2, <1>3 DEF Inv

LEMMA Invariance == SpecLIS => []Inv
  BY InitInv, NextInv, PTL DEF SpecLIS
-----------------------------------------------------------------------------
(* The theorems. *)

\* An OR is scheduled in a later cycle than everything it depends on, the NOPs
\* schedule() drops excepted.
THEOREM DependencesAreKept == SpecLIS => []DependencesKept
  <1>1. Inv => DependencesKept
    BY DEF Inv, ScheduleInv, DependencesKept
  <1>2. QED
    BY <1>1, Invariance, PTL

\* Between two cycles the ready list is the set of the roots of stepddg.
THEOREM ReadyListIsRoots == SpecLIS => []ReadyIsRoots
  <1>1. Inv => ReadyIsRoots
    BY RootPreds DEF Inv, ScheduleInv, LoopInv, ReadyIsRoots
  <1>2. QED
    BY <1>1, Invariance, PTL

\* schedule() returns only when every OR but the NOPs has been issued: no
\* branch is left in a slot it cannot use.
THEOREM ScheduleIsComplete ==
    SpecLIS => [](DoLis => NothingLost)
  <1>1. Inv => (DoLis => NothingLost)
    BY DEF Inv, ScheduleInv, Scheduled, NothingLost
  <1>2. QED
    BY <1>1, Invariance, PTL
=============================================================================
