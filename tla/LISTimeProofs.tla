--------------------------- MODULE LISTimeProofs ---------------------------
(***************************************************************************)
(* Proofs about the cycles the list scheduler gives: results are available *)
(* when they are read, the branch ends the block, nothing is lost in       *)
(* either mode, and the scheduler implements IssueOrder.                   *)
(*                                                                         *)
(* canBeIssued asks only about the ORs still executing.  The argument is   *)
(* that an OR that left slot_lst has delivered everything (Executing), so  *)
(* asking is enough, and that nothing chosen in a cycle changes the answer *)
(* before the bundle is issued (Candidates).                               *)
(***************************************************************************)
EXTENDS LISProofs, FiniteSetTheorems, WellFoundedInduction

\* An OR of the execution table was issued in an earlier cycle, and while its
\* last result is not available it is in slot_lst.
Executing ==
    \A x \in execTab :
        /\ x.cyc < cyc
        /\ cyc < x.cyc + bb[x.or].last => Desc(x.slot, x.or, x.cyc) \in slotLst

\* An OR that takes several slots takes them in one cycle.
OneCycle == \A x, y \in execTab : x.or = y.or => x.cyc = y.cyc

\* What was asked of a candidate is still true of the bundle.
Candidates == phase = "select" => \A o \in cand \cup BundleORs : CanBeIssued(o)

HybridOnMemory ==
    \A e \in edge : e.dep = "HYB" =>
        DepsOf(e.from, e.to) = {"HYB"} \/ IsMem(bb[e.from])

\* serialize() issues the ORs one by one, in program order.
SerialInv ==
    /\ phase \in {"serial", "fill", "select", "done"}
    /\ \A x, y \in execTab : x.or < y.or => x.cyc < y.cyc
    /\ phase = "serial" => ready = {} /\ IssuedORs = 1 .. next - 1
    /\ phase \in {"fill", "select"} =>
          next >= 2 /\ ready = {next - 1} /\ IssuedORs = 1 .. next - 2
    /\ phase = "select" => cand \subseteq ready /\ BundleORs \subseteq ready
    /\ phase = "done" => IssuedORs = ORsOf

\* schedule()'s loop ends with nothing executing; the branch kept out is issued
\* then.
BranchInv ==
    /\ phase = "selectLeft" => slotLst = {} /\ Left # 0
    /\ Left # 0 /\ phase \in {"check", "done"} =>
          \A x, y \in execTab : x.or = Left /\ y.or # Left =>
              y.cyc + bb[y.or].last <= x.cyc

TimeInv ==
    /\ Executing
    /\ OneCycle
    /\ Candidates
    /\ ResultsAvailable
    /\ ~DoLis => SerialInv
    /\ DoLis => BranchInv
-----------------------------------------------------------------------------
(* The simulator. *)

LEMMA LeastNatural ==
    ASSUME NEW S \in SUBSET Nat, S # {} PROVE \E i \in S : \A j \in S : i <= j
<1>1. PICK i \in S : \A j \in S : ~(<<j, i>> \in OpToRel(<, Nat))
  BY NatLessThanWellFounded, WFMin
<1>2. \A j \in S : ~(j < i)
  BY <1>1 DEF OpToRel
<1> QED
  BY <1>2

LEMMA WellFormed ==
    ASSUME bb \in Blocks, NEW o \in ORsOf
    PROVE  WellFormedOR(bb[o]) /\ bb[o].last \in Nat \ {0}
           /\ Len(bb[o].res) \in Nat
           /\ \A i \in 1 .. Len(bb[o].res) : bb[o].avail[i] \in Nat
<1>1. bb[o] \in OR /\ WellFormedOR(bb[o])
  BY BlocksAssumption DEF BlocksAssumptionOf, ORsOf
<1>2. /\ bb[o].last \in Nat \ {0} /\ bb[o].res \in Seq(SR) /\ bb[o].avail \in Seq(Nat)
  BY <1>1 DEF OR
<1>3. Len(bb[o].avail) = Len(bb[o].res)
  BY <1>1 DEF WellFormedOR
<1> QED
  BY <1>1, <1>2, <1>3

\* An OR all of whose results are available lets any OR follow.
LEMMA LandedLate ==
    ASSUME StateOK, NEW c \in ORsOf, NEW o \in ORsOf, NEW s \in Nat, NEW t \in Nat,
           t >= s + bb[c].last
    PROVE  LandedBy(c, o, s, t)
<1> SUFFICES ASSUME NEW i \in 1 .. Len(bb[c].res) PROVE t >= s + bb[c].avail[i]
  BY DEF LandedBy
<1>1. /\ WellFormedOR(bb[c]) /\ bb[c].last \in Nat /\ bb[c].avail[i] \in Nat
  BY WellFormed DEF StateOK
<1>2. bb[c].avail[i] <= bb[c].last
  BY <1>1 DEF WellFormedOR
<1> QED
  BY <1>1, <1>2

\* A memory OR's results come together, so the hybrid edge's single cycle is the
\* cycle of all of them.
LEMMA MemoryAvail ==
    ASSUME StateOK, NEW c \in ORsOf, NEW o \in ORsOf, IsMem(bb[c])
    PROVE  DependentAvail(c, o) = bb[c].last
<1> DEFINE read == {i \in 1 .. Len(bb[c].res) : bb[c].res[i] \in bb[o].opnd}
           k == CHOOSE i \in read : \A j \in read : i <= j
<1>1. WellFormedOR(bb[c]) /\ Len(bb[c].res) \in Nat
  BY WellFormed DEF StateOK
<1>2. CASE read = {}
  BY <1>2 DEF DependentAvail
<1>3. CASE read # {}
  <2>1. \E i \in read : \A j \in read : i <= j
    <3>1. read \in SUBSET Nat
      OBVIOUS
    <3> QED
      BY <3>1, <1>3, LeastNatural
  <2>2. k \in read
    BY <2>1
  <2>3. bb[c].avail[k] = bb[c].last
    BY <1>1, <2>2 DEF WellFormedOR
  <2>4. DependentAvail(c, o) = bb[c].avail[k]
    BY <1>3 DEF DependentAvail
  <2> QED
    BY <2>3, <2>4
<1> QED
  BY <1>2, <1>3

\* canBeIssued is enough: what it does not ask about has left slot_lst, and so
\* has delivered its results.
LEMMA CanBeIssuedIsEnough ==
    ASSUME StateOK, HybridOnMemory, Executing, NEW x \in execTab, NEW o \in ORsOf,
           CanBeIssued(o)
    PROVE  LandedBy(x.or, o, x.cyc, cyc)
<1>1. x.slot \in Slot /\ x.or \in ORsOf /\ x.cyc \in Nat /\ cyc \in Nat /\ x.cyc < cyc
  BY DEF StateOK, Executing
<1>2. bb[x.or].last \in Nat \ {0}
  BY <1>1, WellFormed DEF StateOK
<1>3. CASE cyc >= x.cyc + bb[x.or].last
  BY <1>1, <1>3, LandedLate
<1>4. CASE cyc < x.cyc + bb[x.or].last
  <2> DEFINE d == Desc(x.slot, x.or, x.cyc)
  <2>1. d \in slotLst /\ d.or = x.or /\ d.start = x.cyc
    BY <1>4 DEF Executing, Desc
  <2>2. Shadow(d.or) # 0
    BY <1>1, <1>2, <1>4, <2>1 DEF Shadow
  <2>3. DepsOf(x.or, o) # {} => ~ResourceConflict(d, o)
    BY <2>1, <2>2 DEF CanBeIssued
  <2> HIDE DEF d
  <2>4. SUFFICES ASSUME NEW i \in 1 .. Len(bb[x.or].res),
                        \/ "REG_FLOW" \in DepsOf(x.or, o) /\ MustUse(bb[o], bb[x.or].res[i])
                        \/ /\ "REG_OUT" \in DepsOf(x.or, o)
                           /\ bb[x.or].res[i] # Rflag
                           /\ MustDef(bb[o], bb[x.or].res[i])
                 PROVE  cyc >= x.cyc + bb[x.or].avail[i]
    BY DEF LandedBy
  <2>5. /\ bb[x.or].avail[i] \in Nat /\ bb[x.or].avail[i] <= bb[x.or].last
    BY <1>1, WellFormed DEF StateOK, WellFormedOR
  <2>6. CASE "HYB" \in DepsOf(x.or, o)
    <3>1. PICK e \in edge : e.from = x.or /\ e.to = o /\ e.dep = "HYB"
      BY <2>6 DEF DepsOf
    <3>2. IsMem(bb[x.or])
      <4>1. DepsOf(x.or, o) # {"HYB"}
        BY <2>4
      <4> QED
        BY <3>1, <4>1 DEF HybridOnMemory
    <3>3. DependentAvail(x.or, o) = bb[x.or].last
      BY <1>1, <3>2, MemoryAvail
    <3>4. ~(cyc < x.cyc + bb[x.or].last)
      BY <2>1, <2>3, <2>6, <3>3 DEF ResourceConflict
    <3> QED
      BY <1>4, <3>4
  <2>7. CASE "HYB" \notin DepsOf(x.or, o)
    <3>1. ~RegResourceConflict(DepsOf(x.or, o), d, o)
      BY <2>1, <2>3, <2>4, <2>7 DEF ResourceConflict
    <3>2. CASE ArmTarget
      BY <1>1, <2>1, <2>4, <2>5, <3>1, <3>2 DEF RegResourceConflict
    <3>3. CASE ~ArmTarget
      <4>1. ~(cyc < x.cyc + bb[x.or].last)
        BY <2>1, <2>4, <3>1, <3>3 DEF RegResourceConflict, BaseRegConflict
      <4> QED
        BY <1>4, <4>1
    <3> QED
      BY <3>2, <3>3
  <2> QED
    BY <2>6, <2>7
<1> QED
  BY <1>1, <1>2, <1>3, <1>4

\* Issuing a bundle keeps every OR that executes in slot_lst, the new ones too.
LEMMA IssueExecuting ==
    ASSUME StateOK, Executing, IssueAndRun(issueOrs), bb' = bb
    PROVE  Executing'
<1> DEFINE taken == UNION {{<<t, issueOrs[s]>> : t \in OccupiedSlots(issueOrs[s])}
                              : s \in {u \in Slot : issueOrs[u] # 0}}
           execs == slotLst \cup {Desc(p[1], p[2], cyc) : p \in taken}
<1>1. /\ execTab' = execTab \cup {Cell(p[1], p[2], cyc) : p \in taken}
      /\ slotLst' = {d \in execs : cyc + 1 < d.start + bb[d.or].last}
      /\ cyc' = cyc + 1
  BY DEF IssueAndRun
<1> HIDE DEF taken
<1>2. SUFFICES ASSUME NEW x \in execTab'
               PROVE  /\ x.cyc < cyc + 1
                      /\ cyc + 1 < x.cyc + bb[x.or].last =>
                           Desc(x.slot, x.or, x.cyc) \in slotLst'
  BY <1>1 DEF Executing
<1>3. cyc \in Nat
  BY DEF StateOK
<1>4. CASE x \in execTab
  <2>1. x.cyc \in Nat /\ x.or \in ORsOf /\ bb[x.or].last \in Nat
    BY <1>4, WellFormed DEF StateOK
  <2>2. ASSUME cyc + 1 < x.cyc + bb[x.or].last
        PROVE  Desc(x.slot, x.or, x.cyc) \in slotLst'
    <3>1. Desc(x.slot, x.or, x.cyc) \in slotLst
      BY <1>3, <1>4, <2>1, <2>2 DEF Executing
    <3>2. Desc(x.slot, x.or, x.cyc) \in execs
      BY <3>1
    <3>3. /\ Desc(x.slot, x.or, x.cyc).start = x.cyc
          /\ Desc(x.slot, x.or, x.cyc).or = x.or
      BY DEF Desc
    <3> QED
      BY <1>1, <2>2, <3>2, <3>3
  <2> QED
    BY <1>3, <1>4, <2>1, <2>2 DEF Executing
<1>5. CASE x \notin execTab
  <2>1. PICK p \in taken : x = Cell(p[1], p[2], cyc)
    BY <1>1, <1>5
  <2>2. x.slot = p[1] /\ x.or = p[2] /\ x.cyc = cyc
    BY <2>1 DEF Cell
  <2>3. Desc(x.slot, x.or, x.cyc) \in execs
    BY <2>2
  <2>4. /\ Desc(x.slot, x.or, x.cyc).start = x.cyc /\ Desc(x.slot, x.or, x.cyc).or = x.or
    BY DEF Desc
  <2>5. cyc + 1 < x.cyc + bb[x.or].last => Desc(x.slot, x.or, x.cyc) \in slotLst'
    BY <1>1, <2>3, <2>4
  <2> QED
    BY <1>3, <2>2, <2>5
<1> QED
  BY <1>4, <1>5
-----------------------------------------------------------------------------
(* Actions that issue nothing. *)

\* The simulator is left alone.
Quiet == bb' = bb /\ edge' = edge /\ cyc' = cyc /\ slotLst' = slotLst /\ execTab' = execTab

LEMMA QuietKeeps ==
    ASSUME Executing, OneCycle, ResultsAvailable, Quiet
    PROVE  /\ Executing' /\ OneCycle' /\ ResultsAvailable'
           /\ IssuedORs' = IssuedORs /\ ORsOf' = ORsOf
           /\ Br' = Br /\ Left' = Left /\ IsScheduleDelaySlot' = IsScheduleDelaySlot
           /\ EndCyc' = EndCyc
<1> USE DEF Quiet
<1>1. Executing' /\ OneCycle'
  BY DEF Executing, OneCycle
<1>2. ResultsAvailable'
  BY SMTT(30) DEF ResultsAvailable, LandedBy, DepsOf, MustUse, MustDef
<1> QED
  BY <1>1, <1>2 DEF IssuedORs, ORsOf, Br, Left, IsScheduleDelaySlot, EndCyc

\* Nothing canBeIssued asks about changes while a bundle is chosen: slots move,
\* but a stack adjustment's slots are all of them and asking looks at no slot.
LEMMA QuietIssuable ==
    ASSUME Quiet, NEW o PROVE CanBeIssued(o)' <=> CanBeIssued(o)
BY DEF Quiet, CanBeIssued, Shadow, InShadow, DepsOf, ResourceConflict, DependentAvail,
       RegResourceConflict, BaseRegConflict, MemResourceConflict, BaseMemConflict,
       MemResultLate
-----------------------------------------------------------------------------
(* The bundle issued. *)

\* The ORs of a bundle were not issued before; what they depend on was, with
\* its results available, and nothing issued depends on them.
LEMMA BundleFresh ==
    ASSUME Inv, HybridOnMemory, TimeInv, TryIssueCandList
    PROVE  /\ BundleORs \subseteq ORsOf /\ BundleORs \cap IssuedORs = {}
           /\ \A o \in BundleORs : \A x \in execTab : LandedBy(x.or, o, x.cyc, cyc)
           /\ \A e \in edge : e.to \in BundleORs =>
                 e.from \notin BundleORs /\ Scheduled(e.from)
           /\ \A e \in edge : e.from \in BundleORs => e.to \notin IssuedORs
<1>1. StateOK /\ GraphOK /\ phase \in {"select", "selectLeft"} /\ BundleORs \subseteq ORsOf
  BY BundleType DEF Inv, TryIssueCandList, Selecting
<1>2. CASE phase = "select" /\ DoLis
  <2>1. LoopInv /\ BundleORs \subseteq ready
    BY <1>2 DEF Inv, ScheduleInv
  <2>2. BundleORs \subseteq step /\ \A o \in BundleORs : Root(o)
    BY <2>1 DEF LoopInv
  <2>3. \A o \in BundleORs : \A x \in execTab : LandedBy(x.or, o, x.cyc, cyc)
    BY <1>1, <1>2, CanBeIssuedIsEnough DEF TimeInv, Candidates
  <2>4. \A e \in edge : e.to \in BundleORs => e.from \notin step /\ Scheduled(e.from)
    BY <1>1, <2>1, <2>2, LeftIsLast DEF LoopInv, Root
  <2>5. \A e \in edge : e.from \in BundleORs => e.to \notin IssuedORs
    BY <2>1, <2>2 DEF LoopInv
  <2> QED
    BY <1>1, <2>1, <2>2, <2>3, <2>4, <2>5 DEF LoopInv
<1>3. CASE phase = "selectLeft"
  <2>0. DoLis
    BY <1>3 DEF TimeInv, SerialInv
  <2>1. LastInv /\ slotLst = {}
    BY <1>3, <2>0 DEF Inv, ScheduleInv, TimeInv, BranchInv
  <2>2. ASSUME NEW o \in BundleORs, NEW x \in execTab PROVE LandedBy(x.or, o, x.cyc, cyc)
    <3>1. x.or \in ORsOf /\ x.cyc \in Nat /\ cyc \in Nat /\ bb[x.or].last \in Nat
      BY <1>1, WellFormed DEF StateOK
    <3>2. ~(cyc < x.cyc + bb[x.or].last)
      BY <2>1 DEF TimeInv, Executing
    <3> QED
      BY <1>1, <3>1, <3>2, LandedLate
  <2> QED
    BY <1>1, <2>1, <2>2, LeftIsLast DEF LastInv
<1>4. CASE phase = "select" /\ ~DoLis
  <2>1. /\ BundleORs \subseteq {next - 1} /\ IssuedORs = 1 .. next - 2 /\ next \in Nat
    BY <1>1, <1>4 DEF TimeInv, SerialInv, StateOK
  <2>2. \A o \in BundleORs : \A x \in execTab : LandedBy(x.or, o, x.cyc, cyc)
    BY <1>1, <1>4, CanBeIssuedIsEnough DEF TimeInv, Candidates
  <2>3. \A e \in edge : e.from \in Nat /\ e.to \in Nat /\ e.from < e.to /\ 1 <= e.from
    BY <1>1, BlockType DEF GraphOK, ORsOf, StateOK
  <2>4. \A e \in edge : e.to \in BundleORs =>
            e.from \notin BundleORs /\ e.from \in IssuedORs
    BY <2>1, <2>3
  <2>5. \A e \in edge : e.from \in BundleORs => e.to \notin IssuedORs
    BY <2>1, <2>3
  <2> QED
    BY <1>1, <2>1, <2>2, <2>4, <2>5 DEF Scheduled
<1> QED
  BY <1>1, <1>2, <1>3, <1>4

\* Issuing the bundle keeps what is known of the cycles, in every phase.
LEMMA IssueTime ==
    ASSUME Inv, HybridOnMemory, TimeInv, TryIssueCandList
    PROVE  Executing' /\ OneCycle' /\ ResultsAvailable'
<1>1. /\ bb' = bb /\ edge' = edge /\ IssueAndRun(issueOrs) /\ StateOK
      /\ Executing /\ OneCycle /\ ResultsAvailable
  BY DEF TryIssueCandList, block, Inv, TimeInv
<1>2. Executing'
  BY <1>1, IssueExecuting
<1>3. \A x \in execTab' : x \in execTab \/ (x.or \in BundleORs /\ x.cyc = cyc)
  BY <1>1, IssueCells
<1>4. \A x \in execTab : x.or \notin BundleORs
  BY BundleFresh DEF IssuedORs
<1>5. OneCycle'
  BY <1>1, <1>3, <1>4 DEF OneCycle
<1>6. ASSUME NEW x \in execTab', NEW y \in execTab'
      PROVE  LandedBy(x.or, y.or, x.cyc, y.cyc)
  <2>1. CASE x \in execTab /\ y \in execTab
    BY <1>1, <2>1 DEF ResultsAvailable
  <2>2. CASE x \in execTab /\ y.or \in BundleORs /\ y.cyc = cyc
    BY <2>2, BundleFresh
  <2>3. CASE x.or \in BundleORs /\ y.or \in BundleORs
    <3>1. DepsOf(x.or, y.or) = {}
      BY <2>3, BundleFresh DEF DepsOf
    <3> QED
      BY <3>1 DEF LandedBy
  <2>4. CASE x.or \in BundleORs /\ y \in execTab
    <3>1. y.or \in IssuedORs
      BY <2>4 DEF IssuedORs
    <3>2. DepsOf(x.or, y.or) = {}
      BY <2>4, <3>1, BundleFresh DEF DepsOf
    <3> QED
      BY <3>2 DEF LandedBy
  <2> QED
    BY <1>3, <2>1, <2>2, <2>3, <2>4
<1>7. ResultsAvailable'
  BY ZenonT(30), <1>1, <1>6 DEF ResultsAvailable, LandedBy, DepsOf, MustUse, MustDef
<1> QED
  BY <1>2, <1>5, <1>7

\* serialize() issues the one OR that is ready, or tries again.
LEMMA IssueSerial ==
    ASSUME Inv, HybridOnMemory, TimeInv, TryIssueCandList, ~DoLis
    PROVE  SerialInv'
<1>1. /\ StateOK /\ SerialInv /\ Executing /\ IssueAndRun(issueOrs)
      /\ phase \in {"select", "selectLeft"} /\ next' = next
      /\ ready' = ready \ BundleORs /\ phase' = PhaseAfter
  BY DEF Inv, TimeInv, TryIssueCandList, Selecting, DoLis
<1>2. /\ phase = "select" /\ next \in Nat /\ next >= 2 /\ ready = {next - 1}
      /\ IssuedORs = 1 .. next - 2 /\ BundleORs \subseteq {next - 1}
  BY <1>1 DEF SerialInv, StateOK
<1>3. /\ IssuedORs' = IssuedORs \cup BundleORs /\ cyc' = cyc + 1
      /\ \A x \in execTab' : x \in execTab \/ (x.or \in BundleORs /\ x.cyc = cyc)
  BY <1>1, IssueCells
<1>4. ASSUME NEW x \in execTab', NEW y \in execTab', x.or < y.or PROVE x.cyc < y.cyc
  <2>1. CASE x \in execTab /\ y \in execTab
    BY <1>1, <1>4, <2>1 DEF SerialInv
  <2>2. CASE x \in execTab /\ y.or \in BundleORs /\ y.cyc = cyc
    BY <1>1, <2>2 DEF Executing
  <2>3. CASE x.or \in BundleORs /\ y.or \in BundleORs
    <3>1. x.or = next - 1 /\ y.or = next - 1
      BY <1>2, <2>3
    <3>2. ~(next - 1 < next - 1)
      BY <1>2
    <3> QED
      BY <1>4, <3>1, <3>2
  <2>4. CASE x.or \in BundleORs /\ y \in execTab
    <3>1. y.or \in 1 .. next - 2 /\ x.or = next - 1
      BY <1>2, <2>4 DEF IssuedORs
    <3> QED
      BY <1>2, <1>4, <3>1
  <2> QED
    BY <1>3, <2>1, <2>2, <2>3, <2>4
<1>5. CASE BundleORs = {}
  BY <1>1, <1>2, <1>3, <1>4, <1>5 DEF PhaseAfter, SerialInv
<1>6. CASE BundleORs = {next - 1}
  <2>1. phase' = "serial" /\ ready' = {}
    BY <1>1, <1>2, <1>6 DEF PhaseAfter
  <2>2. IssuedORs' = 1 .. next' - 1
    BY <1>1, <1>2, <1>3, <1>6
  <2> QED
    BY <1>4, <2>1, <2>2 DEF SerialInv
<1> QED
  BY <1>2, <1>5, <1>6

\* The branch kept out is issued when everything has been delivered.
LEMMA IssueBranch ==
    ASSUME Inv, HybridOnMemory, TimeInv, TryIssueCandList, DoLis
    PROVE  BranchInv'
<1>1. /\ StateOK /\ BranchInv /\ Executing /\ IssueAndRun(issueOrs)
      /\ bb' = bb /\ phase \in {"select", "selectLeft"} /\ phase' = PhaseAfter
  BY DEF Inv, TimeInv, TryIssueCandList, Selecting, block
<1>2. Left' = Left
  BY <1>1 DEF Br, Left, IsScheduleDelaySlot, ORsOf
<1>3. \A x \in execTab' : x \in execTab \/ (x.or \in BundleORs /\ x.cyc = cyc)
  BY <1>1, IssueCells
<1>4. CASE phase = "select"
  <2>1. phase' = "fill"
    BY <1>1, <1>4 DEF PhaseAfter
  <2> QED
    BY <2>1 DEF BranchInv
<1>5. CASE phase = "selectLeft"
  <2>1. phase' = "check" /\ Left # 0 /\ slotLst = {}
    BY <1>1, <1>5 DEF PhaseAfter, BranchInv
  <2>2. BundleORs \subseteq {Left} /\ Left \notin IssuedORs
    BY <1>5 DEF Inv, ScheduleInv, LastInv
  <2>3. ASSUME NEW x \in execTab', NEW y \in execTab', x.or = Left, y.or # Left
        PROVE  y.cyc + bb[y.or].last <= x.cyc
    <3>1. x.cyc = cyc /\ y \in execTab
      BY <1>3, <2>2, <2>3 DEF IssuedORs
    <3>2. ~(cyc < y.cyc + bb[y.or].last)
      BY <1>1, <2>1, <3>1 DEF Executing
    <3>3. y.or \in ORsOf /\ y.cyc \in Nat /\ cyc \in Nat /\ bb[y.or].last \in Nat
      BY <1>1, <3>1, WellFormed DEF StateOK
    <3> QED
      BY <3>1, <3>2, <3>3
  <2> QED
    BY <1>1, <1>2, <2>1, <2>3 DEF BranchInv
<1> QED
  BY <1>1, <1>4, <1>5
-----------------------------------------------------------------------------
(* The other actions. *)

\* The actions that only choose what the next bundle is.
LEMMA ChooseTime ==
    ASSUME Inv, TimeInv, \/ EnterSchedule \/ ComputeReadyList \/ FillIssueSlot
                         \/ SelectIssueOR \/ RollBackORs \/ IssueLeft \/ EndSchedule
                         \/ SerializeNext
    PROVE  TimeInv'
<1>1. Quiet
  BY DEF EnterSchedule, ComputeReadyList, FillIssueSlot, SelectIssueOR, RollBackORs,
         IssueLeft, EndSchedule, SerializeNext, Quiet, block, simvars
<1>2. StateOK /\ Executing /\ OneCycle /\ ResultsAvailable
  BY DEF TimeInv, Inv
<1>3. /\ Executing' /\ OneCycle' /\ ResultsAvailable'
      /\ IssuedORs' = IssuedORs /\ ORsOf' = ORsOf
      /\ Br' = Br /\ Left' = Left /\ IsScheduleDelaySlot' = IsScheduleDelaySlot
      /\ EndCyc' = EndCyc
  BY <1>1, <1>2, QuietKeeps
<1>4. CASE EnterSchedule \/ ComputeReadyList
  <2>1. /\ phase \in {"enter", "ready"} /\ phase' \in {"ready", "fill"} /\ next' = next
    BY <1>4 DEF EnterSchedule, ComputeReadyList
  <2>2. DoLis /\ DoLis'
    BY <2>1 DEF TimeInv, SerialInv, DoLis
  <2> QED
    BY <1>1, <1>3, <2>1, <2>2 DEF TimeInv, Candidates, BranchInv, Quiet
<1>5. CASE FillIssueSlot
  <2>1. /\ phase = "fill" /\ phase' = "select" /\ next' = next /\ ready' = ready
        /\ cand' = {o \in ready : IsIssueCand(o)} /\ issueOrs' = NoBundle
    BY <1>5 DEF FillIssueSlot
  <2>2. BundleORs' = {}
    BY <2>1 DEF BundleORs, NoBundle
  <2>3. Candidates'
    BY <1>1, <2>1, <2>2, QuietIssuable DEF Candidates, IsIssueCand
  <2>4. DoLis' = DoLis
    BY <2>1 DEF DoLis
  <2>5. ~DoLis => SerialInv'
    BY <1>1, <1>3, <2>1, <2>2 DEF TimeInv, SerialInv, Quiet
  <2>6. DoLis => BranchInv'
    BY <1>1, <1>3, <2>1 DEF TimeInv, BranchInv, Quiet
  <2> QED
    BY <1>3, <2>3, <2>4, <2>5, <2>6 DEF TimeInv
<1>6. CASE SelectIssueOR \/ RollBackORs
  <2>1. /\ phase' = phase /\ next' = next /\ ready' = ready
        /\ phase \in {"select", "selectLeft"}
    BY <1>6 DEF SelectIssueOR, RollBackORs, Selecting
  <2>2. cand' \cup BundleORs' \subseteq cand \cup BundleORs
    <3>1. CASE SelectIssueOR
      <4>1. PICK best \in cand :
               issueOrs' = [issueOrs EXCEPT ![si] = best] /\ cand' = cand \ {best}
        BY <3>1 DEF SelectIssueOR, BestORs, ValidCands
      <4> QED
        BY <1>2, <4>1 DEF BundleORs, StateOK
    <3>2. CASE RollBackORs
      <4>1. BundleORs' \subseteq BundleORs /\ cand' = cand
        <5>1. si \in Slot
          BY <1>2, <3>2, SlotType DEF StateOK, RollBackORs
        <5>2. Slot' = Slot /\ cand' = cand /\ issueOrs \in [Slot -> ORsOf \cup {0}]
          BY <1>2, <3>2 DEF RollBackORs, StateOK, Slot
        <5>3. CASE issueOrs' = issueOrs
          BY <5>2, <5>3 DEF BundleORs
        <5>4. CASE \E i \in Slot :
                     issueOrs' = [issueOrs EXCEPT ![si] = issueOrs[i], ![i] = 0]
          <6>1. PICK i \in Slot :
                  issueOrs' = [issueOrs EXCEPT ![si] = issueOrs[i], ![i] = 0]
            BY <5>4
          <6>2. \A s \in Slot : issueOrs'[s] \in {issueOrs[s], issueOrs[i], 0}
            BY <5>1, <5>2, <6>1
          <6> QED
            BY <5>2, <6>2 DEF BundleORs
        <5>5. issueOrs' = issueOrs
              \/ \E i \in Slot : issueOrs' = [issueOrs EXCEPT ![si] = issueOrs[i], ![i] = 0]
          BY <3>2 DEF RollBackORs, Movable
        <5> QED
          BY <5>2, <5>3, <5>4, <5>5
      <4> QED
        BY <4>1
    <3> QED
      BY <1>6, <3>1, <3>2
  <2>3. Candidates'
    BY <1>1, <2>1, <2>2, QuietIssuable DEF TimeInv, Candidates
  <2>4. DoLis' = DoLis
    BY <2>1 DEF DoLis
  <2>5. ~DoLis => SerialInv'
    BY <1>1, <1>3, <2>1, <2>2 DEF TimeInv, SerialInv, Quiet
  <2>6. DoLis => BranchInv'
    BY <1>1, <1>3, <2>1 DEF TimeInv, BranchInv, Quiet
  <2> QED
    BY <1>3, <2>3, <2>4, <2>5, <2>6 DEF TimeInv
<1>7. CASE IssueLeft
  <2>1. /\ DoLis /\ slotLst = {} /\ next' = next
        /\ phase' = IF Left # 0 THEN "selectLeft" ELSE "check"
    BY <1>7 DEF IssueLeft, LoopEnds, SimDone, select
  <2>2. DoLis'
    BY <2>1 DEF DoLis
  <2>3. IsScheduleDelaySlot => Left = 0
    BY DEF Left
  <2>4. BranchInv'
    BY <1>1, <1>3, <2>1, <2>3 DEF TimeInv, BranchInv, Quiet
  <2> QED
    BY <1>3, <2>1, <2>2, <2>4 DEF TimeInv, Candidates
<1>8. CASE EndSchedule
  <2>1. phase = "check" /\ phase' = "done" /\ next' = next
    BY <1>8 DEF EndSchedule
  <2>2. DoLis /\ DoLis'
    BY <2>1 DEF TimeInv, SerialInv, DoLis
  <2>3. BranchInv'
    BY <1>1, <1>3, <2>1, <2>2 DEF TimeInv, BranchInv, Quiet
  <2> QED
    BY <1>3, <2>1, <2>2, <2>3 DEF TimeInv, Candidates
<1>9. CASE SerializeNext
  <2>1. /\ phase = "serial" /\ phase' = "fill" /\ next <= Len(bb) /\ next \in Nat
        /\ next' = next + 1 /\ ready' = ready \cup {next} /\ Len(bb) \in Nat
    BY <1>2, <1>9, BlockType DEF SerializeNext, StateOK
  <2>2. ~DoLis /\ ~DoLis'
    BY <1>2, <2>1 DEF StateOK, DoLis
  <2>3. SerialInv /\ next >= 1
    BY <2>1, <2>2 DEF TimeInv, DoLis
  <2>4. /\ ready' = {next' - 1} /\ IssuedORs' = 1 .. next' - 2 /\ next' >= 2
    BY <1>3, <2>1, <2>3 DEF SerialInv
  <2>5. SerialInv'
    BY <1>1, <2>1, <2>3, <2>4 DEF SerialInv, Quiet
  <2> QED
    BY <1>3, <2>1, <2>2, <2>5 DEF TimeInv, Candidates
<1> QED
  BY <1>4, <1>5, <1>6, <1>7, <1>8, <1>9

\* Rescheduling forgets the cycles.
LEMMA RescheduleTime == ASSUME Inv, TimeInv, Reschedule PROVE TimeInv'
<1>1. /\ execTab' = {} /\ phase' = "ready" /\ phase = "check" /\ next' = next
  BY DEF Reschedule, Reset
<1>2. DoLis'
  BY <1>1 DEF TimeInv, SerialInv, DoLis
<1> QED
  BY <1>1, <1>2 DEF TimeInv, Executing, OneCycle, Candidates, ResultsAvailable, BranchInv

\* The cycles serialize() appends issue nothing.
LEMMA EndSerializeTime == ASSUME Inv, TimeInv, EndSerialize PROVE TimeInv'
<1> DEFINE n == IF Pad > 0 THEN Pad ELSE 0
<1>1. /\ bb' = bb /\ edge' = edge /\ execTab' = execTab /\ phase = "serial"
      /\ phase' = "done" /\ next' = next /\ next > Len(bb) /\ StateOK
  BY DEF EndSerialize, Serialized, block, Inv
<1>2. n \in Nat
  <2>1. Pad \in Int
    <3>1. CASE IsScheduleDelaySlot
      BY <1>1, <3>1, LeftType, ORType DEF StateOK, Pad, EndCyc
    <3>2. CASE ~IsScheduleDelaySlot
      BY <3>2 DEF Pad
    <3> QED
      BY <3>1, <3>2
  <2> QED
    BY <2>1
<1>3. /\ cyc' = cyc + n /\ slotLst' = {d \in slotLst : cyc + n < d.start + bb[d.or].last}
  BY DEF EndSerialize, RunCycles
<1> HIDE DEF n
<1>4. ~DoLis /\ ~DoLis' /\ SerialInv
  BY <1>1 DEF DoLis, StateOK, TimeInv
<1>5. Executing'
  <2> SUFFICES ASSUME NEW x \in execTab
               PROVE  /\ x.cyc < cyc'
                      /\ cyc' < x.cyc + bb[x.or].last => Desc(x.slot, x.or, x.cyc) \in slotLst'
    BY <1>1 DEF Executing
  <2>1. x.cyc < cyc /\ x.cyc \in Nat /\ cyc \in Nat /\ x.or \in ORsOf /\ bb[x.or].last \in Nat
    BY <1>1, WellFormed DEF TimeInv, Executing, StateOK
  <2>2. ASSUME cyc' < x.cyc + bb[x.or].last PROVE Desc(x.slot, x.or, x.cyc) \in slotLst'
    <3>1. Desc(x.slot, x.or, x.cyc) \in slotLst
      BY <1>2, <1>3, <2>1, <2>2 DEF TimeInv, Executing
    <3>2. /\ Desc(x.slot, x.or, x.cyc).start = x.cyc /\ Desc(x.slot, x.or, x.cyc).or = x.or
      BY DEF Desc
    <3> QED
      BY <1>3, <2>2, <3>1, <3>2
  <2> QED
    BY <1>2, <1>3, <2>1, <2>2
<1>6. OneCycle' /\ ResultsAvailable'
  BY ZenonT(30), <1>1 DEF TimeInv, OneCycle, ResultsAvailable, LandedBy, DepsOf, MustUse, MustDef
<1>7. SerialInv'
  <2>1. next = Len(bb) + 1 /\ Len(bb) \in Nat
    <3>1. Len(bb) \in Nat
      BY <1>1, BlockType DEF StateOK
    <3>2. next \in 0 .. Len(bb) + 1
      BY <1>1 DEF StateOK
    <3> QED
      BY <1>1, <3>1, <3>2
  <2>2. IssuedORs = ORsOf
    BY <1>1, <1>4, <2>1 DEF SerialInv, ORsOf
  <2> QED
    BY <1>1, <1>4, <2>2 DEF SerialInv, IssuedORs, ORsOf
<1> QED
  BY <1>1, <1>4, <1>5, <1>6, <1>7 DEF TimeInv, Candidates

\* Every step of the scheduler keeps the invariant.
LEMMA TimeStep ==
    ASSUME Inv, HybridOnMemory, TimeInv, [NextLIS]_vars
    PROVE  HybridOnMemory' /\ TimeInv'
<1>1. HybridOnMemory'
  BY GraphStep DEF HybridOnMemory, DepsOf
<1>2. CASE TryIssueCandList
  <2>1. DoLis' <=> DoLis
    BY ModeStep DEF Inv
  <2>2. Candidates'
    BY <1>2 DEF TryIssueCandList, PhaseAfter, Candidates
  <2> QED
    BY <1>1, <1>2, <2>1, <2>2, IssueTime, IssueSerial, IssueBranch DEF TimeInv
<1>3. CASE UNCHANGED vars
  <2>1. Quiet /\ phase' = phase /\ next' = next /\ ready' = ready
        /\ cand' = cand /\ issueOrs' = issueOrs
    BY <1>3 DEF vars, simvars, lisvars, Quiet
  <2>2. Executing /\ OneCycle /\ ResultsAvailable
    BY DEF TimeInv
  <2>3. BundleORs' = BundleORs /\ DoLis' = DoLis
    BY <2>1 DEF BundleORs, DoLis
  <2>4. Candidates'
    BY <2>1, <2>3, QuietIssuable DEF TimeInv, Candidates
  <2>5. (~DoLis => SerialInv') /\ (DoLis => BranchInv')
    <3>1. ~DoLis => SerialInv'
      BY <2>1, <2>2, <2>3, QuietKeeps DEF TimeInv, SerialInv, Quiet
    <3>2. DoLis => BranchInv'
      BY <2>1, <2>2, QuietKeeps DEF TimeInv, BranchInv, Quiet
    <3> QED
      BY <3>1, <3>2
  <2> QED
    BY <1>1, <2>1, <2>2, <2>3, <2>4, <2>5, QuietKeeps DEF TimeInv
<1> QED
  BY <1>1, <1>2, <1>3, ChooseTime, RescheduleTime, EndSerializeTime DEF NextLIS

LEMMA TimeInit == InitLISState /\ bb \in Blocks => TimeInv
<1> SUFFICES ASSUME InitLISState, bb \in Blocks PROVE TimeInv
  OBVIOUS
<1>1. /\ execTab = {} /\ slotLst = {} /\ cand = {} /\ issueOrs = NoBundle /\ ready = {}
      /\ phase \in {"enter", "serial"} /\ (phase = "enter" <=> next = 0)
      /\ next \in {0, 1}
  BY ModeAssumption DEF InitLISState, InitSim
<1>2. Executing /\ OneCycle /\ Candidates /\ ResultsAvailable /\ BranchInv
  BY <1>1 DEF Executing, OneCycle, Candidates, ResultsAvailable, BranchInv
<1>3. ~DoLis => SerialInv
  BY <1>1 DEF DoLis, SerialInv, IssuedORs
<1> QED
  BY <1>2, <1>3 DEF TimeInv

LEMMA HybridInit == InitLIS => HybridOnMemory
<1> SUFFICES ASSUME InitLIS, NEW e \in edge, e.dep = "HYB"
             PROVE  DepsOf(e.from, e.to) = {"HYB"} \/ IsMem(bb[e.from])
  BY DEF HybridOnMemory
<1>1. \A f \in edge : f.from = e.from /\ f.to = e.to => f.dep = "HYB" \/ IsMem(bb[e.from])
  BY GraphsAssumption DEF InitLIS
<1> QED
  BY <1>1 DEF DepsOf

LEMMA TimeInvariance == SpecLIS => [](Inv /\ HybridOnMemory /\ TimeInv)
<1>1. InitLIS => Inv /\ HybridOnMemory /\ TimeInv
  BY InitInv, TimeInit, HybridInit DEF InitLIS
<1>2. Inv /\ HybridOnMemory /\ TimeInv /\ [NextLIS]_vars => (Inv /\ HybridOnMemory /\ TimeInv)'
  BY NextInv, TimeStep
<1> QED
  BY <1>1, <1>2, PTL DEF SpecLIS
-----------------------------------------------------------------------------
(* The theorems. *)

\* An OR is issued when the results it reads are available and what it
\* overwrites has landed, in every mode and with every graph.
THEOREM ResultsAreAvailable == SpecLIS => []ResultsAvailable
<1>1. TimeInv => ResultsAvailable
  BY DEF TimeInv
<1> QED
  BY <1>1, TimeInvariance, PTL

\* schedule() and serialize() both return with every OR issued but the NOPs
\* schedule() drops.
THEOREM NothingIsLost == SpecLIS => []NothingLost
<1>1. Inv /\ TimeInv => NothingLost
  <2> SUFFICES ASSUME Inv, TimeInv, phase = "done", NEW o \in ORsOf
               PROVE  o \in IssuedORs \/ (DoLis /\ bb[o].nop)
    BY DEF NothingLost
  <2>1. CASE DoLis
    BY <2>1 DEF Inv, ScheduleInv, Scheduled
  <2>2. CASE ~DoLis
    BY <2>2 DEF TimeInv, SerialInv
  <2> QED
    BY <2>1, <2>2
<1> QED
  BY <1>1, TimeInvariance, PTL

\* A branch whose delay slots are not scheduled starts when everything else has
\* been delivered.
THEOREM BranchIsLast == SpecLIS => []BranchLast
<1>1. TimeInv => BranchLast
  BY DEF TimeInv, BranchInv, BranchLast
<1> QED
  BY <1>1, TimeInvariance, PTL
-----------------------------------------------------------------------------
(* The refinement. *)

\* When gives an OR the cycle of any of its cells.
WhenKnown ==
    /\ \A x \in execTab : When[x.or] = x.cyc
    /\ \A o \in ORsOf \ IssuedORs : When[o] = -1
    /\ \A o \in IssuedORs : When[o] \in Nat /\ o \in ORsOf

LEMMA WhenIs == StateOK /\ OneCycle => WhenKnown
<1> SUFFICES ASSUME StateOK, OneCycle PROVE WhenKnown
  OBVIOUS
<1>1. ASSUME NEW x \in execTab PROVE When[x.or] = x.cyc /\ x.or \in ORsOf /\ x.cyc \in Nat
  <2>1. x.or \in IssuedORs /\ x.or \in ORsOf /\ x.cyc \in Nat
    BY DEF IssuedORs, StateOK
  <2> DEFINE y == CHOOSE z \in execTab : z.or = x.or
  <2>2. y \in execTab /\ y.or = x.or
    OBVIOUS
  <2>3. y.cyc = x.cyc
    BY <2>2 DEF OneCycle
  <2> QED
    BY <2>1, <2>3 DEF When
<1> QED
  BY <1>1 DEF When, IssuedORs, WhenKnown

\* A schedule starts with nothing issued.
LEMMA RefineInit == InitLIS => Abstract!Init
BY DEF InitLIS, InitLISState, InitSim, Abstract!Init, Abstract!ORsOf, Abstract!Unissued,
       When, IssuedORs, ORsOf

\* Leaving the simulator alone is invisible.
LEMMA RefineQuiet ==
    ASSUME bb' = bb, edge' = edge, cyc' = cyc, execTab' = execTab
    PROVE  UNCHANGED <<bb, edge, cyc, When>>
BY DEF When, IssuedORs, ORsOf

\* A bundle is a set of ORs IssueOrder permits in this cycle.
LEMMA RefineIssue ==
    ASSUME Inv, HybridOnMemory, TimeInv, TryIssueCandList
    PROVE  Abstract!Issue
<1>1. /\ bb' = bb /\ edge' = edge /\ IssueAndRun(issueOrs) /\ StateOK /\ OneCycle
  BY DEF TryIssueCandList, block, Inv, TimeInv
<1>2. StateOK' /\ OneCycle' /\ cyc' = cyc + 1 /\ cyc \in Nat
  BY <1>1, TryIssueType, IssueTime, IssueCells DEF StateOK
<1>3. /\ BundleORs \subseteq ORsOf /\ BundleORs \cap IssuedORs = {}
      /\ IssuedORs' = IssuedORs \cup BundleORs /\ ORsOf' = ORsOf
  BY <1>1, BundleFresh, IssueCells DEF ORsOf
<1>4. BundleORs \subseteq {o \in ORsOf : When[o] = -1}
  BY <1>1, <1>3, WhenIs DEF WhenKnown
<1>5. When' = [o \in ORsOf |-> IF o \in BundleORs THEN cyc ELSE When[o]]
  <2>1. ASSUME NEW o \in ORsOf PROVE When'[o] = IF o \in BundleORs THEN cyc ELSE When[o]
    <3>0. WhenKnown /\ WhenKnown'
      BY <1>1, <1>2, WhenIs, PTL
    <3>1. \A x \in execTab' : When'[x.or] = x.cyc
      BY <3>0 DEF WhenKnown
    <3>2. \A p \in ORsOf \ IssuedORs' : When'[p] = -1
      BY <1>3, <3>0 DEF WhenKnown
    <3>3. CASE o \in BundleORs
      <4>1. PICK x \in execTab' : x.or = o
        BY <1>3, <3>3 DEF IssuedORs
      <4>2. x \notin execTab
        BY <1>3, <3>3, <4>1 DEF IssuedORs
      <4>3. x.cyc = cyc
        BY <1>1, <4>2, IssueCells
      <4> QED
        BY <3>1, <3>3, <4>1, <4>3
    <3>4. CASE o \in IssuedORs
      <4>1. PICK x \in execTab : x.or = o
        BY <3>4 DEF IssuedORs
      <4>2. x \in execTab'
        BY <1>1, IssueCells
      <4> QED
        BY <1>1, <1>3, <3>1, <3>4, <4>1, <4>2, <3>0 DEF WhenKnown
    <3>5. CASE o \notin BundleORs /\ o \notin IssuedORs
      BY <1>1, <1>3, <3>0, <3>2, <3>5 DEF WhenKnown
    <3> QED
      BY <3>3, <3>4, <3>5
  <2>2. When' = [o \in ORsOf |-> When'[o]]
    BY <1>3 DEF When
  <2> QED
    BY <2>1, <2>2
<1>6. ASSUME NEW o \in BundleORs PROVE Abstract!Permitted(o)
  <2> SUFFICES ASSUME NEW p \in ORsOf, DepsOf(p, o) # {}
               PROVE  /\ When[p] # -1 \/ bb[p].nop
                      /\ When[p] # -1 => LandedBy(p, o, When[p], cyc)
    BY DEF Abstract!Permitted, Abstract!ORsOf, ORsOf, Abstract!DepsOf, DepsOf,
           Abstract!Unissued, Abstract!LandedBy, LandedBy, Abstract!MustUse, MustUse,
           Abstract!MustDef, MustDef, Abstract!IsSREqual, IsSREqual,
           Abstract!Results, Results
  <2>1. Scheduled(p)
    BY BundleFresh DEF DepsOf
  <2>2. p \in IssuedORs => \E x \in execTab : x.or = p
    BY DEF IssuedORs
  <2>3. p \in IssuedORs => When[p] \in Nat
    BY <1>1, WhenIs DEF WhenKnown
  <2>4. p \in IssuedORs => LandedBy(p, o, When[p], cyc)
    BY <1>1, <2>2, WhenIs, BundleFresh DEF WhenKnown
  <2>5. p \notin IssuedORs => When[p] = -1
    BY <1>1, WhenIs DEF WhenKnown
  <2> QED
    BY <2>1, <2>3, <2>4, <2>5 DEF Scheduled
<1> QED
  BY <1>1, <1>2, <1>4, <1>5, <1>6
     DEF Abstract!Issue, Abstract!ORsOf, Abstract!Unissued, ORsOf

\* Every step of schedule() or serialize() is a step of IssueOrder or invisible.
LEMMA RefineStep ==
    ASSUME Inv, HybridOnMemory, TimeInv, [NextLIS]_vars
    PROVE  [Abstract!Next]_<<bb, edge, cyc, When>>
<1>1. CASE TryIssueCandList
  BY <1>1, RefineIssue DEF Abstract!Next
<1>2. CASE Reschedule
  <2>1. bb' = bb /\ edge' = edge /\ cyc' = 0 /\ execTab' = {}
    BY <1>2 DEF Reschedule, Reset, block
  <2>2. When' = [o \in ORsOf |-> -1]
    BY <2>1 DEF When, IssuedORs, ORsOf
  <2> QED
    BY <2>1, <2>2 DEF Abstract!Next, Abstract!Restart, Abstract!ORsOf, Abstract!Unissued, ORsOf
<1>3. CASE EndSerialize
  <2>1. /\ bb' = bb /\ edge' = edge /\ execTab' = execTab
        /\ cyc' = cyc + IF Pad > 0 THEN Pad ELSE 0
    BY <1>3 DEF EndSerialize, RunCycles, block
  <2>2. When' = When /\ cyc' \in Nat /\ cyc \in Nat
    <3>1. When' = When
      BY <2>1 DEF When, IssuedORs, ORsOf
    <3> QED
      BY <1>3, <3>1, SerializeType DEF Inv, StateOK
  <2>3. cyc' = cyc \/ cyc' > cyc
    <3>1. Pad \in Int
      <4>1. CASE IsScheduleDelaySlot
        BY <4>1, LeftType, ORType DEF Inv, StateOK, Pad, EndCyc
      <4>2. CASE ~IsScheduleDelaySlot
        BY <4>2 DEF Pad
      <4> QED
        BY <4>1, <4>2
    <3> QED
      BY <2>1, <2>2, <3>1
  <2>4. CASE cyc' > cyc
    <3>1. When' = [o \in ORsOf |-> IF o \in {} THEN cyc ELSE When[o]]
      BY <2>2 DEF When
    <3> DEFINE free == {o \in Abstract!ORsOf : When[o] = Abstract!Unissued}
               Given(B) == /\ \A o \in B : Abstract!Permitted(o)
                           /\ When' = [o \in Abstract!ORsOf |-> IF o \in B THEN cyc ELSE When[o]]
                           /\ cyc' > cyc
                           /\ UNCHANGED <<bb, edge>>
    <3>2. Given({})
      BY <2>1, <2>4, <3>1 DEF Abstract!ORsOf, ORsOf
    <3>3. {} \in SUBSET free
      OBVIOUS
    <3> HIDE DEF Given, free
    <3>4. \E B \in SUBSET free : Given(B)
      BY <3>2, <3>3
    <3>5. Abstract!Issue
      BY <3>4 DEF Abstract!Issue, Given, free
    <3> QED
      BY <3>5 DEF Abstract!Next
  <2> QED
    BY <2>1, <2>2, <2>3, <2>4
<1>4. CASE \/ EnterSchedule \/ ComputeReadyList \/ FillIssueSlot
           \/ SelectIssueOR \/ RollBackORs \/ IssueLeft \/ EndSchedule
           \/ SerializeNext \/ UNCHANGED vars
  <2>1. bb' = bb /\ edge' = edge /\ cyc' = cyc /\ execTab' = execTab
    BY <1>4 DEF EnterSchedule, ComputeReadyList, FillIssueSlot, SelectIssueOR, RollBackORs,
         IssueLeft, EndSchedule, SerializeNext, block, simvars, vars
  <2> QED
    BY <2>1, RefineQuiet
<1> QED
  BY <1>1, <1>2, <1>3, <1>4 DEF NextLIS

\* schedule() and serialize() implement IssueOrder: an OR gets one cycle, after
\* what it depends on and not before its results, until the schedule restarts.
THEOREM RefinesIssueOrder == SpecLIS => ImplementsIssueOrder
<1>1. InitLIS => Abstract!Init
  BY RefineInit
<1>2. Inv /\ HybridOnMemory /\ TimeInv /\ [NextLIS]_vars
        => [Abstract!Next]_<<bb, edge, cyc, When>>
  BY RefineStep
<1> QED
  BY <1>1, <1>2, TimeInvariance, PTL DEF SpecLIS, ImplementsIssueOrder, Abstract!Spec
=============================================================================
