-------------------------- MODULE PerformISProofs --------------------------
(***************************************************************************)
(* Proofs that instruction scheduling keeps what a block computes: the     *)
(* graph the builder hands over, the cycles the scheduler gives along it   *)
(* and the package made of them, for every block of every target.          *)
(*                                                                         *)
(* The graph orders conflicting ORs through paths (ConflictsOrdered), the  *)
(* scheduler keeps edges one by one (DependencesKept) and may drop NOPs;   *)
(* what was issued before an OR, together with the NOPs, is closed under   *)
(* predecessors because no edge enters a NOP, so paths are kept as well.   *)
(***************************************************************************)
EXTENDS PerformIS, DDGProofs, LISTimeProofs

\* A REG_READ edge joins two reads of one location.
ReadsShared ==
    \A e \in edge : e.dep = "REG_READ" =>
        UseLocs(bb[e.from]) \cap UseLocs(bb[e.to]) # {}

\* The scheduler starts when the graph is built; serialize() has none.
InTurn ==
    /\ DoLis /\ stage # "built" => phase = "enter"
    /\ ~DoLis => stage = "reg" /\ pos = 1 /\ edge = {}

\* The k-th OR of the package was issued when k - 1 cells were already filled.
CellOf(k, x) ==
    /\ x.or = pkg[k]
    /\ Cardinality({y \in execTab : y.cyc < x.cyc}) = k - 1

PackageInv ==
    /\ pkg \in Seq(ORsOf)
    /\ pkg # <<>> => phase = "done"
    /\ \A k \in 1 .. Len(pkg) : \E x \in execTab : CellOf(k, x)

ISInv ==
    /\ DDGInv /\ ReadsShared
    /\ Inv /\ HybridOnMemory /\ TimeInv
    /\ InTurn
    /\ PackageInv
-----------------------------------------------------------------------------
(* The graph. *)

\* A REG_READ edge comes from a read recorded for the location read.
LEMMA ReadsSharedStep ==
    ASSUME DDGInv, ReadsShared, NextDDG PROVE ReadsShared'
<1>1. CASE BuildRegDep
  <2>1. /\ stage = "reg" /\ pos <= Len(bb) /\ bb' = bb /\ TypeOKDDG /\ UseorKnown
        /\ edge' = edge \cup OpndEdges(pos) \cup ResultEdges(pos)
    BY <1>1 DEF BuildRegDep, DDGInv
  <2>2. pos \in ORsOf /\ bb[pos] \in OR
    <3>1. pos \in ORsOf /\ Len(bb) \in Nat
      BY <2>1, NewEdgesType, DDGBlockType DEF TypeOKDDG
    <3> QED
      BY <2>1, <3>1, DDGBlockType DEF TypeOKDDG, ORsOf
  <2>3. UseLocs(bb[pos]) \subseteq Loc
    BY <2>2, LocsType
  <2>4. ASSUME NEW e \in OpndEdges(pos) \cup ResultEdges(pos), e.dep = "REG_READ"
        PROVE  UseLocs(bb[e.from]) \cap UseLocs(bb[e.to]) # {}
    <3>1. e \notin ResultEdges(pos)
      BY <2>4 DEF ResultEdges, Edge
    <3>2. PICK l \in UseLocs(bb[pos]) :
             e \in {Edge(d, pos, "REG_FLOW") : d \in defor[l]}
                     \cup {Edge(u, pos, "REG_READ") :
                             u \in IF "REG_READ" \in Param THEN useor[l] ELSE {}}
      BY <2>4, <3>1 DEF OpndEdges
    <3>3. PICK u \in useor[l] : e = Edge(u, pos, "REG_READ")
      BY <2>4, <3>2 DEF Edge
    <3>4. l \in UseLocs(bb[u])
      BY <2>1, <2>3, <3>2 DEF UseorKnown
    <3> QED
      BY <3>2, <3>3, <3>4 DEF Edge
  <2> QED
    BY <2>1, <2>4 DEF ReadsShared
<1>2. CASE BuildMemDep
  <2>1. bb' = bb /\ \A e \in edge' : e \in edge \/ e.dep = "HYB"
    BY <1>2 DEF BuildMemDep, Edge
  <2> QED
    BY <2>1 DEF ReadsShared
<1>3. CASE EndRegDep \/ RemoveRedundantDep
  <2>1. bb' = bb /\ edge' \subseteq edge
    BY <1>3 DEF EndRegDep, RemoveRedundantDep
  <2> QED
    BY <2>1 DEF ReadsShared
<1> QED
  BY <1>1, <1>2, <1>3 DEF NextDDG

\* A NOP uses and defines nothing, so no edge touches it.
LEMMA NopIsFree ==
    ASSUME DDGInv, ReadsShared, NEW o \in ORsOf, bb[o].nop
    PROVE  /\ UseLocs(bb[o]) = {} /\ DefLocs(bb[o]) = {} /\ ~IsMem(bb[o])
           /\ \A e \in edge : e.to # o
<1>1. WellFormedOR(bb[o])
  BY DDGBlockType DEF DDGInv, TypeOKDDG, ORsOf
<1>2. bb[o].res = <<>> /\ bb[o].opnd = {} /\ ~IsMem(bb[o])
  BY <1>1 DEF WellFormedOR
<1>3. Results(bb[o]) = {}
  BY <1>2 DEF Results
<1>4. UseLocs(bb[o]) = {} /\ DefLocs(bb[o]) = {}
  BY <1>2, <1>3 DEF UseLocs, DefLocs
<1>5. ASSUME NEW e \in edge, e.to = o PROVE FALSE
  BY <1>2, <1>4, <1>5 DEF DDGInv, EdgesSound, ReadsShared, RegConflict, MemConflict
<1> QED
  BY <1>2, <1>4, <1>5
-----------------------------------------------------------------------------
(* The invariant. *)

LEMMA ISInit == InitIS => ISInv
<1> SUFFICES ASSUME InitIS PROVE ISInv
  OBVIOUS
<1>1. /\ InitDDG /\ InitLISState /\ bb \in Blocks /\ edge = {} /\ pkg = <<>>
      /\ stage = "reg" /\ pos = 1
  BY DEF InitIS, InitDDG
<1>2. DDGInv /\ TimeInv /\ StateOK
  BY <1>1, DDGInitInv, TimeInit, InitType
<1>3. execTab = {} /\ ready = {} /\ visited = {} /\ (DoLis => phase = "enter")
  BY <1>1, ModeAssumption DEF InitLISState, InitSim, DoLis
<1>4. DoLis => ScheduleInv
  BY <1>3 DEF ScheduleInv, DependencesKept
<1>5. Inv
  BY <1>1, <1>2, <1>4 DEF Inv, GraphOK
<1>6. ReadsShared /\ HybridOnMemory /\ InTurn /\ PackageInv
  BY <1>1, <1>3 DEF ReadsShared, HybridOnMemory, InTurn, PackageInv
<1> QED
  BY <1>2, <1>5, <1>6 DEF ISInv

\* The graph grows before anything is scheduled.
LEMMA BuildStep == ASSUME ISInv, Build PROVE ISInv'
<1>1. /\ NextDDG /\ DoLis /\ UNCHANGED <<simvars, lisvars, pkg>> /\ stage # "built"
  BY DEF Build, NextDDG, BuildRegDep, EndRegDep, BuildMemDep, RemoveRedundantDep
<1>2. bb' = bb
  BY <1>1 DEF NextDDG, BuildRegDep, EndRegDep, BuildMemDep, RemoveRedundantDep
<1>3. DDGInv' /\ ReadsShared'
  BY <1>1, DDGNextInv, ReadsSharedStep DEF ISInv
<1>4. /\ phase = "enter" /\ phase' = "enter" /\ execTab = {} /\ execTab' = {}
      /\ ready' = {} /\ visited' = {} /\ DoLis' /\ pkg' = pkg
  BY <1>1 DEF ISInv, InTurn, Inv, ScheduleInv, simvars, lisvars, DoLis
<1>5. StateOK'
  BY <1>1, <1>2 DEF ISInv, Inv, StateOK, simvars, lisvars, ORsOf
<1>6. GraphOK'
  BY <1>3 DEF DDGInv, TypeOKDDG, EdgesSound, GraphOK
<1>7. ScheduleInv'
  BY <1>4 DEF ScheduleInv, DependencesKept
<1>8. HybridOnMemory'
  BY <1>3 DEF DDGInv, HybridIsMem, HybridOnMemory, MemConflict
<1>9. TimeInv'
  BY <1>4 DEF TimeInv, Executing, OneCycle, Candidates, ResultsAvailable, BranchInv
<1>10. InTurn'
  BY <1>4 DEF InTurn
<1>11. PackageInv'
  BY <1>4 DEF ISInv, PackageInv
<1> QED
  BY <1>3, <1>4, <1>5, <1>6, <1>7, <1>8, <1>9, <1>10, <1>11 DEF ISInv, Inv

\* The scheduler reads the graph and leaves it alone.
LEMMA ScheduleStep == ASSUME ISInv, Schedule PROVE ISInv'
<1>1. /\ NextLIS /\ UNCHANGED <<buildvars, pkg>> /\ (DoLis => stage = "built")
  BY DEF Schedule
<1>2. bb' = bb /\ edge' = edge /\ (DoLis' <=> DoLis)
  BY <1>1, GraphStep, ModeStep DEF ISInv, Inv
<1>3. DDGInv'
  <2>1. UNCHANGED ddgvars
    BY <1>1, <1>2 DEF ddgvars
  <2> QED
    BY <2>1, StutterInv DEF ISInv
<1>4. ReadsShared'
  BY <1>2 DEF ISInv, ReadsShared
<1>5. Inv' /\ HybridOnMemory' /\ TimeInv'
  BY <1>1, NextInv, TimeStep DEF ISInv
<1>6. InTurn'
  BY <1>1, <1>2 DEF ISInv, InTurn, buildvars
<1>7. phase # "done"
  BY <1>1 DEF NextLIS, EnterSchedule, ComputeReadyList, FillIssueSlot, SelectIssueOR,
       RollBackORs, TryIssueCandList, IssueLeft, Reschedule, EndSchedule, SerializeNext,
       EndSerialize, LoopEnds, Selecting, Serialized
<1>8. pkg = <<>> /\ pkg' = <<>>
  BY <1>1, <1>7 DEF ISInv, PackageInv
<1>9. PackageInv'
  BY <1>8 DEF PackageInv
<1> QED
  BY <1>3, <1>4, <1>5, <1>6, <1>9 DEF ISInv

\* A step that leaves the graph and the schedule alone.
LEMMA StillKeeps ==
    ASSUME ISInv, UNCHANGED <<vars, buildvars>>
    PROVE  DDGInv' /\ ReadsShared' /\ Inv' /\ HybridOnMemory' /\ TimeInv' /\ InTurn'
<1>1. UNCHANGED ddgvars /\ UNCHANGED vars
  BY DEF vars, ddgvars
<1>2. DDGInv' /\ Inv' /\ HybridOnMemory' /\ TimeInv'
  BY <1>1, StutterInv, NextInv, TimeStep DEF ISInv
<1>3. ReadsShared' /\ InTurn'
  BY DEF vars, buildvars, lisvars, ISInv, ReadsShared, InTurn, DoLis
<1> QED
  BY <1>2, <1>3

\* The next OR of the package has as many cells before it as the package has ORs.
LEMMA PackageStep == ASSUME ISInv, Package PROVE ISInv'
<1>1. /\ phase = "done" /\ UNCHANGED <<vars, buildvars>>
  BY DEF Package
<1>2. PICK x \in execTab :
         /\ Cardinality({y \in execTab : y.cyc < x.cyc}) = Len(pkg)
         /\ pkg' = Append(pkg, x.or)
  BY DEF Package, PackageCells
<1>3. /\ bb' = bb /\ execTab' = execTab /\ phase' = phase
  BY <1>1 DEF vars, simvars, lisvars
<1>4. x.or \in ORsOf /\ pkg \in Seq(ORsOf) /\ ORsOf' = ORsOf
  BY <1>3 DEF ISInv, Inv, StateOK, PackageInv, ORsOf
<1>5. /\ pkg' \in Seq(ORsOf) /\ Len(pkg') = Len(pkg) + 1 /\ Len(pkg) \in Nat
      /\ pkg'[Len(pkg) + 1] = x.or
      /\ \A k \in 1 .. Len(pkg) : pkg'[k] = pkg[k]
  BY <1>2, <1>4
<1>6. ASSUME NEW k \in 1 .. Len(pkg') PROVE \E y \in execTab' : CellOf(k, y)'
  <2>1. CASE k \in 1 .. Len(pkg)
    <3>1. PICK y \in execTab : CellOf(k, y)
      BY <2>1 DEF ISInv, PackageInv
    <3>2. pkg'[k] = pkg[k]
      BY <1>5, <2>1
    <3>3. CellOf(k, y)'
      BY <1>3, <3>1, <3>2 DEF CellOf
    <3> QED
      BY <1>3, <3>1, <3>3
  <2>2. CASE k = Len(pkg) + 1
    <3>1. CellOf(k, x)'
      BY <1>2, <1>3, <1>5, <2>2 DEF CellOf
    <3> QED
      BY <1>3, <3>1
  <2> QED
    BY <1>5, <2>1, <2>2
<1>7. PackageInv'
  BY <1>1, <1>3, <1>4, <1>5, <1>6 DEF PackageInv
<1> QED
  BY <1>1, <1>7, StillKeeps DEF ISInv

LEMMA ISNext == ISInv /\ [NextIS]_isvars => ISInv'
<1> SUFFICES ASSUME ISInv, [NextIS]_isvars PROVE ISInv'
  OBVIOUS
<1>1. CASE UNCHANGED isvars
  <2>1. UNCHANGED <<vars, buildvars>> /\ pkg' = pkg /\ phase' = phase
        /\ execTab' = execTab /\ bb' = bb
    BY <1>1 DEF isvars, vars, lisvars, simvars
  <2>2. PackageInv'
    BY <2>1 DEF ISInv, PackageInv, CellOf, ORsOf
  <2> QED
    BY <2>1, <2>2, StillKeeps DEF ISInv
<1> QED
  BY <1>1, BuildStep, ScheduleStep, PackageStep DEF NextIS

LEMMA ISInvariance == SpecIS => []ISInv
BY ISInit, ISNext, PTL DEF SpecIS
-----------------------------------------------------------------------------
(* The order of the package. *)

\* The execution table is finite: a cell for each slot, OR and cycle at most.
LEMMA TableIsFinite ==
    ASSUME StateOK, Executing PROVE IsFiniteSet(execTab)
<1> DEFINE key == [x \in execTab |-> <<<<x.slot, x.or>>, x.cyc>>]
           keys == (Slot \X ORsOf) \X (0 .. cyc)
<1>1. cyc \in Nat /\ Len(bb) \in Nat
  BY BlockType DEF StateOK
<1>2. IsFiniteSet(Slot) /\ IsFiniteSet(ORsOf) /\ IsFiniteSet(0 .. cyc)
  BY <1>1, SimAssumption, FS_Interval DEF Slot, ORsOf
<1>3. IsFiniteSet(keys)
  BY <1>2, FS_Product
<1>4. ASSUME NEW x \in execTab
      PROVE  /\ x.slot \in Slot /\ x.or \in ORsOf /\ x.cyc \in 0 .. cyc
             /\ x = [slot |-> x.slot, or |-> x.or, cyc |-> x.cyc]
  <2>1. x \in [slot : Slot, or : ORsOf, cyc : Nat] /\ x.cyc < cyc
    BY DEF StateOK, Executing
  <2> QED
    BY <1>1, <2>1
<1>5. key \in [execTab -> keys]
  BY <1>4
<1>6. ASSUME NEW x \in execTab, NEW y \in execTab, key[x] = key[y] PROVE x = y
  BY <1>4, <1>6
<1>7. key \in Injection(execTab, keys)
  BY <1>5, <1>6 DEF Injection, IsInjective
<1> QED
  BY <1>3, <1>7, FS_Injection

\* A later OR of the package was issued in a later cycle.
LEMMA PackageFollowsCycles ==
    ASSUME ISInv, NEW m \in 1 .. Len(pkg), NEW n \in 1 .. Len(pkg), m < n,
           NEW x \in execTab, NEW y \in execTab, x.or = pkg[m], y.or = pkg[n]
    PROVE  x.cyc < y.cyc
<1> DEFINE before(z) == {w \in execTab : w.cyc < z.cyc}
<1>1. PICK u \in execTab : u.or = pkg[m] /\ Cardinality(before(u)) = m - 1
  BY DEF ISInv, PackageInv, CellOf
<1>2. PICK v \in execTab : v.or = pkg[n] /\ Cardinality(before(v)) = n - 1
  BY DEF ISInv, PackageInv, CellOf
<1>3. u.cyc = x.cyc /\ v.cyc = y.cyc
  BY <1>1, <1>2 DEF ISInv, TimeInv, OneCycle
<1>4. \A w \in execTab : w.cyc \in Nat
  BY DEF ISInv, Inv, StateOK
<1>5. IsFiniteSet(before(u))
  <2>1. IsFiniteSet(execTab)
    BY TableIsFinite DEF ISInv, Inv, TimeInv
  <2> QED
    BY <2>1, FS_Subset
<1>6. ASSUME v.cyc <= u.cyc PROVE FALSE
  <2>1. before(v) \subseteq before(u)
    BY <1>4, <1>6
  <2>2. Cardinality(before(v)) <= Cardinality(before(u))
    BY <1>5, <2>1, FS_Subset
  <2>3. n - 1 <= m - 1
    BY <1>1, <1>2, <2>2
  <2>4. pkg \in Seq(ORsOf)
    BY DEF ISInv, PackageInv
  <2>5. m \in Nat /\ n \in Nat
    BY <2>4
  <2> QED
    BY <2>3, <2>5
<1> QED
  BY <1>3, <1>4, <1>6

\* What was issued before an OR, with the NOPs, is closed under predecessors, so
\* it holds every earlier OR the OR conflicts with.
LEMMA ConflictFollowsCycles ==
    ASSUME ISInv, phase = "done", NEW x \in execTab, NEW y \in execTab, x.or < y.or,
           RegConflict(x.or, y.or) \/ MemConflict(x.or, y.or)
    PROVE  x.cyc < y.cyc
<1>1. StateOK /\ x.or \in ORsOf /\ y.or \in ORsOf /\ OneCycle /\ DDGInv /\ ReadsShared
  BY DEF ISInv, Inv, StateOK, TimeInv
<1>2. CASE ~DoLis
  BY <1>2 DEF ISInv, TimeInv, SerialInv
<1>3. CASE DoLis
  <2> DEFINE S == {o \in ORsOf : \/ bb[o].nop \/ o = y.or
                                 \/ \E z \in execTab : z.or = o /\ z.cyc < y.cyc}
  <2>1. stage = "built" /\ DependencesKept
    BY <1>3 DEF ISInv, InTurn, Inv, ScheduleInv
  <2>2. ASSUME NEW e \in edge, e.to \in S PROVE e.from \in S
    <3>1. e.from \in ORsOf
      BY <1>1 DEF DDGInv, TypeOKDDG
    <3>2. ~bb[e.to].nop
      BY <1>1, <2>2, NopIsFree
    <3>3. PICK z \in execTab : z.or = e.to /\ z.cyc <= y.cyc
      <4>1. y.cyc \in Nat /\ \A z \in execTab : z.cyc \in Nat
        BY <1>1 DEF StateOK
      <4> QED
        BY <2>2, <3>2, <4>1
    <3>4. bb[e.from].nop \/ \E w \in execTab : w.or = e.from /\ w.cyc < z.cyc
      BY <1>3, <2>1, <3>3 DEF DependencesKept
    <3>5. \A w \in execTab : w.cyc \in Nat
      BY <1>1 DEF StateOK
    <3> QED
      BY <3>1, <3>3, <3>4, <3>5
  <2>3. PredClosed(S) /\ S \in SUBSET ORsOf /\ y.or \in S
    BY <1>1, <2>2 DEF PredClosed
  <2>4. RegHandled = ORsOf /\ MemHandled = ORsOf
    BY <2>1 DEF RegHandled, MemHandled
  <2>5. x.or \in 1 .. y.or - 1
    BY <1>1, BlockType DEF ORsOf, StateOK
  <2> HIDE DEF S
  <2>6. x.or \in S
    BY <1>1, <2>3, <2>4, <2>5 DEF DDGInv, ConflictsOrdered
  <2>7. ~bb[x.or].nop
    BY <1>1, NopIsFree DEF RegConflict, MemConflict
  <2>8. x.or # y.or
    BY <1>1, BlockType DEF ORsOf, StateOK
  <2>9. PICK z \in execTab : z.or = x.or /\ z.cyc < y.cyc
    BY <2>6, <2>7, <2>8 DEF S
  <2> QED
    BY <1>1, <2>9 DEF OneCycle
<1> QED
  BY <1>2, <1>3

\* Conflicting is symmetric.
LEMMA ConflictSymmetric ==
    ASSUME NEW i, NEW j
    PROVE  (RegConflict(i, j) \/ MemConflict(i, j)) <=> (RegConflict(j, i) \/ MemConflict(j, i))
BY DEF RegConflict, MemConflict
-----------------------------------------------------------------------------
(* What the package computes. *)

\* As many cells as there are ORs in a part of the package: they are theirs.
LEMMA CellsPackaged ==
    ASSUME ISInv, NEW n \in 1 .. Len(pkg) + 1,
           NEW S \in SUBSET execTab, Cardinality(S) = n - 1,
           \A m \in 1 .. n - 1 : \E x \in S : x.or = pkg[m]
    PROVE  \A z \in S : \E m \in 1 .. n - 1 : pkg[m] = z.or
<1>1. pkg \in Seq(ORsOf) /\ Len(pkg) \in Nat /\ n - 1 \in Nat
  <2>1. pkg \in Seq(ORsOf)
    BY DEF ISInv, PackageInv
  <2> QED
    BY <2>1
<1>2. IsFiniteSet(S)
  <2>1. IsFiniteSet(execTab)
    BY TableIsFinite DEF ISInv, Inv, TimeInv
  <2> QED
    BY <2>1, FS_Subset
<1> DEFINE cell == [m \in 1 .. n - 1 |-> CHOOSE x \in S : x.or = pkg[m]]
<1>3. \A m \in 1 .. n - 1 : cell[m] \in S /\ cell[m].or = pkg[m]
  OBVIOUS
<1>4. cell \in [1 .. n - 1 -> S]
  BY <1>3
<1>5. ASSUME NEW i \in 1 .. n - 1, NEW j \in 1 .. n - 1, i < j PROVE cell[i] # cell[j]
  <2>1. i \in 1 .. Len(pkg) /\ j \in 1 .. Len(pkg)
    BY <1>1
  <2>2. cell[i].cyc < cell[j].cyc
    <3>1. cell[i] \in execTab /\ cell[j] \in execTab
      BY <1>3
    <3> HIDE DEF cell
    <3> QED
      BY <1>3, <1>5, <2>1, <3>1, PackageFollowsCycles
  <2>3. cell[i].cyc \in Nat /\ cell[j].cyc \in Nat
    BY <1>3 DEF ISInv, Inv, StateOK
  <2> HIDE DEF cell
  <2> QED
    BY <2>2, <2>3
<1> HIDE DEF cell
<1>6. \A i, j \in 1 .. n - 1 : cell[i] = cell[j] => i = j
  <2> SUFFICES ASSUME NEW i \in 1 .. n - 1, NEW j \in 1 .. n - 1, cell[i] = cell[j], i # j
               PROVE  FALSE
    OBVIOUS
  <2>1. i < j \/ j < i
    BY <1>1
  <2> QED
    BY <1>5, <2>1
<1>7. cell \in Injection(1 .. n - 1, S)
  BY <1>4, <1>6 DEF Injection, IsInjective
<1>8. Cardinality(1 .. n - 1) = Cardinality(S)
  BY <1>1, FS_Interval
<1>9. cell \in Surjection(1 .. n - 1, S)
  BY <1>2, <1>7, <1>8, FS_Injection
<1>10. \A z \in S : \E m \in 1 .. n - 1 : cell[m] = z
  BY ONLY <1>9 DEF Surjection
<1> QED
  BY <1>3, <1>10

\* An OR that comes before an OR of the package in the block, and writes what
\* that one reads or writes, comes before it in the package.
LEMMA WritersPackaged ==
    ASSUME ISInv, NEW n \in 1 .. Len(pkg), NEW d \in ORsOf, d < pkg[n], RegConflict(d, pkg[n])
    PROVE  \E m \in 1 .. n - 1 : pkg[m] = d
<1>1. phase = "done" /\ StateOK /\ pkg \in Seq(ORsOf) /\ pkg[n] \in ORsOf
  BY DEF ISInv, PackageInv, Inv
<1>2. PICK y \in execTab : CellOf(n, y)
  BY DEF ISInv, PackageInv
<1>3. \E x \in execTab : x.or = d
  <2>1. ~bb[d].nop
    BY NopIsFree DEF RegConflict, ISInv
  <2>2. d \in IssuedORs
    BY <1>1, <2>1 DEF ISInv, Inv, ScheduleInv, Scheduled, TimeInv, SerialInv
  <2> QED
    BY <2>2 DEF IssuedORs
<1>4. PICK x \in execTab : x.or = d /\ x.cyc < y.cyc
  BY <1>1, <1>2, <1>3, ConflictFollowsCycles DEF CellOf
<1> DEFINE S == {z \in execTab : z.cyc < y.cyc}
<1>5. ASSUME NEW m \in 1 .. n - 1 PROVE \E z \in S : z.or = pkg[m]
  <2>1. Len(pkg) \in Nat
    BY <1>1
  <2>2. m \in 1 .. Len(pkg) /\ m < n
    BY <2>1
  <2>3. PICK z \in execTab : z.or = pkg[m]
    BY <2>2 DEF ISInv, PackageInv, CellOf
  <2>4. z.cyc < y.cyc
    BY <1>2, <2>2, <2>3, PackageFollowsCycles DEF CellOf
  <2> QED
    BY <2>3, <2>4
<1>6. Cardinality(S) = n - 1 /\ S \in SUBSET execTab /\ n \in 1 .. Len(pkg) + 1 /\ x \in S
  <2>1. Len(pkg) \in Nat
    BY <1>1
  <2> QED
    BY <1>2, <1>4, <2>1 DEF CellOf
<1> HIDE DEF S
<1>7. \E m \in 1 .. n - 1 : pkg[m] = x.or
  BY <1>5, <1>6, CellsPackaged
<1> QED
  BY <1>4, <1>7

LEMMA PackageOrder ==
    ASSUME ISInv, NEW m \in 1 .. Len(pkg), NEW n \in 1 .. Len(pkg),
           RegConflict(pkg[m], pkg[n]) \/ MemConflict(pkg[m], pkg[n])
    PROVE  m < n <=> pkg[m] < pkg[n]
<1>1. pkg \in Seq(ORsOf) /\ StateOK
  BY DEF ISInv, PackageInv, Inv
<1>2. /\ m \in Nat /\ n \in Nat /\ pkg[m] \in ORsOf /\ pkg[n] \in ORsOf
      /\ pkg[m] \in Nat /\ pkg[n] \in Nat
  BY <1>1, ORType DEF StateOK
<1>3. PICK x \in execTab : x.or = pkg[m]
  BY DEF ISInv, PackageInv, CellOf
<1>4. PICK y \in execTab : y.or = pkg[n]
  BY DEF ISInv, PackageInv, CellOf
<1>5. x.cyc \in Nat /\ y.cyc \in Nat
  BY <1>1 DEF StateOK
<1>6. phase = "done"
  BY <1>1 DEF ISInv, PackageInv
<1>7. CASE m < n
  <2>1. x.cyc < y.cyc
    BY <1>3, <1>4, <1>7, PackageFollowsCycles
  <2>2. pkg[m] # pkg[n]
    BY <1>3, <1>4, <1>5, <2>1 DEF ISInv, TimeInv, OneCycle
  <2>3. ~(pkg[n] < pkg[m])
    BY <1>3, <1>4, <1>5, <1>6, <2>1, ConflictFollowsCycles, ConflictSymmetric
  <2> QED
    BY <1>2, <1>7, <2>2, <2>3
<1>8. CASE n < m
  <2>1. y.cyc < x.cyc
    BY <1>3, <1>4, <1>8, PackageFollowsCycles
  <2>2. ~(pkg[m] < pkg[n])
    BY <1>3, <1>4, <1>5, <1>6, <2>1, ConflictFollowsCycles
  <2> QED
    BY <1>2, <1>8, <2>2
<1>9. CASE m = n
  BY <1>2, <1>9
<1> QED
  BY <1>2, <1>7, <1>8, <1>9

LEMMA ReadsKeptOf ==
    ASSUME ISInv, NEW n \in 1 .. Len(pkg), NEW l \in UseLocs(bb[pkg[n]]), NEW d \in ORsOf
    PROVE  LastWrites(d, n, l) <=> ReachingDef(d, pkg[n], l)
<1>1. /\ pkg \in Seq(ORsOf) /\ Len(pkg) \in Nat /\ pkg[n] \in ORsOf
      /\ Len(bb) \in Nat /\ ORsOf = 1 .. Len(bb)
  <2>1. pkg \in Seq(ORsOf) /\ StateOK
    BY DEF ISInv, PackageInv, Inv
  <2> QED
    BY <2>1, BlockType DEF StateOK, ORsOf
<1>2. \A k \in 1 .. n - 1 : k \in 1 .. Len(pkg) /\ pkg[k] \in ORsOf /\ k < n
  BY <1>1
<1>3. \A k \in ORsOf : l \in DefLocs(bb[k]) => RegConflict(k, pkg[n])
  BY DEF RegConflict
<1>4. \A j, k \in ORsOf : l \in DefLocs(bb[j]) /\ l \in DefLocs(bb[k]) => RegConflict(j, k)
  BY DEF RegConflict
<1>5. ASSUME LastWrites(d, n, l) PROVE ReachingDef(d, pkg[n], l)
  <2>1. PICK m \in 1 .. n - 1 :
           /\ pkg[m] = d /\ l \in DefLocs(bb[d])
           /\ \A k \in m + 1 .. n - 1 : l \notin DefLocs(bb[pkg[k]])
    BY <1>5 DEF LastWrites
  <2>2. d < pkg[n]
    BY <1>2, <1>3, <2>1, PackageOrder
  <2>3. ASSUME NEW k \in d + 1 .. pkg[n] - 1, l \in DefLocs(bb[k]) PROVE FALSE
    <3>1. k \in ORsOf /\ k < pkg[n] /\ d < k
      BY <1>1, <2>1
    <3>2. PICK j \in 1 .. n - 1 : pkg[j] = k
      BY <1>3, <2>3, <3>1, WritersPackaged
    <3>3. m < j
      BY <1>2, <1>4, <2>1, <2>3, <3>1, <3>2, PackageOrder
    <3>4. j \in m + 1 .. n - 1
      BY <1>1, <3>3
    <3> QED
      BY <2>1, <2>3, <3>2, <3>4
  <2> QED
    BY <2>1, <2>2, <2>3 DEF ReachingDef
<1>6. ASSUME ReachingDef(d, pkg[n], l) PROVE LastWrites(d, n, l)
  <2>1. /\ d < pkg[n] /\ l \in DefLocs(bb[d])
        /\ \A k \in d + 1 .. pkg[n] - 1 : l \notin DefLocs(bb[k])
    BY <1>6 DEF ReachingDef
  <2>2. PICK m \in 1 .. n - 1 : pkg[m] = d
    BY <1>3, <2>1, WritersPackaged
  <2>3. ASSUME NEW k \in m + 1 .. n - 1, l \in DefLocs(bb[pkg[k]]) PROVE FALSE
    <3>1. k \in 1 .. n - 1 /\ m < k
      BY <1>1
    <3>2. d < pkg[k]
      BY <1>2, <1>4, <2>1, <2>2, <2>3, <3>1, PackageOrder
    <3>3. pkg[k] < pkg[n]
      BY <1>2, <1>3, <2>3, <3>1, PackageOrder
    <3>4. pkg[k] \in d + 1 .. pkg[n] - 1
      BY <1>1, <1>2, <3>1, <3>2, <3>3
    <3> QED
      BY <2>1, <2>3, <3>4
  <2> QED
    BY <2>1, <2>2, <2>3 DEF LastWrites
<1> QED
  BY <1>5, <1>6

\* Every OR was issued before the current cycle, so package looks at every cell.
LEMMA EveryCellLookedAt == ISInv => PackageCells = execTab
BY DEF PackageCells, ISInv, TimeInv, Executing

\* A complete package has every OR but the NOPs.
LEMMA EmittedOf ==
    ASSUME ISInv, Packaged, NEW o \in ORsOf, ~bb[o].nop
    PROVE  \E m \in 1 .. Len(pkg) : pkg[m] = o
<1>1. /\ phase = "done" /\ Len(pkg) = Cardinality(execTab)
      /\ pkg \in Seq(ORsOf) /\ StateOK
  BY EveryCellLookedAt DEF Packaged, ISInv, PackageInv, Inv
<1>2. o \in IssuedORs
  BY <1>1 DEF ISInv, Inv, ScheduleInv, Scheduled, TimeInv, SerialInv
<1>3. PICK x \in execTab : x.or = o
  BY <1>2 DEF IssuedORs
<1>4. \A m \in 1 .. Len(pkg) : \E z \in execTab : z.or = pkg[m]
  BY DEF ISInv, PackageInv, CellOf
<1>5. PICK n : n = Len(pkg) + 1
  OBVIOUS
<1>6. n \in 1 .. Len(pkg) + 1 /\ n - 1 = Len(pkg)
  BY <1>1, <1>5
<1>7. \A z \in execTab : \E m \in 1 .. n - 1 : pkg[m] = z.or
  BY <1>1, <1>4, <1>6, CellsPackaged
<1> QED
  BY <1>3, <1>6, <1>7

LEMMA ResultsLeftOf ==
    ASSUME ISInv, Packaged, NEW l \in Loc, NEW d \in ORsOf
    PROVE  LastWrites(d, Len(pkg) + 1, l) <=>
             /\ l \in DefLocs(bb[d])
             /\ \A k \in d + 1 .. Len(bb) : l \notin DefLocs(bb[k])
<1>1. /\ pkg \in Seq(ORsOf) /\ Len(pkg) \in Nat /\ StateOK
      /\ Len(bb) \in Nat /\ ORsOf = 1 .. Len(bb)
  <2>1. pkg \in Seq(ORsOf) /\ StateOK
    BY DEF ISInv, PackageInv, Inv
  <2> QED
    BY <2>1, BlockType DEF StateOK, ORsOf
<1>2. Len(pkg) + 1 - 1 = Len(pkg) /\ \A k \in 1 .. Len(pkg) : pkg[k] \in ORsOf
  BY <1>1
<1>3. ASSUME NEW k \in ORsOf, l \in DefLocs(bb[k]) PROVE \E m \in 1 .. Len(pkg) : pkg[m] = k
  <2>1. ~bb[k].nop
    BY <1>3, NopIsFree DEF ISInv
  <2> QED
    BY <2>1, EmittedOf
<1>4. \A j, k \in ORsOf : l \in DefLocs(bb[j]) /\ l \in DefLocs(bb[k]) => RegConflict(j, k)
  BY DEF RegConflict
<1>5. LastWrites(d, Len(pkg) + 1, l) <=>
        \E m \in 1 .. Len(pkg) :
            /\ pkg[m] = d /\ l \in DefLocs(bb[d])
            /\ \A k \in m + 1 .. Len(pkg) : l \notin DefLocs(bb[pkg[k]])
  BY <1>2 DEF LastWrites
<1>6. ASSUME NEW m \in 1 .. Len(pkg), pkg[m] = d, l \in DefLocs(bb[d]),
             \A k \in m + 1 .. Len(pkg) : l \notin DefLocs(bb[pkg[k]]),
             NEW k \in d + 1 .. Len(bb), l \in DefLocs(bb[k])
      PROVE  FALSE
  <2>1. k \in ORsOf /\ d < k
    BY <1>1
  <2>2. PICK j \in 1 .. Len(pkg) : pkg[j] = k
    BY <1>3, <1>6, <2>1
  <2>3. m < j
    BY <1>4, <1>6, <2>1, <2>2, PackageOrder
  <2>4. j \in m + 1 .. Len(pkg)
    BY <1>1, <2>3
  <2> QED
    BY <1>6, <2>2, <2>4
<1>7. ASSUME l \in DefLocs(bb[d]), \A k \in d + 1 .. Len(bb) : l \notin DefLocs(bb[k])
      PROVE  \E m \in 1 .. Len(pkg) :
                /\ pkg[m] = d /\ l \in DefLocs(bb[d])
                /\ \A k \in m + 1 .. Len(pkg) : l \notin DefLocs(bb[pkg[k]])
  <2>1. PICK m \in 1 .. Len(pkg) : pkg[m] = d
    BY <1>3, <1>7
  <2>2. ASSUME NEW k \in m + 1 .. Len(pkg), l \in DefLocs(bb[pkg[k]]) PROVE FALSE
    <3>1. k \in 1 .. Len(pkg) /\ m < k
      BY <1>1
    <3>2. d < pkg[k]
      BY <1>2, <1>4, <1>7, <2>1, <2>2, <3>1, PackageOrder
    <3>3. pkg[k] \in d + 1 .. Len(bb)
      BY <1>1, <1>2, <3>1, <3>2
    <3> QED
      BY <1>7, <2>2, <3>3
  <2> QED
    BY <1>7, <2>1, <2>2
<1> QED
  BY <1>5, <1>6, <1>7
-----------------------------------------------------------------------------
(* The theorems. *)

\* The code emitted for a block keeps the program order of every two ORs that
\* conflict on a register, an alias of it or memory.
THEOREM PackageIsFaithful == SpecIS => []PackageKeepsConflicts
<1>1. ISInv => PackageKeepsConflicts
  <2> SUFFICES ASSUME ISInv, NEW m \in 1 .. Len(pkg), NEW n \in 1 .. Len(pkg),
                      RegConflict(pkg[m], pkg[n]) \/ MemConflict(pkg[m], pkg[n])
               PROVE  m < n <=> pkg[m] < pkg[n]
    BY DEF PackageKeepsConflicts
  <2> QED
    BY PackageOrder
<1> QED
  BY <1>1, ISInvariance, PTL

\* The code emitted for a block computes what the block does: every OR reads each
\* register, or alias of it, from the OR it reads it from in the block, the last
\* OR to write one is the same, and nothing but NOPs is missing, whatever NOPs
\* were dropped and whatever bundles and reschedules there were.
THEOREM PackageComputesBlock == SpecIS => []SameComputation
<1>1. ISInv => ReadsKept
  BY ReadsKeptOf DEF ReadsKept
<1>2. ISInv => ResultsLeft
  BY ResultsLeftOf DEF ResultsLeft
<1>3. ISInv => EveryOREmitted
  BY EmittedOf DEF EveryOREmitted
<1>4. ISInv => SameComputation
  BY <1>1, <1>2, <1>3 DEF SameComputation
<1> QED
  BY <1>4, ISInvariance, PTL

\* The graph the scheduler is handed is sound, ordering and direct.
THEOREM GraphHandedOver ==
    SpecIS => [](TypeOKDDG /\ EdgesSound /\ ConflictsOrdered /\ FlowEdgesDirect)
<1>1. ISInv => TypeOKDDG /\ EdgesSound /\ ConflictsOrdered /\ FlowEdgesDirect
  BY DEF ISInv, DDGInv
<1> QED
  BY <1>1, ISInvariance, PTL

\* On the graph built, an OR is issued when its operands are available, and the
\* branch that ends a block after everything is.
THEOREM ScheduledInTime == SpecIS => [](ResultsAvailable /\ BranchLast)
<1>1. ISInv => ResultsAvailable /\ BranchLast
  BY DEF ISInv, TimeInv, BranchInv, BranchLast
<1> QED
  BY <1>1, ISInvariance, PTL
=============================================================================
