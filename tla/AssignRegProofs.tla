-------------------------- MODULE AssignRegProofs --------------------------
(***************************************************************************)
(* Proofs about AssignReg, for every set of registers, every block and     *)
(* every order in which the life times and their neighbours are taken: the *)
(* types, the interference invariant, the assertion that a register is     *)
(* left, that no life time is forgotten, and that the two registers of a   *)
(* pair are adjacent.                                                      *)
(***************************************************************************)
EXTENDS AssignReg, FiniteSetTheorems, TLAPS

USE DEF IsReg

LEMMA BBType ==
    ASSUME NEW b \in BBs
    PROVE  /\ b \in BB
           /\ Len(b.ors) \in Nat
           /\ \A k \in 1 .. Len(b.ors) : b.ors[k] \in OR
BY LifeTimeBlocks DEF LifeTimeBlock, BB

LEMMA ORParts ==
    ASSUME NEW o \in OR
    PROVE  /\ Results(o) \subseteq SR
           /\ o.opnd \subseteq SR
           /\ o.pair # <<>> => o.pair[1] \in SR /\ o.pair[2] \in SR
BY DEF OR, Results, Pair

-----------------------------------------------------------------------------
(* LifeTime *)

\* Every step of create() keeps the types.
LEMMA LTTypeInit == LTInit => TypeOKLT
<1> SUFFICES ASSUME LTInit PROVE TypeOKLT
  OBVIOUS
<1>1. bb \in BB /\ OrNum \in Nat
  BY BBType DEF LTInit, OrNum
<1>2. <<>> \in Seq(SR)
  OBVIOUS
<1> QED
  BY <1>1, <1>2 DEF LTInit, TypeOKLT, OrNum, Positions, LastPos

LEMMA LTTypeStep == TypeOKLT /\ [LTNext]_ltvars => TypeOKLT'
<1> SUFFICES ASSUME TypeOKLT, [LTNext]_ltvars PROVE TypeOKLT'
  OBVIOUS
<1>n. /\ OrNum \in Nat
      /\ \A k \in 1 .. OrNum : bb.ors[k] \in OR
      /\ Positions = 0 .. 2 * OrNum + 1
  BY DEF TypeOKLT, BB, OrNum, Positions, LastPos
<1>s. \A s \in RetSR : s \in SR
  BY LifeTimeRegisters
<1>1. CASE ProcessLiveOut
  <2>1. LiveAtEnd \subseteq SR
    BY <1>s DEF LiveAtEnd, TypeOKLT, BB
  <2>2. bb' \in BB /\ OrNum' = OrNum
    BY <1>1, <1>s DEF ProcessLiveOut, TypeOKLT, BB, OrNum
  <2>3. Positions' = Positions
    BY <2>2 DEF Positions, LastPos
  <2>4. LastPos \in Positions
    BY <1>n DEF LastPos
  <2> QED
    BY <1>1, <2>1, <2>2, <2>3, <2>4 DEF ProcessLiveOut, TypeOKLT
<1>2. CASE ScanOR
  <2>0. idx \in 1 .. OrNum /\ bb.ors[idx] \in OR /\ bb' = bb /\ OrNum' = OrNum
        /\ Positions' = Positions
    BY <1>2, <1>n DEF ScanOR, TypeOKLT, OrNum, Positions, LastPos
  <2> DEFINE o == bb.ors[idx]
  <2>1. Results(o) \subseteq SR /\ o.opnd \subseteq SR
    BY <2>0, ORParts
  <2>2. 2 * idx \in Positions /\ 2 * idx - 1 \in Positions
    BY <2>0, <1>n
  <2>3. LiveBefore(o) \subseteq lts \cup o.opnd
    BY DEF LiveBefore, TypeOKLT
  <2>4. live' \subseteq lts' /\ lts' \subseteq SR
    BY <1>2, <2>1, <2>3 DEF ScanOR, TypeOKLT
  <2>5. ltpos' \in [SR -> SUBSET Positions]
    BY <1>2, <2>2 DEF ScanOR, TypeOKLT
  <2>6. \A s \in SR : Occurrences(s, idx) \subseteq Positions \X {"def", "use"}
    BY <2>2 DEF Occurrences
  <2>7. desc' \in [SR -> SUBSET (Positions \X {"def", "use"})]
    BY <1>2, <2>6 DEF ScanOR, TypeOKLT
  <2>8. \A list \in Seq(SR), s \in SR : AddSib(list, s) \in Seq(SR)
    BY DEF AddSib
  <2>9. nextSib' \in [SR -> Seq(SR)] /\ prevSib' \in [SR -> Seq(SR)]
    <3>1. CASE o.pair = <<>>
      BY <1>2, <3>1 DEF ScanOR, TypeOKLT
    <3>2. CASE o.pair # <<>>
      <4>1. o.pair[1] \in SR /\ o.pair[2] \in SR
        BY <3>2, <2>0, ORParts
      <4>2. nextSib \in [SR -> Seq(SR)] /\ prevSib \in [SR -> Seq(SR)]
        BY DEF TypeOKLT
      <4>3. /\ nextSib' = [nextSib EXCEPT ![o.pair[1]] = AddSib(@, o.pair[2])]
            /\ prevSib' = [prevSib EXCEPT ![o.pair[2]] = AddSib(@, o.pair[1])]
        BY <1>2, <3>2 DEF ScanOR
      <4>4. /\ AddSib(nextSib[o.pair[1]], o.pair[2]) \in Seq(SR)
            /\ AddSib(prevSib[o.pair[2]], o.pair[1]) \in Seq(SR)
        BY <4>1, <4>2, <2>8
      <4> HIDE DEF o
      <4> QED
        BY <4>2, <4>3, <4>4
    <3> QED
      BY <3>1, <3>2
  <2>10. idx' \in 0 .. OrNum /\ stage' = stage
    BY <1>2, <2>0, <1>n DEF ScanOR
  <2> QED
    BY <2>0, <2>4, <2>5, <2>7, <2>9, <2>10 DEF TypeOKLT
<1>3. CASE FinishCreate
  <2>0. bb' = bb /\ OrNum' = OrNum /\ Positions' = Positions
    BY <1>3 DEF FinishCreate, OrNum, Positions, LastPos
  <2>1. LiveAtEntry \subseteq SR
    BY DEF LiveAtEntry, TypeOKLT, BB
  <2>2. \A s \in SR : RevisedPos(s) \subseteq Positions
    BY <1>n DEF RevisedPos, PosAtEntry, TypeOKLT
  <2> QED
    BY <1>3, <2>0, <2>1, <2>2 DEF FinishCreate, TypeOKLT
<1>4. CASE UNCHANGED ltvars
  BY <1>4 DEF ltvars, TypeOKLT, OrNum, Positions, LastPos
<1> QED
  BY <1>1, <1>2, <1>3, <1>4 DEF LTNext

\* Type correctness of LifeTimeMgr::create: positions and occurrences stay
\* within the block, and only SRs with a life time are live.
THEOREM LifeTimeTypes == LTSpec => []TypeOKLT
<1>1. LTInit => TypeOKLT
  BY LTTypeInit
<1>2. TypeOKLT /\ [LTNext]_ltvars => TypeOKLT'
  BY LTTypeStep
<1> QED
  BY <1>1, <1>2, PTL DEF LTSpec
-----------------------------------------------------------------------------
(* AssignReg: the inductive invariant *)

\* Where the allocation is: the life times do not change once their usable
\* registers are computed, nothing is coloured before the graph is built.
Phases ==
    /\ step # "lifetime" => stage = "created"
    /\ step \in {"lifetime", "graph"} => phy = PhyReg /\ ig = {} /\ prio = {}
    /\ step # "avoid" => todo = {}
    /\ \A s \in SR : IsReg(s) => phy[s] = PhyReg[s]

\* The graph has the edges that matter and joins no life time to itself.
GraphComplete ==
    /\ step \in {"next", "avoid", "fin"} =>
         \A s, t \in lts :
            s # t /\ ltpos[s] \cap ltpos[t] # {} /\ ~(IsReg(s) /\ IsReg(t))
              => {s, t} \in ig
    /\ \A s \in SR : s \notin Neighbours(s)

\* The life time assignRegister works on, and the registers it is left.
CurrentOK ==
    /\ step \in {"avoid", "fin"} =>
         /\ cur \in lts \cap Local
         /\ ~Allocated(cur)
         /\ usable[cur] \cap UsedByNeighbours(cur) = {}
    /\ step = "fin" => pref[cur] \in usable[cur]

\* No local life time is lost, the current one included.
Accounted ==
    step \in {"next", "avoid", "fin"} =>
        \A s \in lts \cap Local :
            \/ Allocated(s)
            \/ s \in uncolored \cup prio
            \/ step # "next" /\ s = cur

Inv ==
    /\ TypeOKAR
    /\ Phases
    /\ GraphComplete
    /\ CurrentOK
    /\ RegisterLeft
    /\ Accounted
    /\ NoSharedRegister
-----------------------------------------------------------------------------
(* AssignReg: facts about its operators *)

LEMMA UsableType ==
    ASSUME TypeOKAR, NEW s \in SR
    PROVE  UsableRegs(s) \subseteq Reg /\ AnticiRegs(s) \subseteq Reg
BY AllocableRegisters DEF TypeOKAR, UsableRegs, AnticiRegs, Allocated

\* Siblings are only given registers that can be allocated.
LEMMA PrefType ==
    ASSUME NEW list \in Seq(SR), NEW r, NEW d, NEW p \in [SR -> Allocable \cup {0}]
    PROVE  PrefAfter(list, r, d, p) \in [SR -> Allocable \cup {0}]
<1> SUFFICES ASSUME NEW s \in SR, NEW F, F = Fitting(list, r, d),
                    \E i \in F : list[i] = s
             PROVE  SiblingReg(r, d, CHOOSE i \in F : list[i] = s) \in Allocable
  BY DEF PrefAfter
<1>1. \A i \in F : SiblingReg(r, d, i) \in Allocable
  BY DEF Fitting
<1> QED
  BY <1>1

LEMMA CandidatesUsable ==
    ASSUME NEW c \in Candidates
    PROVE  c.reg \in usable[cur] /\ c.left \subseteq usable[cur]
BY DEF Candidates, Lowest

\* Taking the registers of a neighbour with fewer of them leaves one.
LEMMA FewerLeavesOne ==
    ASSUME NEW U \in SUBSET Reg, NEW N \in SUBSET Reg, Cardinality(N) < Cardinality(U)
    PROVE  U \ N # {}
<1>1. IsFiniteSet(N)
  BY LifeTimeRegisters, FS_Subset
<1>2. ASSUME U \subseteq N PROVE FALSE
  <2>1. Cardinality(U) <= Cardinality(N)
    BY <1>1, <1>2, FS_Subset
  <2>2. Cardinality(U) \in Nat /\ Cardinality(N) \in Nat
    BY <1>1, <1>2, FS_Subset, FS_CardinalityType
  <2> QED
    BY <2>1, <2>2
<1> QED
  BY <1>2

-----------------------------------------------------------------------------
(* AssignReg: the types *)

LEMMA ARTypeInit == ARInit => TypeOKAR /\ Phases
<1> SUFFICES ASSUME ARInit PROVE TypeOKAR /\ Phases
  OBVIOUS
<1>1. TypeOKLT
  BY LTTypeInit DEF ARInit
<1>2. cur \in SR
  BY AllocableRegisters DEF ARInit
<1>3. phy \in [SR -> Reg \cup {0}]
  BY LifeTimeRegisters DEF ARInit
<1> QED
  BY <1>1, <1>2, <1>3 DEF ARInit, TypeOKAR, Steps, Phases

\* An unallocated life time that is not global is local to the block.
LEMMA UnallocatedLocal ==
    ASSUME TypeOKAR, Phases, NEW s \in SR, ~Allocated(s), s \notin Global
    PROVE  s \in Local
BY DEF Phases, Allocated, Local

\* The end of assignRegister keeps the types.
LEMMA FinType ==
    ASSUME TypeOKAR, Phases, CurrentOK, step \in {"avoid", "fin"},
           NEW r \in usable[cur], NEW left \in SUBSET usable[cur], Fin(r, left)
    PROVE  TypeOKAR'
<1>1. TypeOKLT' /\ lts' = lts /\ UNCHANGED <<ig, prio, cur, todo, antici>>
  BY DEF Fin, ltvars, TypeOKAR, TypeOKLT, OrNum, Positions, LastPos
<1>2. r \in Reg
  BY DEF TypeOKAR
<1>3. phy' \in [SR -> Reg \cup {0}] /\ usable' \in [SR -> SUBSET Reg]
  <2>1. \/ phy' = phy /\ usable' = [usable EXCEPT ![cur] = left]
        \/ /\ phy' = [phy EXCEPT ![cur] = r]
           /\ usable' = [t \in SR |->
                  IF t = cur THEN left
                  ELSE IF t \in Neighbours(cur) /\ ~Allocated(t)
                  THEN usable[t] \ {r} ELSE usable[t]]
    BY DEF Fin
  <2> QED
    BY <1>2, <2>1 DEF TypeOKAR
<1>4. nextSib[cur] \in Seq(SR) /\ prevSib[cur] \in Seq(SR)
  BY DEF TypeOKAR, TypeOKLT
<1>5. pref' \in [SR -> Allocable \cup {0}]
  <2> DEFINE pref1 == PrefAfter(nextSib[cur], r, 1, pref)
  <2>1. pref1 \in [SR -> Allocable \cup {0}]
    BY <1>4, PrefType DEF TypeOKAR
  <2>2. PrefAfter(prevSib[cur], r, -1, pref1) \in [SR -> Allocable \cup {0}]
    <3> HIDE DEF pref1
    <3> QED
      BY <1>4, <2>1, PrefType
  <2>3. pref' = PrefAfter(prevSib[cur], r, -1, pref1) \/ pref' = pref1
    BY DEF Fin
  <2> QED
    BY <2>1, <2>2, <2>3
<1>6. uncolored' \subseteq Local /\ step' = "next"
  <2>1. cur \in Local
    BY DEF CurrentOK
  <2>2. uncolored' = uncolored \/ uncolored' = uncolored \cup {cur}
    BY DEF Fin, UncoloredAfter
  <2> QED
    BY <2>1, <2>2 DEF Fin, TypeOKAR
<1>7. todo' \subseteq Neighbours(cur)'
  BY <1>1 DEF TypeOKAR, Neighbours
<1> QED
  BY <1>1, <1>3, <1>5, <1>6, <1>7 DEF TypeOKAR, Steps

\* Nothing but create() changes a life time.
LEMMA LTUnchanged == TypeOKLT /\ UNCHANGED ltvars => TypeOKLT'
BY DEF ltvars, TypeOKLT, OrNum, Positions, LastPos

LEMMA ARTypeStep ==
    TypeOKAR /\ Phases /\ CurrentOK /\ [ARNext]_lravars => TypeOKAR'
<1> SUFFICES ASSUME TypeOKAR, Phases, CurrentOK, [ARNext]_lravars
             PROVE  TypeOKAR'
  OBVIOUS
<1>lt. ASSUME UNCHANGED ltvars
       PROVE  TypeOKLT' /\ lts' = lts
  BY <1>lt, LTUnchanged DEF TypeOKAR, ltvars
<1>1. CASE CreateLifeTimes
  <2>1. step = "lifetime" /\ ig = {} /\ prio = {} /\ todo = {}
    BY <1>1 DEF Phases, CreateLifeTimes, LTNext, ProcessLiveOut, ScanOR, FinishCreate
  <2>2. TypeOKLT'
    BY <1>1, LTTypeStep DEF CreateLifeTimes, TypeOKAR
  <2> QED
    BY <1>1, <2>1, <2>2 DEF CreateLifeTimes, arvars, TypeOKAR, Neighbours
<1>2. CASE ComputeUsableRegs
  <2>1. usable' \in [SR -> SUBSET Reg] /\ antici' \in [SR -> SUBSET Reg]
    BY <1>2, UsableType DEF ComputeUsableRegs
  <2>2. TypeOKLT' /\ lts' = lts
    BY <1>2, <1>lt DEF ComputeUsableRegs
  <2> QED
    BY <1>2, <2>1, <2>2 DEF ComputeUsableRegs, TypeOKAR, Steps, Neighbours
<1>3. CASE BuildGraph
  <2>1. TypeOKLT' /\ lts' = lts
    BY <1>3, <1>lt DEF BuildGraph
  <2>2. todo = {}
    BY <1>3 DEF BuildGraph, Phases
  <2>3. ig' \subseteq SUBSET lts
    BY <1>3 DEF BuildGraph
  <2> QED
    BY <1>3, <2>1, <2>2, <2>3 DEF BuildGraph, TypeOKAR, Steps, Neighbours
<1>4. CASE NextLifeTime
  <2>0. TypeOKLT' /\ lts' = lts /\ UNCHANGED <<phy, antici, pref, ig>>
    BY <1>4, <1>lt DEF NextLifeTime
  <2>1. PICK s \in prio :
         /\ prio' = prio \ {s}
         /\ IF Allocated(s) \/ s \in Global
            THEN UNCHANGED <<step, usable, uncolored, cur, todo>>
            ELSE /\ cur' = s
                 /\ usable' = [usable EXCEPT ![s] = Deducted(s)]
                 /\ \/ /\ uncolored' = UncoloredAfter(s, FALSE)
                       /\ UNCHANGED <<step, todo>>
                    \/ /\ step' = "fin"
                       /\ UNCHANGED <<uncolored, todo>>
                    \/ /\ step' = "avoid"
                       /\ todo' = {t \in Neighbours(s) : ~Allocated(t)}
                       /\ UNCHANGED uncolored
    BY <1>4 DEF NextLifeTime
  <2>2. s \in SR
    BY DEF TypeOKAR, TypeOKLT
  <2>3. prio' \subseteq lts'
    BY <2>0, <2>1 DEF TypeOKAR
  <2>4. CASE Allocated(s) \/ s \in Global
    BY <2>0, <2>1, <2>3, <2>4 DEF TypeOKAR, Neighbours
  <2>5. CASE ~Allocated(s) /\ s \notin Global
    <3>1. cur' = s /\ usable' = [usable EXCEPT ![s] = Deducted(s)]
      BY <2>1, <2>5
    <3>2. usable' \in [SR -> SUBSET Reg]
      BY <2>2, <3>1 DEF TypeOKAR, Deducted
    <3>3. uncolored' = uncolored \/ uncolored' = uncolored \cup {s}
      BY <2>1, <2>5 DEF UncoloredAfter
    <3>4. uncolored' \subseteq Local
      BY <2>2, <2>5, <3>3, UnallocatedLocal DEF TypeOKAR
    <3>5. todo' \subseteq Neighbours(s)
      BY <1>4, <2>1, <2>5 DEF Phases, NextLifeTime
    <3>6. step' \in Steps
      BY <2>1, <2>5 DEF TypeOKAR, Steps
    <3> QED
      BY <2>0, <2>2, <2>3, <3>1, <3>2, <3>4, <3>5, <3>6 DEF TypeOKAR, Neighbours
  <2> QED
    BY <2>4, <2>5
<1>5. CASE AvoidNeighbour
  <2>0. TypeOKLT' /\ lts' = lts
        /\ UNCHANGED <<step, phy, antici, pref, ig, prio, uncolored, cur>>
    BY <1>5, <1>lt DEF AvoidNeighbour
  <2>1. PICK t \in todo :
         /\ usable' = [usable EXCEPT ![t] = usable[t] \cup ({pref[t]} \ {0}),
                 ![cur] = IF Cardinality(usable[t] \cup ({pref[t]} \ {0})) < Cardinality(@)
                          THEN @ \ (usable[t] \cup ({pref[t]} \ {0})) ELSE @]
         /\ todo' = todo \ {t}
    BY <1>5 DEF AvoidNeighbour
  <2>2. t \in SR
    BY DEF TypeOKAR, TypeOKLT, Neighbours
  <2>3. usable[t] \cup ({pref[t]} \ {0}) \subseteq Reg
    BY <2>2, AllocableRegisters DEF TypeOKAR
  <2>4. usable' \in [SR -> SUBSET Reg]
    BY <2>1, <2>2, <2>3 DEF TypeOKAR, TypeOKLT
  <2> QED
    BY <2>0, <2>1, <2>4 DEF TypeOKAR, Neighbours
<1>6. CASE AssignChosen
  <2>1. PICK c \in Candidates : Fin(c.reg, c.left)
    BY <1>6 DEF AssignChosen
  <2>2. c.reg \in usable[cur] /\ c.left \subseteq usable[cur]
    BY CandidatesUsable
  <2> QED
    BY <1>6, <2>1, <2>2, FinType DEF AssignChosen
<1>7. CASE AssignPreferred
  BY <1>7, FinType DEF AssignPreferred, CurrentOK
<1>8. CASE UNCHANGED lravars
  BY <1>8, LTUnchanged DEF lravars, ltvars, arvars, TypeOKAR, Neighbours
<1> QED
  BY <1>1, <1>2, <1>3, <1>4, <1>5, <1>6, <1>7, <1>8 DEF ARNext
-----------------------------------------------------------------------------
(* AssignReg: every step keeps the invariant *)

\* What the steps after the graph is built never change.
LEMMA ColouringSteps ==
    ASSUME NextLifeTime \/ AvoidNeighbour \/ AssignChosen \/ AssignPreferred
    PROVE  UNCHANGED <<ltvars, antici, ig>>
BY DEF NextLifeTime, AvoidNeighbour, AssignChosen, AssignPreferred, Fin

\* The ends of assignRegister: with or without register r.
LEMMA FinEffect ==
    ASSUME NEW r, NEW left, Fin(r, left)
    PROVE  /\ step' = "next"
           /\ UNCHANGED <<prio, cur, todo>>
           /\ \/ phy' = [phy EXCEPT ![cur] = r] /\ uncolored' = uncolored
              \/ phy' = phy /\ uncolored' = uncolored \cup {cur}
BY DEF Fin, UncoloredAfter

LEMMA AssignEffect ==
    ASSUME CurrentOK, AssignChosen \/ AssignPreferred
    PROVE  /\ step \in {"avoid", "fin"}
           /\ todo = {} \/ step # "avoid"
           /\ \E r \in usable[cur] : \E left : Fin(r, left)
<1>1. CASE AssignChosen
  BY <1>1, CandidatesUsable DEF AssignChosen
<1>2. CASE AssignPreferred
  BY <1>2 DEF AssignPreferred, CurrentOK
<1> QED
  BY <1>1, <1>2

LEMMA CreateStep ==
    ASSUME Phases, CreateLifeTimes
    PROVE  step = "lifetime" /\ UNCHANGED arvars
BY DEF Phases, CreateLifeTimes, LTNext, ProcessLiveOut, ScanOR, FinishCreate

LEMMA PhasesStep ==
    TypeOKAR /\ Phases /\ CurrentOK /\ [ARNext]_lravars => Phases'
<1> SUFFICES ASSUME TypeOKAR, Phases, CurrentOK, [ARNext]_lravars PROVE Phases'
  OBVIOUS
<1>1. CASE CreateLifeTimes
  BY <1>1, CreateStep DEF Phases, arvars
<1>2. CASE ComputeUsableRegs
  BY <1>2 DEF Phases, ComputeUsableRegs, ltvars
<1>3. CASE BuildGraph
  BY <1>3 DEF Phases, BuildGraph, ltvars
<1>4. CASE NextLifeTime
  BY <1>4 DEF Phases, NextLifeTime, ltvars
<1>5. CASE AvoidNeighbour
  BY <1>5 DEF Phases, AvoidNeighbour, ltvars
<1>6. CASE AssignChosen \/ AssignPreferred
  <2>1. PICK r \in usable[cur] : \E left : Fin(r, left)
    BY <1>6, AssignEffect
  <2>2. step \in {"avoid", "fin"} /\ todo = {} /\ stage' = stage
    BY <1>6, AssignEffect, ColouringSteps DEF Phases, ltvars
  <2>3. cur \in SR /\ PhyReg[cur] = 0
    BY <2>2 DEF CurrentOK, Local
  <2>4. \A s \in SR : IsReg(s) => phy'[s] = PhyReg[s]
    BY <2>1, <2>3, FinEffect DEF Phases, TypeOKAR
  <2> QED
    BY <2>1, <2>2, <2>4, FinEffect DEF Phases
<1>7. CASE UNCHANGED lravars
  BY <1>7 DEF Phases, lravars, ltvars, arvars
<1> QED
  BY <1>1, <1>2, <1>3, <1>4, <1>5, <1>6, <1>7 DEF ARNext

LEMMA GraphStep ==
    TypeOKAR /\ Phases /\ GraphComplete /\ [ARNext]_lravars => GraphComplete'
<1> SUFFICES ASSUME TypeOKAR, Phases, GraphComplete, [ARNext]_lravars
             PROVE  GraphComplete'
  OBVIOUS
<1>1. CASE CreateLifeTimes
  BY <1>1, CreateStep DEF GraphComplete, Phases, arvars, Neighbours
<1>2. CASE ComputeUsableRegs
  BY <1>2 DEF GraphComplete, ComputeUsableRegs, ltvars, Neighbours
<1>3. CASE BuildGraph
  <2>1. phy = PhyReg /\ lts' = lts /\ ltpos' = ltpos
    BY <1>3 DEF BuildGraph, Phases, ltvars
  <2>2. ig' = {e \in SUBSET lts : \E s, t \in e : e = {s, t} /\ IsInterferred(s, t)}
    BY <1>3 DEF BuildGraph
  <2>3. ASSUME NEW s \in lts, NEW t \in lts,
               s # t /\ ltpos[s] \cap ltpos[t] # {} /\ ~(IsReg(s) /\ IsReg(t))
        PROVE  {s, t} \in ig'
    <3>1. IsInterferred(s, t)
      BY <2>1, <2>3 DEF IsInterferred, Allocated
    <3> QED
      BY <2>2, <3>1
  <2>4. ASSUME NEW s \in lts PROVE {s, s} \notin ig'
    BY <2>2 DEF IsInterferred
  <2> QED
    BY <2>1, <2>3, <2>4 DEF GraphComplete, Neighbours
<1>4. CASE NextLifeTime \/ AvoidNeighbour \/ AssignChosen \/ AssignPreferred
  <2>1. step \in {"next", "avoid", "fin"}
    BY <1>4 DEF NextLifeTime, AvoidNeighbour, AssignChosen, AssignPreferred
  <2>2. UNCHANGED <<lts, ltpos, ig>>
    BY <1>4, ColouringSteps DEF ltvars
  <2> QED
    BY <2>1, <2>2 DEF GraphComplete, Neighbours
<1>5. CASE UNCHANGED lravars
  BY <1>5 DEF GraphComplete, lravars, ltvars, arvars, Neighbours
<1> QED
  BY <1>1, <1>2, <1>3, <1>4, <1>5 DEF ARNext

\* The three ways into and out of the choice of a life time.
LEMMA NextEffect ==
    ASSUME TypeOKAR, Phases, NextLifeTime
    PROVE  \E s \in prio :
             /\ s \in lts /\ s \in SR
             /\ prio' = prio \ {s}
             /\ \/ /\ Allocated(s) \/ s \in Global
                   /\ UNCHANGED <<step, usable, uncolored, cur, todo>>
                \/ /\ ~Allocated(s) /\ s \in Local /\ cur' = s
                   /\ usable' = [usable EXCEPT ![s] = Deducted(s)]
                   /\ \/ step' = step /\ uncolored' = uncolored \cup {s}
                      \/ /\ step' = "fin" /\ uncolored' = uncolored
                         /\ pref[s] \in Deducted(s)
                      \/ /\ step' = "avoid" /\ uncolored' = uncolored
                         /\ Deducted(s) # {}
<1>1. \A s \in prio : s \in lts /\ s \in SR
  BY DEF TypeOKAR, TypeOKLT
<1>2. \A s \in prio : ~(Allocated(s) \/ s \in Global) => s \in Local
  BY <1>1, UnallocatedLocal
<1>3. PICK s \in prio :
         /\ prio' = prio \ {s}
         /\ IF Allocated(s) \/ s \in Global
            THEN UNCHANGED <<step, usable, uncolored, cur, todo>>
            ELSE /\ cur' = s
                 /\ usable' = [usable EXCEPT ![s] = Deducted(s)]
                 /\ \/ /\ uncolored' = uncolored \cup {s}
                       /\ UNCHANGED step
                    \/ /\ pref[s] \in Deducted(s)
                       /\ step' = "fin"
                       /\ UNCHANGED uncolored
                    \/ /\ Deducted(s) # {}
                       /\ step' = "avoid"
                       /\ UNCHANGED uncolored
  BY DEF NextLifeTime, UncoloredAfter
<1> QED
  BY <1>1, <1>2, <1>3

\* A neighbour keeps registers from the current life time, which is none of
\* its own neighbours: it is left a register, and none of theirs.
LEMMA AvoidKeeps ==
    ASSUME TypeOKAR, GraphComplete, CurrentOK, RegisterLeft, AvoidNeighbour
    PROVE  usable'[cur] \subseteq usable[cur] /\ usable'[cur] # {}
<1>1. PICK t \in todo :
         usable' = [usable EXCEPT ![t] = usable[t] \cup ({pref[t]} \ {0}),
             ![cur] = IF Cardinality(usable[t] \cup ({pref[t]} \ {0})) < Cardinality(@)
                      THEN @ \ (usable[t] \cup ({pref[t]} \ {0})) ELSE @]
  BY DEF AvoidNeighbour
<1> DEFINE N == usable[t] \cup ({pref[t]} \ {0})
<1>2. t \in SR /\ cur \in SR /\ t # cur
  BY DEF TypeOKAR, TypeOKLT, Neighbours, GraphComplete
<1>3. N \subseteq Reg /\ usable[cur] \subseteq Reg
  BY <1>2, AllocableRegisters DEF TypeOKAR
<1>4. usable'[cur] = IF Cardinality(N) < Cardinality(usable[cur])
                     THEN usable[cur] \ N ELSE usable[cur]
  BY <1>1, <1>2 DEF TypeOKAR
<1>5. usable[cur] # {}
  BY DEF AvoidNeighbour, RegisterLeft
<1> HIDE DEF N
<1>6. Cardinality(N) < Cardinality(usable[cur]) => usable[cur] \ N # {}
  BY <1>3, FewerLeavesOne
<1> QED
  BY <1>4, <1>5, <1>6

LEMMA CurrentStep ==
    TypeOKAR /\ Phases /\ GraphComplete /\ CurrentOK /\ RegisterLeft /\ [ARNext]_lravars
        => CurrentOK' /\ RegisterLeft'
<1> SUFFICES ASSUME TypeOKAR, Phases, GraphComplete, CurrentOK, RegisterLeft,
                    [ARNext]_lravars
             PROVE  CurrentOK' /\ RegisterLeft'
  OBVIOUS
<1>1. CASE step' \notin {"avoid", "fin"}
  BY <1>1 DEF CurrentOK, RegisterLeft
<1>2. CASE CreateLifeTimes
  <2>1. step' = "lifetime"
    BY <1>2, CreateStep DEF arvars
  <2> QED
    BY <1>1, <2>1
<1>3. CASE ComputeUsableRegs \/ BuildGraph
  <2>1. step' \notin {"avoid", "fin"}
    BY <1>3 DEF ComputeUsableRegs, BuildGraph
  <2> QED
    BY <1>1, <2>1
<1>4. CASE NextLifeTime /\ step' \in {"avoid", "fin"}
  <2>0. step = "next" /\ UNCHANGED <<lts, phy, pref, ig>>
    BY <1>4 DEF NextLifeTime, ltvars
  <2>1. PICK s \in prio :
             /\ s \in lts /\ s \in SR
             /\ ~Allocated(s) /\ s \in Local /\ cur' = s
             /\ usable' = [usable EXCEPT ![s] = Deducted(s)]
             /\ \/ step' = "fin" /\ pref[s] \in Deducted(s)
                \/ step' = "avoid" /\ Deducted(s) # {}
    BY <1>4, <2>0, NextEffect
  <2>2. usable'[s] = Deducted(s)
    BY <2>1 DEF TypeOKAR
  <2>3. Deducted(s) \cap UsedByNeighbours(s) = {}
    BY DEF Deducted
  <2>4. UsedByNeighbours(s)' = UsedByNeighbours(s) /\ Allocated(s)' = Allocated(s)
    BY <2>0 DEF UsedByNeighbours, Neighbours, Allocated
  <2> QED
    BY <2>0, <2>1, <2>2, <2>3, <2>4
       DEF CurrentOK, RegisterLeft, UsedByNeighbours, Neighbours, Allocated
<1>5. CASE AvoidNeighbour
  <2>1. step = "avoid" /\ UNCHANGED <<step, lts, phy, pref, ig, cur>>
    BY <1>5 DEF AvoidNeighbour, ltvars
  <2>2. usable'[cur] \subseteq usable[cur] /\ usable'[cur] # {}
    BY <1>5, AvoidKeeps
  <2>3. UsedByNeighbours(cur)' = UsedByNeighbours(cur) /\ Allocated(cur)' = Allocated(cur)
    BY <2>1 DEF UsedByNeighbours, Neighbours, Allocated
  <2> QED
    BY <2>1, <2>2, <2>3 DEF CurrentOK, RegisterLeft
<1>6. CASE AssignChosen \/ AssignPreferred
  <2>1. step' = "next"
    BY <1>6, AssignEffect, FinEffect
  <2> QED
    BY <1>1, <2>1
<1>7. CASE UNCHANGED lravars
  BY <1>7 DEF lravars, ltvars, arvars, CurrentOK, RegisterLeft, UsedByNeighbours,
              Neighbours, Allocated
<1> QED
  BY <1>1, <1>2, <1>3, <1>4, <1>5, <1>6, <1>7 DEF ARNext

LEMMA AccountedStep ==
    TypeOKAR /\ Phases /\ CurrentOK /\ Accounted /\ [ARNext]_lravars => Accounted'
<1> SUFFICES ASSUME TypeOKAR, Phases, CurrentOK, Accounted, [ARNext]_lravars
             PROVE  Accounted'
  OBVIOUS
<1>1. CASE CreateLifeTimes
  BY <1>1, CreateStep DEF Accounted, arvars
<1>2. CASE ComputeUsableRegs
  BY <1>2 DEF Accounted, ComputeUsableRegs
<1>3. CASE BuildGraph
  BY <1>3 DEF Accounted, BuildGraph, ltvars
<1>4. CASE NextLifeTime
  <2>1. step = "next" /\ UNCHANGED <<lts, phy>>
    BY <1>4 DEF NextLifeTime, ltvars
  <2>2. PICK s \in prio :
             /\ prio' = prio \ {s}
             /\ \/ /\ Allocated(s) \/ s \in Global
                   /\ UNCHANGED <<step, uncolored, cur>>
                \/ step' = step /\ uncolored' = uncolored \cup {s}
                \/ step' \in {"fin", "avoid"} /\ uncolored' = uncolored /\ cur' = s
    BY <1>4, NextEffect
  <2>3. ASSUME NEW t \in lts \cap Local
        PROVE  Allocated(t)' \/ t \in uncolored' \cup prio' \/ (step' # "next" /\ t = cur')
    <3>1. Allocated(t) \/ t \in uncolored \/ (t \in prio /\ t # s) \/ t = s
      BY <2>1 DEF Accounted
    <3>2. Allocated(t)' = Allocated(t) /\ t \notin Global
      BY <2>1 DEF Allocated, Local
    <3> QED
      BY <2>1, <2>2, <3>1, <3>2
  <2> QED
    BY <2>1, <2>3 DEF Accounted
<1>5. CASE AvoidNeighbour
  BY <1>5 DEF Accounted, AvoidNeighbour, ltvars, Allocated
<1>6. CASE AssignChosen \/ AssignPreferred
  <2>1. PICK r \in usable[cur] : \E left : Fin(r, left)
    BY <1>6, AssignEffect
  <2>2. step \in {"avoid", "fin"} /\ lts' = lts
    BY <1>6, AssignEffect, ColouringSteps DEF ltvars
  <2>3. r \in Reg /\ r # 0
    BY LifeTimeRegisters DEF TypeOKAR
  <2>4. \/ phy' = [phy EXCEPT ![cur] = r] /\ uncolored' = uncolored
        \/ phy' = phy /\ uncolored' = uncolored \cup {cur}
    BY <2>1, FinEffect
  <2>5. ASSUME NEW t \in lts \cap Local
        PROVE  Allocated(t)' \/ t \in uncolored' \cup prio'
    <3>1. t \in SR /\ prio' = prio
      BY <2>1, FinEffect DEF TypeOKAR, TypeOKLT
    <3>2. Allocated(t) \/ t \in uncolored \cup prio \/ t = cur
      BY <2>2 DEF Accounted
    <3>3. Allocated(t) => Allocated(t)'
      BY <2>3, <2>4, <3>1 DEF Allocated, TypeOKAR
    <3>4. t = cur => Allocated(t)' \/ t \in uncolored'
      BY <2>3, <2>4, <3>1 DEF Allocated, TypeOKAR
    <3>5. uncolored \subseteq uncolored'
      BY <2>4
    <3> QED
      BY <3>1, <3>2, <3>3, <3>4, <3>5
  <2> QED
    BY <2>2, <2>5 DEF Accounted
<1>7. CASE UNCHANGED lravars
  BY <1>7 DEF lravars, ltvars, arvars, Accounted, Allocated
<1> QED
  BY <1>1, <1>2, <1>3, <1>4, <1>5, <1>6, <1>7 DEF ARNext

\* The colouring stays proper: until the graph is built only the registers
\* from before are given, and then the current life time gets one that none
\* of its neighbours has.
LEMMA NoSharedStep ==
    TypeOKAR /\ Phases /\ GraphComplete /\ CurrentOK /\ NoSharedRegister
      /\ [ARNext]_lravars => NoSharedRegister'
<1> SUFFICES ASSUME TypeOKAR, Phases, GraphComplete, CurrentOK, NoSharedRegister,
                    [ARNext]_lravars
             PROVE  NoSharedRegister'
  OBVIOUS
<1>1. CASE CreateLifeTimes
  <2>1. phy' = PhyReg
    BY <1>1, CreateStep DEF Phases, arvars
  <2> QED
    BY <2>1 DEF NoSharedRegister, Allocated
<1>2. CASE UNCHANGED <<lts, ltpos, phy>>
  BY <1>2 DEF NoSharedRegister, Allocated
<1>3. CASE ComputeUsableRegs \/ BuildGraph \/ NextLifeTime \/ AvoidNeighbour
  BY <1>2, <1>3 DEF ComputeUsableRegs, BuildGraph, NextLifeTime, AvoidNeighbour, ltvars
<1>4. CASE AssignChosen \/ AssignPreferred
  <2>1. PICK r \in usable[cur] : \E left : Fin(r, left)
    BY <1>4, AssignEffect
  <2>2. step \in {"avoid", "fin"} /\ UNCHANGED <<lts, ltpos, ig>>
    BY <1>4, AssignEffect, ColouringSteps DEF ltvars
  <2>3. CASE phy' = phy
    BY <1>2, <2>2, <2>3
  <2>4. CASE phy' = [phy EXCEPT ![cur] = r]
    <3>1. cur \in lts /\ cur \in SR /\ PhyReg[cur] = 0 /\ r # 0
          /\ r \notin UsedByNeighbours(cur)
      BY <2>2, LifeTimeRegisters DEF CurrentOK, Local, TypeOKAR
    \* Another life time that has r does not meet the current one.
    <3>2. ASSUME NEW t \in lts, t # cur, phy[t] = r
          PROVE  ltpos[cur] \cap ltpos[t] = {}
      <4>1. t \notin Neighbours(cur)
        BY <3>1, <3>2 DEF UsedByNeighbours, Allocated
      <4>2. {cur, t} \notin ig
        BY <4>1 DEF Neighbours
      <4> QED
        BY <2>2, <3>1, <3>2, <4>2 DEF GraphComplete
    <3>3. ASSUME NEW s \in lts, NEW t \in lts, s # t, phy'[s] # 0, phy'[s] = phy'[t],
                 ~(IsReg(s) /\ IsReg(t))
          PROVE  ltpos[s] \cap ltpos[t] = {}
      <4>0. s \in SR /\ t \in SR
        BY DEF TypeOKAR, TypeOKLT
      <4>1. CASE s = cur
        <5>1. phy[t] = r
          BY <2>4, <3>3, <4>0, <4>1 DEF TypeOKAR
        <5> QED
          BY <3>2, <3>3, <4>1, <5>1
      <4>2. CASE t = cur
        <5>1. phy[s] = r
          BY <2>4, <3>3, <4>0, <4>2 DEF TypeOKAR
        <5> QED
          BY <3>2, <3>3, <4>2, <5>1
      <4>3. CASE s # cur /\ t # cur
        BY <2>4, <3>3, <4>0, <4>3 DEF TypeOKAR, NoSharedRegister, Allocated
      <4> QED
        BY <4>1, <4>2, <4>3
    <3> QED
      BY <2>2, <3>3 DEF NoSharedRegister, Allocated
  <2> QED
    BY <2>1, <2>3, <2>4, FinEffect
<1>5. CASE UNCHANGED lravars
  BY <1>2, <1>5 DEF lravars, ltvars, arvars
<1> QED
  BY <1>1, <1>3, <1>4, <1>5 DEF ARNext

LEMMA InvInit == ARInit => Inv
<1> SUFFICES ASSUME ARInit PROVE Inv
  OBVIOUS
<1>1. TypeOKAR /\ Phases
  BY ARTypeInit
<1>2. step = "lifetime" /\ ig = {} /\ lts = {}
  BY DEF ARInit, LTInit
<1> QED
  BY <1>1, <1>2 DEF Inv, GraphComplete, CurrentOK, RegisterLeft, Accounted,
                    NoSharedRegister, Neighbours

LEMMA InvStep == Inv /\ [ARNext]_lravars => Inv'
BY ARTypeStep, PhasesStep, GraphStep, CurrentStep, AccountedStep, NoSharedStep DEF Inv

LEMMA Invariance == ARSpec => []Inv
<1>1. ARInit => Inv
  BY InvInit
<1>2. Inv /\ [ARNext]_lravars => Inv'
  BY InvStep
<1> QED
  BY <1>1, <1>2, PTL DEF ARSpec

\* Type correctness of the allocation: only local SRs are left uncoloured,
\* and what the siblings of a pair prefer can be allocated.
THEOREM AssignTypes == ARSpec => []TypeOKAR
<1>1. Inv => TypeOKAR
  BY DEF Inv
<1> QED
  BY <1>1, Invariance, PTL

\* LRA::assignRegister never gives one register to two life times that have a
\* position in common: InterfGraph::build has an edge for each such pair, and
\* every register of a coloured neighbour is taken off first.
THEOREM ColouringProper == ARSpec => []NoSharedRegister
<1>1. Inv => NoSharedRegister
  BY DEF Inv
<1> QED
  BY <1>1, Invariance, PTL

\* The assertion of LRA::assignRegister: after registers were kept for the
\* neighbours, in whatever order, one is left to choose.
THEOREM AlwaysRegisterLeft == ARSpec => []RegisterLeft
<1>1. Inv => RegisterLeft
  BY DEF Inv
<1> QED
  BY <1>1, Invariance, PTL

\* LRA::computePrioList forgets no local life time: it is coloured, still on
\* the list, or handed to solveConflict.
THEOREM AllAccounted == ARSpec => []NoneForgotten
<1>1. Inv => NoneForgotten
  BY DEF Inv, Accounted, NoneForgotten
<1> QED
  BY <1>1, Invariance, PTL
-----------------------------------------------------------------------------
(***************************************************************************)
(* Pairs.  The SRs of a pair come from one vector of two SRs, so that no   *)
(* SR has two partners: then each list of siblings has one of them.  The   *)
(* partner that is coloured first gives the other its preference, which    *)
(* the other takes or fails.                                               *)
(***************************************************************************)
Paired(k) == k \in 1 .. OrNum /\ bb.ors[k].pair # <<>>
Low(k) == bb.ors[k].pair[1]
High(k) == bb.ors[k].pair[2]

OnePartner ==
    \A i, j \in 1 .. OrNum :
        Paired(i) /\ Paired(j) /\ (Low(i) = Low(j) \/ High(i) = High(j))
          => Low(i) = Low(j) /\ High(i) = High(j)

\* What LifeTimeBlock says of the pairs.
PairsOK ==
    \A i \in 1 .. OrNum : Paired(i) =>
        /\ Low(i) \in SR /\ High(i) \in SR
        /\ {Low(i), High(i)} \subseteq Results(bb.ors[i]) \cup bb.ors[i].opnd
        /\ PhyReg[Low(i)] = 0 <=> PhyReg[High(i)] = 0
        /\ \A j \in 1 .. OrNum : Paired(j) => Low(i) # High(j)

\* The ORs scanned so far are in the descriptions of their SRs.
Described ==
    \A k \in idx + 1 .. OrNum : \A s \in Results(bb.ors[k]) \cup bb.ors[k].opnd :
        \E d \in desc[s] : d[1] \in {2 * k - 1, 2 * k}

\* The partners known so far are the siblings.
Siblings ==
    \A s \in SR :
        /\ \/ /\ nextSib[s] = <<>>
              /\ \A k \in idx + 1 .. OrNum : Paired(k) => Low(k) # s
           \/ \E k \in idx + 1 .. OrNum :
                Paired(k) /\ Low(k) = s /\ nextSib[s] = <<High(k)>>
        /\ \/ /\ prevSib[s] = <<>>
              /\ \A k \in idx + 1 .. OrNum : Paired(k) => High(k) # s
           \/ \E k \in idx + 1 .. OrNum :
                Paired(k) /\ High(k) = s /\ prevSib[s] = <<Low(k)>>

SiblingInv ==
    /\ PairsOK /\ Described /\ (OnePartner => Siblings)
    /\ stage = "created" => idx = 0

\* The scan of create() records the ORs and the partners of each SR.
LEMMA SiblingInit == LTInit => SiblingInv
<1> SUFFICES ASSUME LTInit PROVE SiblingInv
  OBVIOUS
<1>1. LifeTimeBlock(bb) /\ bb \in BB /\ OrNum \in Nat /\ idx = OrNum
      /\ \A k \in 1 .. OrNum : bb.ors[k] \in OR
  BY LifeTimeBlocks, BBType DEF LTInit, OrNum
<1>2. idx + 1 .. OrNum = {}
  BY <1>1
<1>3. ASSUME NEW i \in 1 .. OrNum, Paired(i)
      PROVE  /\ Low(i) \in SR /\ High(i) \in SR
             /\ {Low(i), High(i)} \subseteq Results(bb.ors[i]) \cup bb.ors[i].opnd
             /\ PhyReg[Low(i)] = 0 <=> PhyReg[High(i)] = 0
             /\ \A j \in 1 .. OrNum : Paired(j) => Low(i) # High(j)
  <2>1. bb.ors[i].pair \in SR \X SR
    BY <1>1, <1>3 DEF OR, Pair, Paired
  <2>2. {Low(i), High(i)} \subseteq Range(bb.ors[i].pair)
    BY <2>1 DEF Low, High, Range
  <2> QED
    BY <1>1, <1>3, <2>1, <2>2 DEF LifeTimeBlock, Low, High, Paired, OrNum
<1> QED
  BY <1>1, <1>2, <1>3 DEF SiblingInv, PairsOK, Described, Siblings, LTInit

LEMMA SiblingStep == TypeOKLT /\ SiblingInv /\ [LTNext]_ltvars => SiblingInv'
<1> SUFFICES ASSUME TypeOKLT, SiblingInv, [LTNext]_ltvars PROVE SiblingInv'
  OBVIOUS
<1>1. bb'.ors = bb.ors
  BY DEF LTNext, ProcessLiveOut, ScanOR, FinishCreate, ltvars, TypeOKLT, BB
<1>2. OrNum' = OrNum /\ OrNum \in Nat /\ \A k \in 1 .. OrNum : bb.ors[k] \in OR
  BY <1>1 DEF OrNum, TypeOKLT, BB
<1>3. PairsOK'
  BY <1>1, <1>2 DEF SiblingInv, PairsOK, Paired, Low, High
<1>4. OnePartner' <=> OnePartner
  BY <1>1, <1>2 DEF OnePartner, Paired, Low, High
<1>5. CASE UNCHANGED <<idx, desc, nextSib, prevSib>> /\ (stage' = "created" => idx = 0)
  <2>1. Described'
    BY <1>1, <1>2, <1>5 DEF SiblingInv, Described
  <2>2. OnePartner => Siblings'
    BY <1>1, <1>2, <1>5 DEF SiblingInv, Siblings, Paired, Low, High
  <2> QED
    BY <1>3, <1>4, <1>5, <2>1, <2>2 DEF SiblingInv
<1>6. CASE ScanOR
  <2> DEFINE o == bb.ors[idx]
  <2>1. /\ idx \in 1 .. OrNum /\ idx' = idx - 1 /\ bb' = bb /\ stage' = "scan"
        /\ idx' + 1 .. OrNum = {idx} \cup idx + 1 .. OrNum
        /\ o \in OR
    BY <1>2, <1>6 DEF ScanOR, TypeOKLT
  <2>2. Described'
    <3> SUFFICES ASSUME NEW k \in {idx} \cup idx + 1 .. OrNum,
                        NEW s \in Results(bb.ors[k]) \cup bb.ors[k].opnd
                 PROVE  \E d \in desc'[s] : d[1] \in {2 * k - 1, 2 * k}
      BY SMTT(30), <1>1, <1>2, <2>1 DEF Described, Results
    <3>1. s \in SR /\ k \in 1 .. OrNum
      BY <1>2, <2>1, ORParts
    <3>2. desc'[s] = desc[s] \cup Occurrences(s, idx)
      BY <1>6, <3>1 DEF ScanOR
    <3>3. CASE k = idx
      <4>1. CASE s \in Results(o)
        <5>1. <<2 * idx, "def">> \in Occurrences(s, idx)
          BY <4>1 DEF Occurrences
        <5> QED
          BY <3>2, <3>3, <5>1
      <4>2. CASE s \in o.opnd
        <5>1. <<2 * idx - 1, "use">> \in Occurrences(s, idx)
          BY <4>2 DEF Occurrences
        <5> QED
          BY <3>2, <3>3, <5>1
      <4> QED
        BY <3>3, <4>1, <4>2
    <3>4. CASE k \in idx + 1 .. OrNum
      BY <3>2, <3>4 DEF SiblingInv, Described
    <3> QED
      BY <3>3, <3>4
  <2>3. ASSUME OnePartner PROVE Siblings'
    <3>1. Siblings
      BY <2>3 DEF SiblingInv
    <3>2. CASE o.pair = <<>>
      <4>1. UNCHANGED <<nextSib, prevSib>> /\ ~Paired(idx)
        BY <1>6, <3>2 DEF ScanOR, Paired
      <4> QED
        BY <1>2, <2>1, <3>1, <4>1 DEF Siblings, Paired, Low, High
    <3>3. CASE o.pair # <<>>
      <4>1. Paired(idx) /\ Low(idx) \in SR /\ High(idx) \in SR
        BY <2>1, <3>3 DEF Paired, SiblingInv, PairsOK
      <4>2. /\ nextSib' = [nextSib EXCEPT ![Low(idx)] = AddSib(@, High(idx))]
            /\ prevSib' = [prevSib EXCEPT ![High(idx)] = AddSib(@, Low(idx))]
        BY <1>6, <3>3 DEF ScanOR, Low, High
      <4>3. nextSib \in [SR -> Seq(SR)] /\ prevSib \in [SR -> Seq(SR)]
        BY DEF TypeOKLT
      <4>4. \A x \in SR : AddSib(<<>>, x) = <<x>> /\ AddSib(<<x>>, x) = <<x>>
        BY DEF AddSib, Range
      <4>5. nextSib'[Low(idx)] = <<High(idx)>>
        <5>1. nextSib[Low(idx)] \in {<<>>, <<High(idx)>>}
          <6>1. \A k \in idx + 1 .. OrNum : Paired(k) /\ Low(k) = Low(idx) => High(k) = High(idx)
            BY <2>1, <2>3, <4>1 DEF OnePartner, Paired
          <6> QED
            BY <3>1, <4>1, <6>1 DEF Siblings
        <5> QED
          BY <4>1, <4>2, <4>3, <4>4, <5>1
      <4>6. prevSib'[High(idx)] = <<Low(idx)>>
        <5>1. prevSib[High(idx)] \in {<<>>, <<Low(idx)>>}
          <6>1. \A k \in idx + 1 .. OrNum : Paired(k) /\ High(k) = High(idx) => Low(k) = Low(idx)
            BY <2>1, <2>3, <4>1 DEF OnePartner, Paired
          <6> QED
            BY <3>1, <4>1, <6>1 DEF Siblings
        <5> QED
          BY <4>1, <4>2, <4>3, <4>4, <5>1
      <4>7. ASSUME NEW s \in SR
            PROVE  /\ \/ /\ nextSib'[s] = <<>>
                         /\ \A k \in {idx} \cup idx + 1 .. OrNum : Paired(k) => Low(k) # s
                      \/ \E k \in {idx} \cup idx + 1 .. OrNum :
                           Paired(k) /\ Low(k) = s /\ nextSib'[s] = <<High(k)>>
                   /\ \/ /\ prevSib'[s] = <<>>
                         /\ \A k \in {idx} \cup idx + 1 .. OrNum : Paired(k) => High(k) # s
                      \/ \E k \in {idx} \cup idx + 1 .. OrNum :
                           Paired(k) /\ High(k) = s /\ prevSib'[s] = <<Low(k)>>
        <5>1. s # Low(idx) => nextSib'[s] = nextSib[s]
          BY <4>2, <4>3
        <5>2. s # High(idx) => prevSib'[s] = prevSib[s]
          BY <4>2, <4>3
        <5> QED
          BY <3>1, <4>1, <4>5, <4>6, <5>1, <5>2 DEF Siblings
      <4>8. \A k : /\ Paired(k)' <=> Paired(k)
                   /\ Low(k)' = Low(k) /\ High(k)' = High(k)
        BY <1>1, <1>2 DEF Paired, Low, High
      <4> QED
        BY <1>2, <2>1, <4>7, <4>8 DEF Siblings
    <3> QED
      BY <3>2, <3>3
  <2> QED
    BY <1>3, <1>4, <2>1, <2>2, <2>3 DEF SiblingInv
<1>7. CASE ProcessLiveOut \/ FinishCreate \/ UNCHANGED ltvars
  BY <1>5, <1>7 DEF ProcessLiveOut, FinishCreate, ltvars, SiblingInv
<1> QED
  BY <1>6, <1>7 DEF LTNext

\* What an SR may be or become: its register, the one it prefers, the usable.
Held(s) == (usable[s] \cup {pref[s], phy[s]}) \ {0}

\* The low half of a pair goes to an even register, the high one to an odd.
HalvesOK(k) ==
    /\ \A r \in Held(Low(k)) : IsEvenReg(r)
    /\ \A r \in Held(High(k)) : ~IsEvenReg(r)

\* The half that is not coloured prefers the register beside the other's.
PartnersOK(k) ==
    /\ Allocated(Low(k)) /\ Allocated(High(k)) => phy[High(k)] = phy[Low(k)] + 1
    /\ ~Allocated(High(k)) =>
         pref[High(k)] = IF Allocated(Low(k)) THEN phy[Low(k)] + 1 ELSE 0
    /\ ~Allocated(Low(k)) =>
         pref[Low(k)] = IF Allocated(High(k)) THEN phy[High(k)] - 1 ELSE 0

PairInv ==
    /\ step = "lifetime" => \A s \in SR : usable[s] = {}
    /\ step \in {"lifetime", "graph"} => \A s \in SR : pref[s] = 0
    /\ step = "avoid" => pref[cur] = 0
    /\ OnePartner => \A k \in 1 .. OrNum :
         Paired(k) /\ PhyReg[Low(k)] = 0 => HalvesOK(k) /\ PartnersOK(k)
\* No sibling, and one: it gets a preference if it can have the register.
LEMMA NoSibling ==
    ASSUME NEW list \in Seq(SR), list = <<>>, NEW r \in Int, NEW d \in Int, NEW p \in [SR -> Int]
    PROVE  /\ Fitting(list, r, d) = 1 .. Len(list)
           /\ PrefAfter(list, r, d, p) = p
<1>1. Fitting(list, r, d) = {} /\ 1 .. Len(list) = {}
  BY DEF Fitting
<1>2. PrefAfter(list, r, d, p) = p
  BY <1>1 DEF PrefAfter
<1> QED
  BY <1>1, <1>2

LEMMA OneSibling ==
    ASSUME NEW list \in Seq(SR), Len(list) = 1,
           NEW r \in Int, NEW d \in Int, NEW p \in [SR -> Int]
    PROVE  /\ (Fitting(list, r, d) = 1 .. Len(list)) <=> r + d \in Allocable
           /\ PrefAfter(list, r, d, p) \in [SR -> Int]
           /\ \A s \in SR : PrefAfter(list, r, d, p)[s] =
                IF s = list[1] /\ ~Allocated(s) /\ r + d \in Allocable THEN r + d ELSE p[s]
<1> DEFINE x == list[1]
           q == r + d
<1>0. x \in SR /\ q \in Int
  OBVIOUS
<1>1. SiblingReg(r, d, 1) = q
  BY DEF SiblingReg
<1>2. 1 .. Len(list) = {1} /\ (\A j \in 1 .. 1 : j = 1) /\ list[1] = x
  OBVIOUS
<1> HIDE DEF x, q
<1>3. Fitting(list, r, d) = IF q \in Allocable THEN {1} ELSE {}
  BY <1>1, <1>2 DEF Fitting
<1>4. ASSUME NEW F, F = (IF q \in Allocable THEN {1} ELSE {}), NEW s \in SR
      PROVE  (IF ~Allocated(s) /\ \E i \in F : list[i] = s
              THEN SiblingReg(r, d, CHOOSE i \in F : list[i] = s) ELSE p[s])
             = IF s = x /\ ~Allocated(s) /\ q \in Allocable THEN q ELSE p[s]
  <2>1. CASE q \in Allocable
    <3>1. F = {1}
      BY <1>4, <2>1
    <3>2. (CHOOSE i \in F : list[i] = x) = 1
      BY <1>2, <3>1
    <3>3. SiblingReg(r, d, CHOOSE i \in F : list[i] = x) = q
      BY <1>1, <3>2
    <3>4. (\E i \in F : list[i] = s) <=> s = x
      BY <1>2, <3>1
    <3> QED
      BY <2>1, <3>3, <3>4
  <2>2. CASE q \notin Allocable
    <3>1. F = {}
      BY <1>4, <2>2
    <3> QED
      BY <2>2, <3>1
  <2> QED
    BY <2>1, <2>2
<1> DEFINE F == Fitting(list, r, d)
           P == [s \in SR |-> IF ~Allocated(s) /\ \E i \in F : list[i] = s
                              THEN SiblingReg(r, d, CHOOSE i \in F : list[i] = s)
                              ELSE p[s]]
<1>5. PrefAfter(list, r, d, p) = P
  BY DEF PrefAfter
<1>6. \A s \in SR : P[s] = IF s = x /\ ~Allocated(s) /\ q \in Allocable THEN q ELSE p[s]
  <2> HIDE DEF F
  <2> QED
    BY <1>3, <1>4 DEF F
<1>7. P \in [SR -> Int]
  <2>1. P = [s \in SR |-> P[s]]
    OBVIOUS
  <2> HIDE DEF P
  <2>2. \A s \in SR : P[s] \in Int
    BY <1>0, <1>6
  <2> QED
    BY <2>1, <2>2
<1> HIDE DEF P, F
<1> QED
  BY <1>2, <1>3, <1>5, <1>6, <1>7 DEF F, x, q

\* What the end of assignRegister leaves usable, and no SR gets a register
\* but the current one.
LEMMA FinTakes ==
    ASSUME TypeOKAR, NEW r \in Reg, NEW left \in SUBSET usable[cur], Fin(r, left)
    PROVE  /\ \A s \in SR : usable'[s] \subseteq usable[s]
           /\ \A s \in SR : s # cur => phy'[s] = phy[s]
<1>1. \/ phy' = phy /\ usable' = [usable EXCEPT ![cur] = left]
      \/ /\ phy' = [phy EXCEPT ![cur] = r]
         /\ usable' = [t \in SR |->
                IF t = cur THEN left
                ELSE IF t \in Neighbours(cur) /\ ~Allocated(t)
                THEN usable[t] \ {r} ELSE usable[t]]
  BY DEF Fin
<1> QED
  BY <1>1 DEF TypeOKAR

\* Once all ORs are scanned, the siblings are the partners.
LEMMA PartnerSiblings ==
    ASSUME TypeOKAR, SiblingInv, OnePartner, idx = 0, NEW s \in SR
    PROVE  /\ \A k \in 1 .. OrNum : Paired(k) /\ Low(k) = s =>
                 nextSib[s] = <<High(k)>> /\ prevSib[s] = <<>>
           /\ \A k \in 1 .. OrNum : Paired(k) /\ High(k) = s =>
                 nextSib[s] = <<>> /\ prevSib[s] = <<Low(k)>>
           /\ (\A k \in 1 .. OrNum : Paired(k) => Low(k) # s /\ High(k) # s) =>
                 nextSib[s] = <<>> /\ prevSib[s] = <<>>
<1>1. idx + 1 .. OrNum = 1 .. OrNum
  BY DEF TypeOKAR, TypeOKLT, BB, OrNum
<1>2. /\ \/ /\ nextSib[s] = <<>>
            /\ \A k \in 1 .. OrNum : Paired(k) => Low(k) # s
         \/ \E k \in 1 .. OrNum : Paired(k) /\ Low(k) = s /\ nextSib[s] = <<High(k)>>
      /\ \/ /\ prevSib[s] = <<>>
            /\ \A k \in 1 .. OrNum : Paired(k) => High(k) # s
         \/ \E k \in 1 .. OrNum : Paired(k) /\ High(k) = s /\ prevSib[s] = <<Low(k)>>
  BY <1>1 DEF SiblingInv, Siblings
<1>3. \A i, j \in 1 .. OrNum : Paired(i) /\ Paired(j) => Low(i) # High(j)
  BY DEF SiblingInv, PairsOK
<1>4. \A i, j \in 1 .. OrNum : Paired(i) /\ Paired(j) =>
        (Low(i) = Low(j) <=> High(i) = High(j))
  BY DEF OnePartner
<1> QED
  BY <1>2, <1>3, <1>4

\* The end of assignRegister for the half of a pair: it gets the register, and
\* the other half, if it has none, prefers the one beside it; or neither.
LEMMA FinHalf ==
    ASSUME TypeOKAR, SiblingInv, OnePartner, idx = 0,
           NEW r \in Reg, NEW left, Fin(r, left)
    PROVE  /\ \A k \in 1 .. OrNum : Paired(k) /\ Low(k) = cur =>
                 \/ phy' = phy /\ \A s \in SR : pref'[s] = pref[s]
                 \/ /\ phy' = [phy EXCEPT ![cur] = r]
                    /\ \A s \in SR : pref'[s] =
                         IF s = High(k) /\ ~Allocated(s) THEN r + 1 ELSE pref[s]
           /\ \A k \in 1 .. OrNum : Paired(k) /\ High(k) = cur =>
                 \/ phy' = phy /\ \A s \in SR : pref'[s] = pref[s]
                 \/ /\ phy' = [phy EXCEPT ![cur] = r]
                    /\ \A s \in SR : pref'[s] =
                         IF s = Low(k) /\ ~Allocated(s) THEN r - 1 ELSE pref[s]
           /\ (\A k \in 1 .. OrNum : Paired(k) => Low(k) # cur /\ High(k) # cur) =>
                 phy' = [phy EXCEPT ![cur] = r] /\ pref' = pref
<1>0. /\ cur \in SR /\ r \in Int /\ pref \in [SR -> Int]
      /\ 1 \in Int /\ -1 \in Int /\ nextSib[cur] \in Seq(SR) /\ prevSib[cur] \in Seq(SR)
      /\ r + 1 \in Int /\ r - 1 \in Int /\ r - 1 = r + (-1)
  <2>1. Reg \subseteq Int /\ Allocable \subseteq Reg
    BY AllocableRegisters, LifeTimeRegisters
  <2>2. r \in Int /\ r + 1 \in Int /\ r - 1 \in Int /\ r - 1 = r + (-1)
    BY <2>1
  <2>3. pref \in [SR -> Int]
    <3>1. Allocable \cup {0} \subseteq Int
      BY <2>1
    <3> QED
      BY <3>1 DEF TypeOKAR
  <2> QED
    BY <2>2, <2>3 DEF TypeOKAR, TypeOKLT
<1> DEFINE next == nextSib[cur]
           prev == prevSib[cur]
           nextFits == Fitting(next, r, 1) = 1 .. Len(next)
           prevFits == Fitting(prev, r, -1) = 1 .. Len(prev)
           pref1 == PrefAfter(next, r, 1, pref)
<1>1. /\ pref' = IF nextFits THEN PrefAfter(prev, r, -1, pref1) ELSE pref1
      /\ nextFits /\ prevFits => phy' = [phy EXCEPT ![cur] = r]
      /\ ~(nextFits /\ prevFits) => phy' = phy
  BY DEF Fin
<1>2. ASSUME NEW k \in 1 .. OrNum, Paired(k), Low(k) = cur
      PROVE  \/ phy' = phy /\ \A s \in SR : pref'[s] = pref[s]
             \/ /\ phy' = [phy EXCEPT ![cur] = r]
                /\ \A s \in SR : pref'[s] =
                     IF s = High(k) /\ ~Allocated(s) THEN r + 1 ELSE pref[s]
  <2>0. next = <<High(k)>> /\ prev = <<>> /\ High(k) \in SR
    BY <1>0, <1>2, PartnerSiblings DEF SiblingInv, PairsOK
  <2>1. /\ prev = <<>> /\ High(k) = next[1] /\ Len(next) = 1
        /\ next \in Seq(SR) /\ prev \in Seq(SR)
    BY <1>0, <2>0
  <2>2. /\ nextFits <=> r + 1 \in Allocable
        /\ pref1 \in [SR -> Int]
        /\ \A s \in SR : pref1[s] =
             IF s = High(k) /\ ~Allocated(s) /\ r + 1 \in Allocable THEN r + 1 ELSE pref[s]
    <3> HIDE DEF next, prev
    <3>1. (Fitting(next, r, 1) = 1 .. Len(next)) <=> r + 1 \in Allocable
      BY <1>0, <2>1, OneSibling
    <3>2. PrefAfter(next, r, 1, pref) \in [SR -> Int]
      BY <1>0, <2>1, OneSibling
    <3>3. \A s \in SR : PrefAfter(next, r, 1, pref)[s] =
             IF s = next[1] /\ ~Allocated(s) /\ r + 1 \in Allocable THEN r + 1 ELSE pref[s]
      <4>1. next \in Seq(SR) /\ Len(next) = 1 /\ r \in Int /\ 1 \in Int
        BY <1>0, <2>1
      <4>2. pref \in [SR -> Int]
        BY <1>0
      <4> QED
        BY <4>1, <4>2, OneSibling
    <3> QED
      BY <2>1, <3>1, <3>2, <3>3
  <2> HIDE DEF pref1
  <2>3. prevFits /\ PrefAfter(prev, r, -1, pref1) = pref1
    <3> HIDE DEF next, prev
    <3> QED
      BY ZenonT(30), <1>0, <2>1, <2>2, NoSibling
  <2> HIDE DEF nextFits, prevFits
  <2> QED
    BY <1>1, <2>2, <2>3
<1>3. ASSUME NEW k \in 1 .. OrNum, Paired(k), High(k) = cur
      PROVE  \/ phy' = phy /\ \A s \in SR : pref'[s] = pref[s]
             \/ /\ phy' = [phy EXCEPT ![cur] = r]
                /\ \A s \in SR : pref'[s] =
                     IF s = Low(k) /\ ~Allocated(s) THEN r - 1 ELSE pref[s]
  <2>0. next = <<>> /\ prev = <<Low(k)>> /\ Low(k) \in SR
    BY <1>0, <1>3, PartnerSiblings DEF SiblingInv, PairsOK
  <2>1. /\ next = <<>> /\ Low(k) = prev[1] /\ Len(prev) = 1
        /\ next \in Seq(SR) /\ prev \in Seq(SR)
    BY <1>0, <2>0
  <2>2. nextFits /\ pref1 = pref
    <3> HIDE DEF next, prev
    <3> QED
      BY ZenonT(30), <1>0, <2>1, NoSibling
  <2>3. /\ prevFits <=> r + (-1) \in Allocable
        /\ \A s \in SR : PrefAfter(prev, r, -1, pref)[s] =
             IF s = Low(k) /\ ~Allocated(s) /\ r + (-1) \in Allocable
             THEN r + (-1) ELSE pref[s]
    <3> HIDE DEF next, prev
    <3>1. (Fitting(prev, r, -1) = 1 .. Len(prev)) <=> r + (-1) \in Allocable
      BY <1>0, <2>1, OneSibling
    <3>2. \A s \in SR : PrefAfter(prev, r, -1, pref)[s] =
             IF s = prev[1] /\ ~Allocated(s) /\ r + (-1) \in Allocable
             THEN r + (-1) ELSE pref[s]
      BY ZenonT(30), <1>0, <2>1, OneSibling
    <3> QED
      BY <2>1, <3>1, <3>2
  <2> HIDE DEF nextFits, prevFits, pref1
  <2> QED
    BY <1>0, <1>1, <2>2, <2>3
<1>4. ASSUME \A k \in 1 .. OrNum : Paired(k) => Low(k) # cur /\ High(k) # cur
      PROVE  phy' = [phy EXCEPT ![cur] = r] /\ pref' = pref
  <2>1. /\ next = <<>> /\ prev = <<>>
        /\ next \in Seq(SR) /\ prev \in Seq(SR)
    BY <1>0, <1>4, PartnerSiblings
  <2>2. nextFits /\ prevFits /\ pref1 = pref /\ PrefAfter(prev, r, -1, pref) = pref
    <3> HIDE DEF next, prev
    <3>1. Fitting(next, r, 1) = 1 .. Len(next) /\ PrefAfter(next, r, 1, pref) = pref
      BY ZenonT(30), <1>0, <2>1, NoSibling
    <3>2. Fitting(prev, r, -1) = 1 .. Len(prev) /\ PrefAfter(prev, r, -1, pref) = pref
      BY ZenonT(30), <1>0, <2>1, NoSibling
    <3> QED
      BY <3>1, <3>2
  <2> HIDE DEF nextFits, prevFits, pref1
  <2> QED
    BY <1>1, <2>2
<1> QED
  BY <1>2, <1>3, <1>4
LEMMA PairInit == ARInit => SiblingInv /\ PairInv
<1> SUFFICES ASSUME ARInit PROVE SiblingInv /\ PairInv
  OBVIOUS
<1>1. SiblingInv
  BY SiblingInit DEF ARInit
<1>2. step = "lifetime" /\ phy = PhyReg /\ \A s \in SR : usable[s] = {} /\ pref[s] = 0
  BY DEF ARInit
<1>3. ASSUME NEW k \in 1 .. OrNum, Paired(k), PhyReg[Low(k)] = 0
      PROVE  HalvesOK(k) /\ PartnersOK(k)
  <2>1. Low(k) \in SR /\ High(k) \in SR /\ PhyReg[High(k)] = 0
    BY <1>1, <1>3 DEF SiblingInv, PairsOK
  <2>2. Held(Low(k)) = {} /\ Held(High(k)) = {}
    BY <1>2, <1>3, <2>1 DEF Held
  <2>3. ~Allocated(Low(k)) /\ ~Allocated(High(k))
    BY <1>2, <1>3, <2>1 DEF Allocated
  <2> QED
    BY <1>2, <2>1, <2>2, <2>3 DEF HalvesOK, PartnersOK
<1> QED
  BY <1>1, <1>2, <1>3 DEF PairInv

\* Even and odd alternate, and a register is a positive number.
LEMMA Parity ==
    ASSUME NEW r \in Reg
    PROVE  /\ r \in Int /\ r # 0
           /\ IsEvenReg(r) => ~IsEvenReg(r + 1)
           /\ ~IsEvenReg(r) => IsEvenReg(r - 1) /\ r - 1 # 0
<1>1. r \in Nat /\ r # 0
  BY LifeTimeRegisters
<1> QED
  BY <1>1 DEF IsEvenReg

\* The usable registers of an SR that has none yet suit every OR it is in.
LEMMA UsableHalves ==
    ASSUME TypeOKAR, SiblingInv, idx = 0, ComputeUsableRegs, phy = PhyReg,
           NEW k \in 1 .. OrNum, Paired(k), PhyReg[Low(k)] = 0
    PROVE  /\ \A r \in usable'[Low(k)] : IsEvenReg(r)
           /\ \A r \in usable'[High(k)] : ~IsEvenReg(r)
<1>1. Low(k) \in SR /\ High(k) \in SR /\ PhyReg[High(k)] = 0 /\ Low(k) # High(k)
      /\ {Low(k), High(k)} \subseteq Results(bb.ors[k]) \cup bb.ors[k].opnd
  BY DEF SiblingInv, PairsOK
<1>2. k \in idx + 1 .. OrNum
  BY DEF TypeOKAR, TypeOKLT, BB, OrNum
<1>3. k \in OrsOf(Low(k)) /\ k \in OrsOf(High(k))
  BY <1>1, <1>2 DEF SiblingInv, Described, OrsOf
<1>4. ~Allocated(Low(k)) /\ ~Allocated(High(k))
  BY <1>1 DEF Allocated
<1>5. /\ usable'[Low(k)] \subseteq UsableRegs(Low(k))
      /\ usable'[High(k)] \subseteq UsableRegs(High(k))
  BY <1>1 DEF ComputeUsableRegs
<1>6. /\ PairRegs(Low(k), k) = {r \in Reg : IsEvenReg(r)}
      /\ PairRegs(High(k), k) = {r \in Reg : ~IsEvenReg(r)}
  BY <1>1 DEF PairRegs, Paired, Low, High
<1>7. /\ \A r \in UsableRegs(Low(k)) : r \in PairRegs(Low(k), k)
      /\ \A r \in UsableRegs(High(k)) : r \in PairRegs(High(k), k)
  BY <1>3, <1>4 DEF UsableRegs
<1> QED
  BY <1>5, <1>6, <1>7

\* The end of assignRegister for a life time that prefers r or nothing.
LEMMA FinPairs ==
    ASSUME Inv, SiblingInv, PairInv, OnePartner, idx = 0,
           step \in {"avoid", "fin"},
           NEW r \in usable[cur], NEW left \in SUBSET usable[cur], Fin(r, left),
           pref[cur] \in {0, r},
           NEW k \in 1 .. OrNum, Paired(k), PhyReg[Low(k)] = 0
    PROVE  /\ \A q \in (usable'[Low(k)] \cup {pref'[Low(k)], phy'[Low(k)]}) \ {0} :
                IsEvenReg(q)
           /\ \A q \in (usable'[High(k)] \cup {pref'[High(k)], phy'[High(k)]}) \ {0} :
                ~IsEvenReg(q)
           /\ phy'[Low(k)] # 0 /\ phy'[High(k)] # 0 => phy'[High(k)] = phy'[Low(k)] + 1
           /\ phy'[High(k)] = 0 =>
                pref'[High(k)] = IF phy'[Low(k)] # 0 THEN phy'[Low(k)] + 1 ELSE 0
           /\ phy'[Low(k)] = 0 =>
                pref'[Low(k)] = IF phy'[High(k)] # 0 THEN phy'[High(k)] - 1 ELSE 0
<1> DEFINE low == Low(k)
           high == High(k)
<1>1. /\ TypeOKAR /\ cur \in SR /\ phy[cur] = 0 /\ r \in Reg
      /\ phy \in [SR -> Reg \cup {0}]
  BY DEF Inv, CurrentOK, TypeOKAR, Allocated
<1>2. low \in SR /\ high \in SR /\ low # high
  BY DEF SiblingInv, PairsOK
<1>3. /\ \A s \in SR : usable'[s] \subseteq usable[s]
      /\ \A s \in SR : s # cur => phy'[s] = phy[s]
  BY <1>1, FinTakes
<1>4. /\ \A q \in usable[low] : q # 0 => IsEvenReg(q)
      /\ \A q \in usable[high] : q # 0 => ~IsEvenReg(q)
      /\ pref[low] # 0 => IsEvenReg(pref[low])
      /\ phy[low] # 0 => IsEvenReg(phy[low])
      /\ pref[high] # 0 => ~IsEvenReg(pref[high])
      /\ phy[high] # 0 => ~IsEvenReg(phy[high])
  BY DEF PairInv, HalvesOK, Held
<1>5. /\ phy[low] # 0 /\ phy[high] # 0 => phy[high] = phy[low] + 1
      /\ phy[high] = 0 => pref[high] = IF phy[low] # 0 THEN phy[low] + 1 ELSE 0
      /\ phy[low] = 0 => pref[low] = IF phy[high] # 0 THEN phy[high] - 1 ELSE 0
  BY DEF PairInv, PartnersOK, Allocated
<1>6. /\ \A q \in usable'[low] : q # 0 => IsEvenReg(q)
      /\ \A q \in usable'[high] : q # 0 => ~IsEvenReg(q)
  BY <1>2, <1>3, <1>4
<1> DEFINE Kept ==
             /\ pref'[low] # 0 => IsEvenReg(pref'[low])
             /\ phy'[low] # 0 => IsEvenReg(phy'[low])
             /\ pref'[high] # 0 => ~IsEvenReg(pref'[high])
             /\ phy'[high] # 0 => ~IsEvenReg(phy'[high])
             /\ phy'[low] # 0 /\ phy'[high] # 0 => phy'[high] = phy'[low] + 1
             /\ phy'[high] = 0 => pref'[high] = IF phy'[low] # 0 THEN phy'[low] + 1 ELSE 0
             /\ phy'[low] = 0 => pref'[low] = IF phy'[high] # 0 THEN phy'[high] - 1 ELSE 0
<1>7. CASE /\ phy'[low] = phy[low] /\ phy'[high] = phy[high]
           /\ pref'[low] = pref[low] /\ pref'[high] = pref[high]
  <2> HIDE DEF low, high
  <2>1. Kept
    BY <1>4, <1>5, <1>7
  <2> QED
    BY <1>6, <2>1 DEF low, high
<1>8. CASE low = cur
  <2>1. \/ phy' = phy /\ \A s \in SR : pref'[s] = pref[s]
        \/ /\ phy' = [phy EXCEPT ![cur] = r]
           /\ \A s \in SR : pref'[s] =
                IF s = high /\ ~Allocated(s) THEN r + 1 ELSE pref[s]
    BY <1>1, <1>8, FinHalf
  <2>2. CASE phy' = phy /\ \A s \in SR : pref'[s] = pref[s]
    BY <1>2, <1>7, <2>2
  <2>3. CASE /\ phy' = [phy EXCEPT ![cur] = r]
             /\ \A s \in SR : pref'[s] =
                  IF s = high /\ ~Allocated(s) THEN r + 1 ELSE pref[s]
    <3>1. /\ phy'[low] = r /\ phy'[high] = phy[high] /\ pref'[low] = pref[low]
          /\ pref'[high] = IF phy[high] = 0 THEN r + 1 ELSE pref[high]
      BY <1>1, <1>2, <1>8, <2>3 DEF Allocated
    <3>2. /\ r \in Int /\ r # 0 /\ IsEvenReg(r) /\ ~IsEvenReg(r + 1)
      BY <1>1, <1>4, <1>8, Parity
    <3>3. phy[high] # 0 => phy[high] \in Int /\ phy[high] - 1 # 0
      BY <1>1, <1>2, <1>4, Parity
    <3>4. phy[high] # 0 => phy[high] = r + 1
      <4>1. phy[high] # 0 => pref[low] = phy[high] - 1
        BY <1>1, <1>5, <1>8
      <4> HIDE DEF low, high
      <4> QED
        BY <1>8, <3>2, <3>3, <4>1
    <3> HIDE DEF low, high
    <3>5. Kept
      BY <1>4, <3>1, <3>2, <3>4
    <3> QED
      BY <1>6, <3>5 DEF low, high
  <2> QED
    BY <2>1, <2>2, <2>3
<1>9. CASE high = cur
  <2>1. \/ phy' = phy /\ \A s \in SR : pref'[s] = pref[s]
        \/ /\ phy' = [phy EXCEPT ![cur] = r]
           /\ \A s \in SR : pref'[s] =
                IF s = low /\ ~Allocated(s) THEN r - 1 ELSE pref[s]
    BY <1>1, <1>9, FinHalf
  <2>2. CASE phy' = phy /\ \A s \in SR : pref'[s] = pref[s]
    BY <1>2, <1>7, <2>2
  <2>3. CASE /\ phy' = [phy EXCEPT ![cur] = r]
             /\ \A s \in SR : pref'[s] =
                  IF s = low /\ ~Allocated(s) THEN r - 1 ELSE pref[s]
    <3>1. /\ phy'[high] = r /\ phy'[low] = phy[low] /\ pref'[high] = pref[high]
          /\ pref'[low] = IF phy[low] = 0 THEN r - 1 ELSE pref[low]
      BY <1>1, <1>2, <1>9, <2>3 DEF Allocated
    <3>2. /\ r \in Int /\ r # 0 /\ ~IsEvenReg(r) /\ IsEvenReg(r - 1)
      BY <1>1, <1>4, <1>9, Parity
    <3>3. phy[low] # 0 => phy[low] \in Nat
      BY <1>1, <1>2, LifeTimeRegisters
    <3>4. phy[low] # 0 => r = phy[low] + 1
      <4>1. phy[low] # 0 => pref[high] = phy[low] + 1
        BY <1>1, <1>5, <1>9
      <4> HIDE DEF low, high
      <4> QED
        BY <1>9, <3>2, <3>3, <4>1
    <3> HIDE DEF low, high
    <3>5. Kept
      BY <1>4, <3>1, <3>2, <3>4
    <3> QED
      BY <1>6, <3>5 DEF low, high
  <2> QED
    BY <2>1, <2>2, <2>3
<1>10. CASE low # cur /\ high # cur
  <2>1. phy'[low] = phy[low] /\ phy'[high] = phy[high]
    BY <1>2, <1>3, <1>10
  <2>2. pref'[low] = pref[low] /\ pref'[high] = pref[high]
    <3>1. CASE \E j \in 1 .. OrNum : Paired(j) /\ Low(j) = cur
      <4>1. PICK j \in 1 .. OrNum : Paired(j) /\ Low(j) = cur
        BY <3>1
      <4>2. High(j) # low /\ High(j) # high
        BY <1>10, <4>1 DEF SiblingInv, PairsOK, OnePartner
      <4> QED
        BY <1>1, <1>2, <4>1, <4>2, FinHalf
    <3>2. CASE \E j \in 1 .. OrNum : Paired(j) /\ High(j) = cur
      <4>1. PICK j \in 1 .. OrNum : Paired(j) /\ High(j) = cur
        BY <3>2
      <4>2. Low(j) # low /\ Low(j) # high
        BY <1>10, <4>1 DEF SiblingInv, PairsOK, OnePartner
      <4> QED
        BY <1>1, <1>2, <4>1, <4>2, FinHalf
    <3>3. CASE \A j \in 1 .. OrNum : Paired(j) => Low(j) # cur /\ High(j) # cur
      BY <1>1, <3>3, FinHalf
    <3> QED
      BY <3>1, <3>2, <3>3
  <2> QED
    BY <1>7, <2>1, <2>2
<1> QED
  BY <1>8, <1>9, <1>10

LEMMA PairStep ==
    Inv /\ SiblingInv /\ PairInv /\ [ARNext]_lravars => SiblingInv' /\ PairInv'
<1> SUFFICES ASSUME Inv, SiblingInv, PairInv, [ARNext]_lravars
             PROVE  SiblingInv' /\ PairInv'
  OBVIOUS
<1>1. CreateLifeTimes \/ UNCHANGED ltvars
  BY ColouringSteps DEF ARNext, ComputeUsableRegs, BuildGraph, lravars
<1>2. SiblingInv'
  BY <1>1, SiblingStep DEF Inv, TypeOKAR, CreateLifeTimes
<1>3. /\ OrNum' = OrNum /\ (OnePartner' <=> OnePartner)
      /\ \A k : (Paired(k)' <=> Paired(k)) /\ Low(k)' = Low(k) /\ High(k)' = High(k)
  <2>1. bb'.ors = bb.ors
    BY <1>1 DEF CreateLifeTimes, LTNext, ProcessLiveOut, ScanOR, FinishCreate, ltvars,
                Inv, TypeOKAR, TypeOKLT, BB
  <2> QED
    BY <2>1 DEF OrNum, OnePartner, Paired, Low, High
<1>4. \A k \in 1 .. OrNum : Paired(k) => Low(k) \in SR /\ High(k) \in SR
  BY DEF SiblingInv, PairsOK
\* Steps that colour nothing and state no preference.
<1>5. ASSUME UNCHANGED <<phy, pref>>, OnePartner,
             \A s \in SR : usable'[s] \subseteq usable[s] \cup ({pref[s]} \ {0}),
             NEW k \in 1 .. OrNum, Paired(k), PhyReg[Low(k)] = 0
      PROVE  HalvesOK(k)' /\ PartnersOK(k)'
  <2>1. HalvesOK(k) /\ PartnersOK(k)
    BY <1>5 DEF PairInv
  <2>2. /\ Held(Low(k))' \subseteq Held(Low(k))
        /\ Held(High(k))' \subseteq Held(High(k))
    BY <1>3, <1>4, <1>5 DEF Held
  <2>3. HalvesOK(k)'
    BY <1>3, <2>1, <2>2 DEF HalvesOK, Held
  <2>4. PartnersOK(k)'
    BY <1>3, <1>5, <2>1 DEF PartnersOK, Allocated
  <2> QED
    BY <2>3, <2>4
<1>6. CASE CreateLifeTimes
  <2>1. UNCHANGED arvars
    BY <1>6 DEF CreateLifeTimes
  <2>2. UNCHANGED <<phy, pref, usable, step, cur>>
    BY <2>1 DEF arvars
  <2> QED
    BY <1>2, <1>3, <1>5, <2>2 DEF PairInv
<1>7. CASE ComputeUsableRegs
  <2>1. /\ phy = PhyReg /\ UNCHANGED <<phy, pref>> /\ step' = "graph" /\ idx = 0
        /\ \A s \in SR : pref[s] = 0
    BY <1>7 DEF ComputeUsableRegs, Inv, Phases, SiblingInv, PairInv
  <2>2. ASSUME NEW k \in 1 .. OrNum, Paired(k), PhyReg[Low(k)] = 0
        PROVE  HalvesOK(k)' /\ PartnersOK(k)'
    <3>1. PhyReg[High(k)] = 0
      BY <2>2 DEF SiblingInv, PairsOK
    <3>2. /\ \A r \in usable'[Low(k)] : IsEvenReg(r)
          /\ \A r \in usable'[High(k)] : ~IsEvenReg(r)
      BY <1>7, <2>1, <2>2, UsableHalves DEF Inv
    <3>3. /\ Held(Low(k))' \subseteq usable'[Low(k)]
          /\ Held(High(k))' \subseteq usable'[High(k)]
      BY <1>3, <1>4, <2>1, <2>2, <3>1 DEF Held
    <3>4. HalvesOK(k)'
      BY <1>3, <3>2, <3>3 DEF HalvesOK, Held
    <3>5. PartnersOK(k)'
      BY <1>3, <1>4, <2>1, <2>2, <3>1 DEF PartnersOK, Allocated
    <3> QED
      BY <3>4, <3>5
  <2> QED
    BY <1>2, <1>3, <2>1, <2>2 DEF PairInv
<1>8. CASE BuildGraph
  <2>1. UNCHANGED <<phy, pref, usable>> /\ step' = "next"
    BY <1>8 DEF BuildGraph
  <2> QED
    BY <1>2, <1>3, <1>5, <2>1 DEF PairInv
<1>9. CASE NextLifeTime
  <2>1. UNCHANGED <<phy, pref>> /\ step = "next" /\ step' \notin {"lifetime", "graph"}
    BY <1>9 DEF NextLifeTime
  <2>2. step' = "avoid" => pref'[cur'] = 0
    BY <1>9 DEF NextLifeTime
  <2>3. \A s \in SR : usable'[s] \subseteq usable[s]
    <3>1. PICK s \in SR : usable' = usable \/ usable' = [usable EXCEPT ![s] = Deducted(s)]
      BY <1>9, NextEffect DEF Inv
    <3>2. Deducted(s) \subseteq usable[s]
      BY DEF Deducted
    <3> QED
      BY <3>1, <3>2 DEF Inv, TypeOKAR
  <2> QED
    BY <1>2, <1>3, <1>5, <2>1, <2>2, <2>3 DEF PairInv
<1>10. CASE AvoidNeighbour
  <2>1. UNCHANGED <<phy, pref, step, cur>> /\ step = "avoid"
    BY <1>10 DEF AvoidNeighbour
  <2>2. \A s \in SR : usable'[s] \subseteq usable[s] \cup ({pref[s]} \ {0})
    <3>1. PICK t \in todo :
         usable' = [usable EXCEPT ![t] = usable[t] \cup ({pref[t]} \ {0}),
                 ![cur] = IF Cardinality(usable[t] \cup ({pref[t]} \ {0})) < Cardinality(@)
                          THEN @ \ (usable[t] \cup ({pref[t]} \ {0})) ELSE @]
      BY <1>10 DEF AvoidNeighbour
    <3>2. t \in SR /\ cur \in SR /\ t # cur /\ usable \in [SR -> SUBSET Reg]
      BY DEF Inv, TypeOKAR, TypeOKLT, Neighbours, GraphComplete
    <3> QED
      BY <3>1, <3>2
  <2> QED
    BY <1>2, <1>3, <1>5, <2>1, <2>2 DEF PairInv
<1>11. CASE AssignChosen \/ AssignPreferred
  <2>1. PICK r \in usable[cur], left \in SUBSET usable[cur] :
          Fin(r, left) /\ pref[cur] \in {0, r} /\ step \in {"avoid", "fin"}
    <3>1. CASE AssignChosen
      BY <3>1, CandidatesUsable DEF AssignChosen, PairInv
    <3>2. CASE AssignPreferred
      BY <3>2 DEF AssignPreferred, Inv, CurrentOK
    <3> QED
      BY <1>11, <3>1, <3>2
  <2>2. step' = "next" /\ idx = 0
    BY <2>1, FinEffect DEF Inv, Phases, SiblingInv
  <2>3. ASSUME OnePartner, NEW k \in 1 .. OrNum, Paired(k), PhyReg[Low(k)] = 0
        PROVE  HalvesOK(k)' /\ PartnersOK(k)'
    <3>1. /\ \A q \in (usable'[Low(k)] \cup {pref'[Low(k)], phy'[Low(k)]}) \ {0} :
               IsEvenReg(q)
          /\ \A q \in (usable'[High(k)] \cup {pref'[High(k)], phy'[High(k)]}) \ {0} :
               ~IsEvenReg(q)
          /\ phy'[Low(k)] # 0 /\ phy'[High(k)] # 0 => phy'[High(k)] = phy'[Low(k)] + 1
          /\ phy'[High(k)] = 0 =>
               pref'[High(k)] = IF phy'[Low(k)] # 0 THEN phy'[Low(k)] + 1 ELSE 0
          /\ phy'[Low(k)] = 0 =>
               pref'[Low(k)] = IF phy'[High(k)] # 0 THEN phy'[High(k)] - 1 ELSE 0
      BY <2>1, <2>2, <2>3, FinPairs
    <3>2. HalvesOK(k)'
      BY <1>3, <3>1 DEF HalvesOK, Held
    <3>3. PartnersOK(k)'
      BY <1>3, <3>1 DEF PartnersOK, Allocated
    <3> QED
      BY <3>2, <3>3
  <2> QED
    BY <1>2, <1>3, <2>2, <2>3 DEF PairInv
<1>12. CASE UNCHANGED lravars
  <2>1. UNCHANGED <<phy, pref, usable, step, cur>>
    BY <1>12 DEF lravars, arvars
  <2> QED
    BY <1>2, <1>3, <1>5, <2>1 DEF PairInv
<1> QED
  BY <1>6, <1>7, <1>8, <1>9, <1>10, <1>11, <1>12 DEF ARNext

\* LRA::assignRegister with checkAndAssignNextSiblingLT and
\* checkAndAssignPrevSiblingLT, and the even and odd registers of
\* considerSpecialConstraints: whichever half of a pair is coloured first, the
\* halves get an even register and the next.
THEOREM PairsGetAdjacentRegisters == ARSpec => [](OnePartner => PairsAdjacent)
<1>1. ARInit => SiblingInv /\ PairInv
  BY PairInit
<1>2. Inv /\ SiblingInv /\ PairInv /\ [ARNext]_lravars => SiblingInv' /\ PairInv'
  BY PairStep
<1>3. SiblingInv /\ PairInv /\ OnePartner => PairsAdjacent
  <2> SUFFICES ASSUME SiblingInv, PairInv, OnePartner, NEW k \in 1 .. OrNum,
                      Paired(k), Allocated(Low(k)), Allocated(High(k)), ~IsReg(Low(k))
               PROVE  IsEvenReg(phy[Low(k)]) /\ phy[High(k)] = phy[Low(k)] + 1
    BY DEF PairsAdjacent, Paired, Low, High
  <2>1. HalvesOK(k) /\ PartnersOK(k)
    BY DEF PairInv
  <2>2. phy[Low(k)] \in Held(Low(k))
    BY DEF Held, Allocated
  <2> QED
    BY <2>1, <2>2 DEF HalvesOK, PartnersOK
<1> QED
  BY <1>1, <1>2, <1>3, Invariance, PTL DEF ARSpec
=============================================================================
