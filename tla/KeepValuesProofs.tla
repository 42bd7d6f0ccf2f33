-------------------------- MODULE KeepValuesProofs --------------------------
(***************************************************************************)
(* Proofs that register allocation of a basic block changes no value, for  *)
(* every block of any length and every set of registers: the life times of *)
(* LifeTimeMgr::create are long enough, and the colouring of               *)
(* LRA::assignRegister puts the block's values into registers without      *)
(* losing one, whatever predicated ORs are executed.                       *)
(*                                                                         *)
(* The proof has three parts.  The scan leaves a trace, the sets of SRs    *)
(* that are live behind each OR, and the life times cover it (ScanInv,     *)
(* CreatedInv).  Whatever places SRs are put in, if no result is put where *)
(* a live SR is, then every value arrives (PlacesKeepValues); this is an   *)
(* induction over the ORs.  A proper colouring is such a choice of places. *)
(***************************************************************************)
EXTENDS AssignRegProofs, WellFoundedInduction

\* A nonempty set of numbers has a least one: induction without a predicate.
LEMMA LeastNumber ==
    ASSUME NEW S \in SUBSET Nat, S # {} PROVE \E i \in S : \A j \in S : i <= j
<1>1. PICK i \in S : \A j \in S : ~(<<j, i>> \in OpToRel(<, Nat))
  BY NatLessThanWellFounded, WFMin
<1>2. \A j \in S : ~(j < i)
  BY <1>1 DEF OpToRel
<1> QED
  BY <1>2

-----------------------------------------------------------------------------
(* The trace of the scan *)

ORat(k) == bb.ors[k]

\* What OR o ends of the set S of live SRs.
EndedIn(o, S) ==
    IF o.cond THEN {}
    ELSE {s \in S : s \in Results(o) \/ \E r \in Results(o) : SamePhy(r, s)}

\* L[k] is what is live behind OR k, for the ORs from n on; 0 is the entry.
LiveTrace(L, n) ==
    /\ L \in [n .. OrNum -> SUBSET SR]
    /\ L[OrNum] = LiveAtEnd
    /\ \A k \in n + 1 .. OrNum :
         L[k - 1] = (L[k] \ EndedIn(ORat(k), L[k])) \cup ORat(k).opnd

\* OR k has left its marks in the life times.
Recorded(L, k) ==
    /\ \A s \in L[k] \cup Results(ORat(k)) : 2 * k \in ltpos[s]
    /\ \A r \in Results(ORat(k)) : r \in lts /\ <<2 * k, "def">> \in desc[r]
    /\ \A u \in ORat(k).opnd : u \in lts /\ <<2 * k - 1, "use">> \in desc[u]

ScanInv ==
    /\ stage = "liveout" => idx = OrNum
    /\ stage = "scan" =>
         /\ LiveAtEnd \subseteq lts
         /\ \E L \in [idx .. OrNum -> SUBSET SR] :
              /\ LiveTrace(L, idx)
              /\ L[idx] = live
              /\ \A k \in idx + 1 .. OrNum : Recorded(L, k)

\* An SR without a register that no OR up to k has written.
Unwritten(s, k) == ~IsReg(s) /\ \A j \in 1 .. k : s \notin Results(ORat(j))

\* The finished life times cover the trace, but for what was never written.
Covered(L, k) ==
    /\ \A s \in L[k] \cap lts : 2 * k \in ltpos[s] \/ Unwritten(s, k)
    /\ \A r \in Results(ORat(k)) : r \in lts /\ 2 * k \in ltpos[r]
    /\ ORat(k).opnd \subseteq lts

CreatedInv ==
    stage = "created" =>
        /\ LiveAtEnd \subseteq lts \cup RetSR
        /\ \E L \in [0 .. OrNum -> SUBSET SR] :
             /\ LiveTrace(L, 0)
             /\ \A k \in 1 .. OrNum : Covered(L, k)

LEMMA LTFacts ==
    ASSUME TypeOKLT
    PROVE  /\ OrNum \in Nat
           /\ \A k \in 1 .. OrNum :
                /\ ORat(k) \in OR
                /\ Results(ORat(k)) \subseteq SR
                /\ ORat(k).opnd \subseteq SR
           /\ RetSR \subseteq SR /\ LiveAtEnd \subseteq SR
<1>1. OrNum \in Nat /\ \A k \in 1 .. OrNum : ORat(k) \in OR
  BY DEF TypeOKLT, BB, OrNum, ORat
<1>2. RetSR \subseteq SR
  BY LifeTimeRegisters
<1> QED
  BY <1>1, <1>2, ORParts DEF LiveAtEnd, TypeOKLT, BB

\* The SRs of a return value live at the end of an exit block in any case.
LEMMA LiveOutStep ==
    ASSUME TypeOKLT, ScanInv, ProcessLiveOut PROVE ScanInv' /\ CreatedInv'
<1>1. /\ OrNum' = OrNum /\ idx' = OrNum /\ OrNum \in Nat
      /\ stage' = "scan" /\ live' = LiveAtEnd /\ lts' = LiveAtEnd
  BY LTFacts DEF ProcessLiveOut, ScanInv, OrNum
<1>2. LiveAtEnd' = LiveAtEnd
  <2>1. \A s \in RetSR : IsReg(s)
    BY LifeTimeRegisters DEF IsReg
  <2>2. bb'.exit = bb.exit
    BY DEF ProcessLiveOut, TypeOKLT, BB
  <2>3. CASE GRA /\ bb.exit
    <3>1. bb'.liveout = bb.liveout \cup RetSR
      BY <2>3 DEF ProcessLiveOut, TypeOKLT, BB
    <3> QED
      BY <2>1, <2>2, <2>3, <3>1 DEF LiveAtEnd
  <2>4. CASE ~(GRA /\ bb.exit)
    BY <2>4 DEF LiveAtEnd, ProcessLiveOut
  <2> QED
    BY <2>3, <2>4
<1>3. PICK L : L = [k \in OrNum .. OrNum |-> LiveAtEnd]
  OBVIOUS
<1>4. L \in [OrNum .. OrNum -> SUBSET SR] /\ L[OrNum] = LiveAtEnd
  BY <1>1, <1>3, LTFacts
<1>5. OrNum + 1 .. OrNum = {}
  BY <1>1
<1>6. LiveTrace(L, idx)'
  BY <1>1, <1>2, <1>4, <1>5 DEF LiveTrace
<1> QED
  BY <1>1, <1>2, <1>4, <1>5, <1>6 DEF ScanInv, CreatedInv

\* The trace is about the block, not about where the scan is.
LEMMA TraceStays ==
    ASSUME NEW L, NEW n, LiveTrace(L, n), UNCHANGED bb PROVE LiveTrace(L, n)'
BY DEF LiveTrace, ORat, EndedIn, Results, SamePhy, LiveAtEnd, OrNum

\* The marks of an OR are not erased.
LEMMA RecordedStays ==
    ASSUME NEW L, NEW k, Recorded(L, k), UNCHANGED bb, lts \subseteq lts',
           \A s \in SR : ltpos[s] \subseteq ltpos'[s] /\ desc[s] \subseteq desc'[s],
           L[k] \subseteq SR, Results(ORat(k)) \subseteq SR, ORat(k).opnd \subseteq SR
    PROVE  Recorded(L, k)'
<1>1. ORat(k)' = ORat(k) /\ Results(ORat(k))' = Results(ORat(k))
  BY DEF ORat, Results
<1> QED
  BY <1>1 DEF Recorded

LEMMA ScanStep ==
    ASSUME TypeOKLT, ScanInv, ScanOR PROVE ScanInv' /\ CreatedInv'
<1>1. /\ OrNum \in Nat /\ idx \in 1 .. OrNum /\ stage = "scan"
      /\ OrNum' = OrNum /\ bb' = bb /\ idx' = idx - 1 /\ stage' = "scan"
  BY LTFacts DEF ScanOR, TypeOKLT, OrNum
<1>2. PICK L \in [idx .. OrNum -> SUBSET SR] :
        /\ LiveTrace(L, idx)
        /\ L[idx] = live
        /\ \A k \in idx + 1 .. OrNum : Recorded(L, k)
  BY <1>1 DEF ScanInv
<1>3. LiveAtEnd' = LiveAtEnd /\ LiveAtEnd \subseteq lts /\ lts \subseteq lts'
  BY <1>1 DEF LiveAtEnd, ScanInv, ScanOR
<1>4. live' = (live \ EndedIn(ORat(idx), live)) \cup ORat(idx).opnd
  BY DEF ScanOR, LiveBefore, Killed, EndedIn, ORat
<1>5. live' \subseteq SR
  BY <1>1, <1>4, LTFacts DEF TypeOKLT
<1>6. \A s \in SR : ltpos[s] \subseteq ltpos'[s] /\ desc[s] \subseteq desc'[s]
  BY DEF ScanOR, TypeOKLT
<1>m. PICK M : M = [k \in idx - 1 .. OrNum |-> IF k = idx - 1 THEN live' ELSE L[k]]
  OBVIOUS
<1>7. /\ M \in [idx - 1 .. OrNum -> SUBSET SR]
      /\ M[idx - 1] = live'
      /\ \A k \in idx .. OrNum : M[k] = L[k]
  BY <1>1, <1>2, <1>5, <1>m
<1>8. LiveTrace(M, idx)'
  <2>1. M[OrNum] = LiveAtEnd
    BY <1>1, <1>2, <1>7 DEF LiveTrace
  <2>2. ASSUME NEW k \in (idx - 1) + 1 .. OrNum
        PROVE  M[k - 1] = (M[k] \ EndedIn(ORat(k), M[k])) \cup ORat(k).opnd
    <3>1. CASE k = idx
      BY <1>1, <1>2, <1>4, <1>7, <3>1
    <3>2. CASE k # idx
      <4>1. k \in idx + 1 .. OrNum /\ k - 1 \in idx .. OrNum /\ k \in idx .. OrNum
        BY <1>1, <2>2, <3>2
      <4> QED
        BY <1>2, <1>7, <4>1 DEF LiveTrace
    <3> QED
      BY <3>1, <3>2
  <2>3. PICK n : n = idx - 1
    OBVIOUS
  <2>4. LiveTrace(M, n)
    BY <1>7, <2>1, <2>2, <2>3 DEF LiveTrace
  <2>5. LiveTrace(M, n)'
    BY <1>1, <2>4, TraceStays
  <2> QED
    BY <1>1, <2>3, <2>5
<1>9. ASSUME NEW k \in (idx - 1) + 1 .. OrNum
      PROVE  Recorded(M, k)'
  <2>0. k \in 1 .. OrNum /\ k \in idx .. OrNum
    BY <1>1
  <2>1. Results(ORat(k)) \subseteq SR /\ ORat(k).opnd \subseteq SR /\ M[k] \subseteq SR
    BY <2>0, <1>2, <1>7, LTFacts
  <2>2. CASE k = idx
    <3>1. M[k] = live
      BY <2>0, <2>2, <1>2, <1>7
    <3>2. ORat(k) = bb.ors[idx] /\ ORat(k)' = ORat(k) /\ Results(ORat(k))' = Results(ORat(k))
      BY <2>2, <1>1 DEF ORat, Results
    <3>3. \A s \in live \cup Results(ORat(k)) : s \in SR /\ 2 * k \in ltpos'[s]
      BY <2>1, <2>2, <3>1, <3>2 DEF ScanOR, TypeOKLT
    <3>4. \A r \in Results(ORat(k)) : r \in lts' /\ <<2 * k, "def">> \in desc'[r]
      BY <2>1, <2>2, <3>2 DEF ScanOR, Occurrences, TypeOKLT
    <3>5. \A u \in ORat(k).opnd : u \in lts' /\ <<2 * k - 1, "use">> \in desc'[u]
      BY <2>1, <2>2, <3>2 DEF ScanOR, Occurrences, TypeOKLT
    <3> QED
      BY <3>1, <3>2, <3>3, <3>4, <3>5 DEF Recorded
  <2>3. CASE k # idx
    <3>1. k \in idx + 1 .. OrNum
      BY <1>1, <2>0, <2>3
    <3>2. Recorded(M, k)
      BY <1>2, <1>7, <2>0, <3>1 DEF Recorded
    <3> QED
      BY <1>1, <1>3, <1>6, <2>1, <3>2, RecordedStays
  <2> QED
    BY <2>2, <2>3
<1> QED
  BY <1>1, <1>3, <1>7, <1>8, <1>9 DEF ScanInv, CreatedInv

\* The end of create() removes return registers that do not occur, and the part
\* of a life time before its first occurrence.
LEMMA FinishStep ==
    ASSUME TypeOKLT, ScanInv, FinishCreate PROVE ScanInv' /\ CreatedInv'
<1>1. /\ OrNum \in Nat /\ idx = 0 /\ stage = "scan" /\ stage' = "created"
      /\ OrNum' = OrNum /\ bb' = bb /\ idx' = idx /\ desc' = desc
      /\ LiveAtEnd' = LiveAtEnd
  BY LTFacts DEF FinishCreate, TypeOKLT, OrNum, LiveAtEnd
<1>2. PICK L \in [0 .. OrNum -> SUBSET SR] :
        /\ LiveTrace(L, 0)
        /\ \A k \in 1 .. OrNum : Recorded(L, k)
  BY <1>1 DEF ScanInv
<1> DEFINE dropped == IF bb.exit
                      THEN {s \in RetSR : s \notin bb.livein /\ desc[s] = {}}
                      ELSE {}
<1>3. /\ lts' = (lts \cup LiveAtEntry) \ dropped
      /\ ltpos' = [s \in SR |-> IF s \in dropped THEN {} ELSE RevisedPos(s)]
      /\ dropped \subseteq RetSR /\ \A s \in dropped : desc[s] = {}
  BY DEF FinishCreate
<1> HIDE DEF dropped
<1>4. LiveAtEnd \subseteq lts' \cup RetSR
  BY <1>1, <1>3 DEF ScanInv
<1>5. LiveTrace(L, 0)'
  BY <1>1, <1>2, TraceStays
<1>6. ASSUME NEW k \in 1 .. OrNum PROVE Covered(L, k)'
  <2>1. Recorded(L, k)
    BY <1>2
  <2>2. Results(ORat(k)) \subseteq SR /\ ORat(k).opnd \subseteq SR /\ L[k] \subseteq SR
    BY <1>2, LTFacts
  <2>3. \A j : ORat(j)' = ORat(j) /\ Results(ORat(j))' = Results(ORat(j))
    BY <1>1 DEF ORat, Results
  <2>4. ASSUME NEW s \in L[k], s \in lts'
        PROVE  2 * k \in ltpos'[s] \/ Unwritten(s, k)
    <3>1. s \in SR /\ ltpos'[s] = RevisedPos(s) /\ 2 * k \in PosAtEntry(s)
      BY <1>3, <2>1, <2>2, <2>4 DEF PosAtEntry, Recorded
    <3>2. SUFFICES ASSUME 2 * k \notin RevisedPos(s) PROVE Unwritten(s, k)
      BY <3>1
    <3>3. s \in Local /\ \A d \in desc[s] : ~(d[1] <= 2 * k)
      BY <3>1, <3>2 DEF RevisedPos
    <3>4. ASSUME NEW j \in 1 .. k, s \in Results(ORat(j)) PROVE FALSE
      <4>1. j \in 1 .. OrNum /\ 2 * j <= 2 * k
        BY <1>1
      <4>2. <<2 * j, "def">> \in desc[s]
        BY <1>2, <3>4, <4>1 DEF Recorded
      <4> QED
        BY <3>3, <4>1, <4>2
    <3> QED
      BY <3>3, <3>4 DEF Unwritten, Local, IsReg
  <2>5. ASSUME NEW r \in Results(ORat(k))
        PROVE  r \in lts' /\ 2 * k \in ltpos'[r]
    <3>1. r \in SR /\ r \in lts /\ <<2 * k, "def">> \in desc[r] /\ 2 * k \in PosAtEntry(r)
      BY <2>1, <2>2, <2>5 DEF Recorded, PosAtEntry
    <3>2. r \notin dropped
      BY <1>3, <3>1
    <3>3. 2 * k <= 2 * k
      BY <1>1
    <3>4. 2 * k \in RevisedPos(r)
      BY <3>1, <3>3 DEF RevisedPos
    <3> QED
      BY <1>3, <3>1, <3>2, <3>4
  <2>6. ASSUME NEW u \in ORat(k).opnd PROVE u \in lts'
    BY <1>3, <2>1, <2>6 DEF Recorded
  <2>7. \A s : Unwritten(s, k)' <=> Unwritten(s, k)
    BY <2>3 DEF Unwritten, IsReg
  <2> QED
    BY <2>3, <2>4, <2>5, <2>6, <2>7 DEF Covered
<1> QED
  BY <1>1, <1>2, <1>4, <1>5, <1>6 DEF ScanInv, CreatedInv
-----------------------------------------------------------------------------
(* What the block computes *)

Result(k, i) == bb.ors[k].res[i]
ResultNum(k) == Len(bb.ors[k].res)

\* OR k writes place l, and the result of its that is there afterwards.
WritesTo(loc, k, l) == \E i \in 1 .. ResultNum(k) : loc[Result(k, i)] = l
Written(loc, k, l) == CHOOSE i \in 1 .. ResultNum(k) : loc[Result(k, i)] = l

\* What is in the places at the entry, and behind OR k.
AtEntry == [l \in SR \cup Reg |-> IF l \in Reg THEN <<0, l>> ELSE NoValue]
Behind(loc, skipped, k, before) ==
    IF k \in skipped THEN before
    ELSE [l \in SR \cup Reg |-> IF WritesTo(loc, k, l) THEN <<k, Written(loc, k, l)>>
                                ELSE before[l]]

\* f is what the first n ORs make of the places.
StoresRule(f, loc, skipped, n) ==
    f = [k \in 0 .. n |-> IF k = 0 THEN AtEntry ELSE Behind(loc, skipped, k, f[k - 1])]

\* The recursive function of Stores exists.
LEMMA StoresExist ==
    ASSUME OrNum \in Nat, NEW loc, NEW skipped
    PROVE  \A n \in 0 .. OrNum : \E f : StoresRule(f, loc, skipped, n)
<1> DEFINE bad == {n \in 0 .. OrNum : ~\E f : StoresRule(f, loc, skipped, n)}
<1>1. SUFFICES ASSUME bad # {} PROVE FALSE
  OBVIOUS
<1>2. PICK n \in bad : \A m \in bad : n <= m
  <2>1. bad \in SUBSET Nat
    OBVIOUS
  <2> HIDE DEF bad
  <2> QED
    BY <1>1, <2>1, LeastNumber
<1>3. n # 0
  <2>1. SUFFICES \E f : StoresRule(f, loc, skipped, 0)
    BY <1>2
  <2>2. PICK z : z = [k \in 0 .. 0 |-> AtEntry]
    OBVIOUS
  <2>3. StoresRule(z, loc, skipped, 0)
    BY <2>2 DEF StoresRule
  <2> QED
    BY <2>3
<1>4. n \in 1 .. OrNum /\ n - 1 \in 0 .. OrNum /\ n - 1 \notin bad
  <2>1. n \in 1 .. OrNum /\ n - 1 \in 0 .. OrNum
    BY <1>2, <1>3
  <2>2. ~(n <= n - 1)
    BY <2>1
  <2> HIDE DEF bad
  <2> QED
    BY <1>2, <2>1, <2>2
<1>5. PICK f : StoresRule(f, loc, skipped, n - 1)
  BY <1>4
<1>6. PICK g : g = [k \in 0 .. n |-> IF k = n THEN Behind(loc, skipped, n, f[n - 1]) ELSE f[k]]
  OBVIOUS
<1>7. StoresRule(g, loc, skipped, n)
  <2>0. n \in Nat \ {0}
    BY <1>4
  <2>1. \A k \in 0 .. n - 1 : k \in 0 .. n /\ k # n /\ g[k] = f[k]
    BY <1>6, <2>0
  <2>2. \A k \in 0 .. n - 1 :
          f[k] = IF k = 0 THEN AtEntry ELSE Behind(loc, skipped, k, f[k - 1])
    BY <1>5 DEF StoresRule
  <2>3. n - 1 \in 0 .. n - 1 /\ n \in 0 .. n
    BY <2>0
  <2>4. g[n] = Behind(loc, skipped, n, g[n - 1])
    BY <1>6, <2>1, <2>3
  <2>5. ASSUME NEW k \in 0 .. n - 1, k # 0
        PROVE  g[k] = Behind(loc, skipped, k, g[k - 1])
    <3>1. k - 1 \in 0 .. n - 1
      BY <2>0, <2>5
    <3> QED
      BY <2>1, <2>2, <2>5, <3>1
  <2>6. g[0] = AtEntry
    <3>1. 0 \in 0 .. n - 1
      BY <2>0
    <3> QED
      BY <2>1, <2>2, <3>1
  <2>7. \A k \in 0 .. n : k = n \/ k \in 0 .. n - 1
    BY <2>0
  <2>8. \A k \in 0 .. n :
          g[k] = IF k = 0 THEN AtEntry ELSE Behind(loc, skipped, k, g[k - 1])
    BY <2>0, <2>4, <2>5, <2>6, <2>7
  <2>9. g = [k \in 0 .. n |-> g[k]]
    BY <1>6
  <2> QED
    BY <2>8, <2>9 DEF StoresRule
<1> QED
  BY <1>2, <1>7

LEMMA StoresMeet ==
    ASSUME OrNum \in Nat, NEW loc, NEW skipped
    PROVE  /\ Stores(loc, skipped)[0] = AtEntry
           /\ \A k \in 1 .. OrNum :
                Stores(loc, skipped)[k] = Behind(loc, skipped, k, Stores(loc, skipped)[k - 1])
<1>1. \E f : StoresRule(f, loc, skipped, OrNum)
  BY StoresExist
<1> DEFINE g == CHOOSE f : StoresRule(f, loc, skipped, OrNum)
<1>2. StoresRule(g, loc, skipped, OrNum)
  BY <1>1
<1>3. Stores(loc, skipped) = g
  BY DEF Stores, StoresRule, Behind, AtEntry, WritesTo, Written, Result, ResultNum
<1> HIDE DEF g
<1>4. \A k \in 0 .. OrNum :
        g[k] = IF k = 0 THEN AtEntry ELSE Behind(loc, skipped, k, g[k - 1])
  BY <1>2 DEF StoresRule
<1> QED
  BY <1>3, <1>4

LEMMA ResultParts ==
    ASSUME TypeOKLT, NEW k \in 1 .. OrNum
    PROVE  /\ \A i \in 1 .. ResultNum(k) : Result(k, i) \in Results(ORat(k)) /\ Result(k, i) \in SR
           /\ \A r \in Results(ORat(k)) : \E i \in 1 .. ResultNum(k) : Result(k, i) = r
<1>1. Results(ORat(k)) \subseteq SR
  BY LTFacts
<1> QED
  BY <1>1 DEF Results, Result, ResultNum, ORat

\* Two SRs have one place only if they stand for one register.
LEMMA PlaceParts ==
    /\ Place \in [SR -> SR \cup Reg]
    /\ \A s \in SR : ~IsReg(s) => Place[s] = s /\ s \notin Reg
    /\ \A s \in SR : IsReg(s) => Place[s] \in Reg
    /\ \A s, t \in SR : Place[s] = Place[t] <=> s = t \/ SamePhy(s, t)
BY LifeTimeRegisters, PlacesDiffer DEF Place, IsReg, SamePhy

\* A place no OR has written yet, and that is no register, has no value.
LEMMA UnwrittenIsEmpty ==
    ASSUME TypeOKLT, NEW skipped
    PROVE  \A k \in 0 .. OrNum : \A s \in SR :
             Unwritten(s, k) => Stores(Place, skipped)[k][s] = NoValue
<1>0. OrNum \in Nat
  BY LTFacts
<1> DEFINE f == Stores(Place, skipped)
           bad == {n \in 0 .. OrNum : \E s \in SR : Unwritten(s, n) /\ f[n][s] # NoValue}
<1>f. /\ f[0] = AtEntry
      /\ \A k \in 1 .. OrNum : f[k] = Behind(Place, skipped, k, f[k - 1])
  BY <1>0, StoresMeet
<1> HIDE DEF f
<1>1. SUFFICES ASSUME bad # {} PROVE FALSE
  BY DEF f
<1>2. PICK n \in bad : \A m \in bad : n <= m
  <2>1. bad \in SUBSET Nat
    OBVIOUS
  <2> HIDE DEF bad
  <2> QED
    BY <1>1, <2>1, LeastNumber
<1>3. PICK s \in SR : Unwritten(s, n) /\ f[n][s] # NoValue
  BY <1>2
<1>4. s \notin Reg /\ Place[s] = s /\ ~IsReg(s)
  BY <1>3, PlaceParts DEF Unwritten
<1>5. n # 0
  BY <1>3, <1>4, <1>f DEF AtEntry
<1>6. n \in 1 .. OrNum /\ n - 1 \in 0 .. OrNum /\ n - 1 \notin bad
  <2>1. n \in 1 .. OrNum /\ n - 1 \in 0 .. OrNum
    BY <1>0, <1>2, <1>5
  <2>2. ~(n <= n - 1)
    BY <2>1
  <2> HIDE DEF bad
  <2> QED
    BY <1>2, <2>1, <2>2
<1>7. Unwritten(s, n - 1)
  <2>1. \A j \in 1 .. n - 1 : j \in 1 .. n
    BY <1>6
  <2> QED
    BY <1>3, <2>1 DEF Unwritten
<1>8. f[n - 1][s] = NoValue
  BY <1>6, <1>7
<1>9. ~WritesTo(Place, n, s)
  <2>1. ASSUME NEW i \in 1 .. ResultNum(n), Place[Result(n, i)] = s PROVE FALSE
    <3>1. Result(n, i) \in Results(ORat(n)) /\ Result(n, i) \in SR
      BY <1>6, ResultParts
    <3>2. Result(n, i) = s
      BY <1>4, <2>1, <3>1, PlaceParts DEF SamePhy
    <3>3. n \in 1 .. n
      BY <1>6
    <3> QED
      BY <1>3, <3>1, <3>2, <3>3 DEF Unwritten
  <2> QED
    BY <2>1 DEF WritesTo
<1>10. f[n][s] = f[n - 1][s]
  <2>1. f[n] = Behind(Place, skipped, n, f[n - 1])
    BY <1>6, <1>f
  <2> QED
    BY <1>9, <2>1 DEF Behind
<1> QED
  BY <1>3, <1>8, <1>10

\* No OR puts a result where another SR lives, among those of W, unless both
\* stand for registers or nothing was written there yet.
Clear(loc, L, W) ==
    \A k \in 1 .. OrNum : \A s \in L[k] \cap W : \A r \in Results(ORat(k)) :
        r # s /\ loc[r] = loc[s] /\ ~(IsReg(r) /\ IsReg(s)) => Unwritten(s, k)

\* The value of s before and after s is put in its place of loc.
Kept(loc, skipped, k, s) ==
    Stores(Place, skipped)[k][Place[s]] \in {NoValue, Stores(loc, skipped)[k][loc[s]]}

PlacesOf(loc) ==
    /\ loc \in [SR -> SR \cup Reg]
    /\ \A s \in SR : IsReg(s) => loc[s] = Place[s]

LEMMA ORKeepsValues ==
    ASSUME TypeOKLT, NEW L, LiveTrace(L, 0), NEW W, NEW loc, PlacesOf(loc), Clear(loc, L, W),
           NEW skipped \in SUBSET CondORs, NEW k \in 1 .. OrNum,
           \A s \in L[k - 1] \cap W : Kept(loc, skipped, k - 1, s)
    PROVE  \A s \in L[k] \cap W : Kept(loc, skipped, k, s)
<1>0. OrNum \in Nat /\ k - 1 \in 0 .. OrNum /\ k \in 0 .. OrNum
  BY LTFacts
<1>1. SUFFICES ASSUME NEW s \in L[k], s \in W PROVE Kept(loc, skipped, k, s)
  OBVIOUS
<1>2. s \in SR /\ L[k] \subseteq SR /\ Place[s] \in SR \cup Reg /\ loc[s] \in SR \cup Reg
  <2>1. L[k] \subseteq SR
    BY <1>0 DEF LiveTrace
  <2> QED
    BY <1>1, <2>1, PlaceParts DEF PlacesOf
<1> DEFINE f == Stores(Place, skipped)
           g == Stores(loc, skipped)
<1>f. f[k] = Behind(Place, skipped, k, f[k - 1]) /\ g[k] = Behind(loc, skipped, k, g[k - 1])
  BY <1>0, StoresMeet
<1>k. Kept(loc, skipped, k, s) <=> f[k][Place[s]] \in {NoValue, g[k][loc[s]]}
  BY DEF Kept
<1>h. s \in L[k - 1] => f[k - 1][Place[s]] \in {NoValue, g[k - 1][loc[s]]}
  BY <1>1 DEF Kept
<1>u. Unwritten(s, k) => f[k][s] = NoValue
  BY <1>0, <1>2, UnwrittenIsEmpty
<1> HIDE DEF f, g
<1>l. L[k - 1] = (L[k] \ EndedIn(ORat(k), L[k])) \cup ORat(k).opnd
  <2>1. k \in 0 + 1 .. OrNum
    BY <1>0
  <2> QED
    BY <2>1 DEF LiveTrace
<1>c. \A r \in Results(ORat(k)) :
        r # s /\ loc[r] = loc[s] /\ ~(IsReg(r) /\ IsReg(s)) => Unwritten(s, k)
  BY <1>1 DEF Clear
<1>3. CASE k \in skipped
  <2>1. ORat(k).cond
    BY <1>3 DEF CondORs, ORat
  <2>2. s \in L[k - 1]
    BY <1>1, <1>l, <2>1 DEF EndedIn
  <2>3. f[k] = f[k - 1] /\ g[k] = g[k - 1]
    BY <1>3, <1>f DEF Behind
  <2> QED
    BY <1>k, <1>h, <2>2, <2>3
<1>4. CASE k \notin skipped /\ ~WritesTo(Place, k, Place[s])
  <2>1. \A r \in Results(ORat(k)) : Place[r] # Place[s]
    BY <1>4, ResultParts DEF WritesTo
  <2>2. s \in L[k - 1]
    <3>1. s \notin EndedIn(ORat(k), L[k])
      <4>1. \A r \in Results(ORat(k)) : r # s /\ ~SamePhy(r, s)
        BY <1>2, <2>1, ResultParts, PlaceParts
      <4> QED
        BY <4>1 DEF EndedIn
    <3> QED
      BY <1>1, <1>l, <3>1
  <2>3. f[k][Place[s]] = f[k - 1][Place[s]]
    BY <1>2, <1>4, <1>f DEF Behind
  <2>4. CASE WritesTo(loc, k, loc[s])
    <3>1. PICK r \in Results(ORat(k)) : r \in SR /\ loc[r] = loc[s]
      BY <2>4, ResultParts DEF WritesTo
    <3>2. ~(IsReg(r) /\ IsReg(s)) /\ r # s
      BY <1>2, <2>1, <3>1 DEF PlacesOf
    <3>3. Unwritten(s, k)
      BY <1>c, <3>1, <3>2
    <3>4. Place[s] = s
      BY <1>2, <3>3, PlaceParts DEF Unwritten
    <3> QED
      BY <1>k, <1>u, <3>3, <3>4
  <2>5. CASE ~WritesTo(loc, k, loc[s])
    <3>1. g[k][loc[s]] = g[k - 1][loc[s]]
      BY <1>2, <1>4, <1>f, <2>5 DEF Behind
    <3> QED
      BY <1>k, <1>h, <2>2, <2>3, <3>1
  <2> QED
    BY <2>4, <2>5
<1>5. CASE k \notin skipped /\ WritesTo(Place, k, Place[s])
  <2>1. ASSUME NEW i \in 1 .. ResultNum(k)
        PROVE  Place[Result(k, i)] = Place[s] <=> loc[Result(k, i)] = loc[s]
    <3> DEFINE r == Result(k, i)
    <3>1. r \in Results(ORat(k)) /\ r \in SR
      BY ResultParts
    <3> HIDE DEF r
    <3>2. ASSUME Place[r] = Place[s] PROVE loc[r] = loc[s]
      <4>1. r = s \/ (IsReg(r) /\ IsReg(s))
        BY <1>2, <3>1, <3>2, PlaceParts DEF SamePhy, IsReg
      <4> QED
        BY <1>2, <3>1, <3>2, <4>1 DEF PlacesOf
    <3>3. ASSUME loc[r] = loc[s], Place[r] # Place[s] PROVE FALSE
      <4>1. ~(IsReg(r) /\ IsReg(s)) /\ r # s
        BY <1>2, <3>1, <3>3 DEF PlacesOf
      <4>2. Unwritten(s, k)
        BY <1>c, <3>1, <3>3, <4>1
      <4>3. ~IsReg(s) /\ s \notin Results(ORat(k))
        <5>1. k \in 1 .. k
          BY <1>0
        <5> QED
          BY <4>2, <5>1 DEF Unwritten
      <4>4. PICK q \in Results(ORat(k)) : q \in SR /\ Place[q] = Place[s]
        BY <1>5, ResultParts DEF WritesTo
      <4>5. q = s
        BY <1>2, <4>3, <4>4, PlaceParts DEF SamePhy, IsReg
      <4> QED
        BY <4>3, <4>4, <4>5
    <3> QED
      BY <3>2, <3>3 DEF r
  <2>2. Written(Place, k, Place[s]) = Written(loc, k, loc[s])
    BY <2>1 DEF Written
  <2>3. WritesTo(loc, k, loc[s])
    BY <1>5, <2>1 DEF WritesTo
  <2>4. f[k][Place[s]] = <<k, Written(Place, k, Place[s])>>
    BY <1>2, <1>5, <1>f DEF Behind
  <2>5. g[k][loc[s]] = <<k, Written(loc, k, loc[s])>>
    BY <1>2, <1>5, <1>f, <2>3 DEF Behind
  <2> QED
    BY <1>k, <2>2, <2>4, <2>5
<1> QED
  BY <1>3, <1>4, <1>5

\* What a place has at the entry is there before and after an SR is put in it.
LEMMA EntryKept ==
    ASSUME TypeOKLT, NEW loc, PlacesOf(loc), NEW skipped, NEW s \in SR
    PROVE  Kept(loc, skipped, 0, s)
<1>1. OrNum \in Nat
  BY LTFacts
<1>2. Stores(Place, skipped)[0] = AtEntry /\ Stores(loc, skipped)[0] = AtEntry
  BY <1>1, StoresMeet
<1>3. CASE IsReg(s)
  <2>1. Place[s] \in Reg /\ loc[s] = Place[s]
    BY <1>3, PlaceParts DEF PlacesOf
  <2> QED
    BY <1>2, <2>1 DEF Kept
<1>4. CASE ~IsReg(s)
  <2>1. Place[s] \in SR /\ Place[s] \notin Reg
    BY <1>4, PlaceParts
  <2>2. AtEntry[Place[s]] = NoValue
    BY <2>1 DEF AtEntry
  <2> QED
    BY <1>2, <2>2 DEF Kept
<1> QED
  BY <1>3, <1>4

\* Whatever places SRs are put in, if no result is put where a live SR is, then
\* what is live behind an OR is the same there: the induction over the ORs.
LEMMA LiveKept ==
    ASSUME TypeOKLT, NEW L, LiveTrace(L, 0), NEW W, NEW loc, PlacesOf(loc), Clear(loc, L, W),
           NEW skipped \in SUBSET CondORs, \A k \in 1 .. OrNum : ORat(k).opnd \subseteq W
    PROVE  \A k \in 0 .. OrNum : \A s \in L[k] \cap W : Kept(loc, skipped, k, s)
<1>0. OrNum \in Nat
  BY LTFacts
<1> DEFINE bad == {k \in 0 .. OrNum : \E s \in L[k] \cap W : ~Kept(loc, skipped, k, s)}
<1>1. SUFFICES ASSUME bad # {} PROVE FALSE
  OBVIOUS
<1>2. PICK n \in bad : \A m \in bad : n <= m
  <2>1. bad \in SUBSET Nat
    OBVIOUS
  <2> HIDE DEF bad
  <2> QED
    BY <1>1, <2>1, LeastNumber
<1>3. PICK s \in L[n] \cap W : ~Kept(loc, skipped, n, s)
  BY <1>2
<1>4. n # 0
  <2>1. L[n] \subseteq SR
    BY <1>2 DEF LiveTrace
  <2> QED
    BY <1>3, <2>1, EntryKept
<1>5. n \in 1 .. OrNum /\ n - 1 \in 0 .. OrNum /\ n - 1 \notin bad
  <2>1. n \in 1 .. OrNum /\ n - 1 \in 0 .. OrNum
    BY <1>0, <1>2, <1>4
  <2>2. ~(n <= n - 1)
    BY <2>1
  <2> HIDE DEF bad
  <2> QED
    BY <1>2, <2>1, <2>2
<1>6. \A t \in L[n - 1] \cap W : Kept(loc, skipped, n - 1, t)
  BY <1>5
<1> HIDE DEF bad
<1>7. \A t \in L[n] \cap W : Kept(loc, skipped, n, t)
  BY <1>5, <1>6, ORKeepsValues
<1> QED
  BY <1>3, <1>7

LEMMA PlacesKeepValues ==
    ASSUME TypeOKLT, NEW L, LiveTrace(L, 0), NEW W, NEW loc, PlacesOf(loc), Clear(loc, L, W),
           \A k \in 1 .. OrNum : ORat(k).opnd \subseteq W
    PROVE  SameValues(loc, LiveAtEnd \cap W)
<1>0. OrNum \in Nat
  BY LTFacts
<1>1. SUFFICES ASSUME NEW skipped \in SUBSET CondORs
               PROVE  /\ \A k \in (1 .. OrNum) \ skipped : \A s \in bb.ors[k].opnd :
                           Kept(loc, skipped, k - 1, s)
                      /\ \A s \in LiveAtEnd \cap W : Kept(loc, skipped, OrNum, s)
  BY DEF SameValues, Kept
<1>2. \A k \in 0 .. OrNum : \A s \in L[k] \cap W : Kept(loc, skipped, k, s)
  BY LiveKept
<1>3. ASSUME NEW k \in (1 .. OrNum) \ skipped, NEW s \in bb.ors[k].opnd
      PROVE  Kept(loc, skipped, k - 1, s)
  <2>1. k \in 0 + 1 .. OrNum /\ k - 1 \in 0 .. OrNum
    BY <1>0
  <2>2. s \in L[k - 1]
    BY <1>3, <2>1 DEF LiveTrace, ORat
  <2> QED
    BY <1>2, <1>3, <2>1, <2>2 DEF ORat
<1>4. L[OrNum] = LiveAtEnd /\ OrNum \in 0 .. OrNum
  BY <1>0 DEF LiveTrace
<1> QED
  BY <1>2, <1>3, <1>4
-----------------------------------------------------------------------------
(* The life times are long enough *)

LEMMA CreatedKeepsValues ==
    ASSUME TypeOKLT, CreatedInv PROVE ColouringsKeepValues
<1>1. SUFFICES ASSUME stage = "created", NEW colour \in [Local -> Reg], NEW loc,
                      loc = [s \in SR |-> IF s \in Local THEN colour[s] ELSE Place[s]],
                      \A s, t \in lts :
                         s # t /\ loc[s] = loc[t] /\ ~(IsReg(s) /\ IsReg(t))
                           => ltpos[s] \cap ltpos[t] = {}
               PROVE  SameValues(loc, LiveAtEnd \cap lts)
  BY DEF ColouringsKeepValues
<1>2. PICK L \in [0 .. OrNum -> SUBSET SR] :
        LiveTrace(L, 0) /\ \A k \in 1 .. OrNum : Covered(L, k)
  BY <1>1 DEF CreatedInv
<1>3. PlacesOf(loc)
  BY <1>1, PlaceParts DEF PlacesOf, Local, IsReg
<1>4. ASSUME NEW k \in 1 .. OrNum, NEW s \in L[k] \cap lts, NEW r \in Results(ORat(k)),
             r # s, loc[r] = loc[s], ~(IsReg(r) /\ IsReg(s))
      PROVE  Unwritten(s, k)
  <2>1. r \in lts /\ 2 * k \in ltpos[r] /\ (2 * k \in ltpos[s] \/ Unwritten(s, k))
    BY <1>2 DEF Covered
  <2> QED
    BY <1>1, <1>4, <2>1
<1>5. Clear(loc, L, lts)
  BY <1>4 DEF Clear
<1>6. \A k \in 1 .. OrNum : ORat(k).opnd \subseteq lts
  BY <1>2 DEF Covered
<1> QED
  BY <1>2, <1>3, <1>5, <1>6, PlacesKeepValues

LEMMA CreateInit == LTInit => ScanInv /\ CreatedInv
BY DEF LTInit, ScanInv, CreatedInv, OrNum

\* The colouring does not change the block or the life times.
LEMMA CreateStays ==
    ASSUME ScanInv, CreatedInv, UNCHANGED ltvars PROVE ScanInv' /\ CreatedInv'
<1>1. /\ bb' = bb /\ stage' = stage /\ idx' = idx /\ live' = live /\ lts' = lts
      /\ ltpos' = ltpos /\ desc' = desc
      /\ OrNum' = OrNum /\ LiveAtEnd' = LiveAtEnd
  BY DEF ltvars, OrNum, LiveAtEnd
<1>2. \A k : ORat(k)' = ORat(k) /\ Results(ORat(k))' = Results(ORat(k))
  BY <1>1 DEF ORat, Results
<1>3. ASSUME NEW L, NEW k, Recorded(L, k) PROVE Recorded(L, k)'
  BY <1>1, <1>2, <1>3 DEF Recorded
<1>4. ASSUME NEW L, NEW k, Covered(L, k) PROVE Covered(L, k)'
  BY <1>1, <1>2, <1>4 DEF Covered, Unwritten, IsReg
<1>5. ASSUME NEW L, LiveTrace(L, 0) PROVE LiveTrace(L, 0)'
  BY <1>1, <1>5, TraceStays
<1>6. ASSUME NEW L, LiveTrace(L, idx) PROVE LiveTrace(L, idx)'
  <2>1. PICK n : n = idx
    OBVIOUS
  <2>2. LiveTrace(L, n)'
    BY <1>1, <1>6, <2>1, TraceStays
  <2> QED
    BY <1>1, <2>1, <2>2
<1>7. ScanInv'
  <2>1. CASE stage = "scan"
    <3>1. PICK L \in [idx .. OrNum -> SUBSET SR] :
            /\ LiveTrace(L, idx)
            /\ L[idx] = live
            /\ \A k \in idx + 1 .. OrNum : Recorded(L, k)
      BY <2>1 DEF ScanInv
    <3>2. LiveTrace(L, idx)' /\ \A k \in idx + 1 .. OrNum : Recorded(L, k)'
      BY <1>3, <1>6, <3>1
    <3> QED
      BY <1>1, <2>1, <3>1, <3>2 DEF ScanInv
  <2>2. CASE stage # "scan"
    BY <1>1, <2>2 DEF ScanInv
  <2> QED
    BY <2>1, <2>2
<1>8. CreatedInv'
  <2>1. CASE stage = "created"
    <3>1. PICK L \in [0 .. OrNum -> SUBSET SR] :
            LiveTrace(L, 0) /\ \A k \in 1 .. OrNum : Covered(L, k)
      BY <2>1 DEF CreatedInv
    <3>2. LiveTrace(L, 0)' /\ \A k \in 1 .. OrNum : Covered(L, k)'
      BY <1>4, <1>5, <3>1
    <3> QED
      BY <1>1, <2>1, <3>1, <3>2 DEF CreatedInv
  <2>2. CASE stage # "created"
    BY <1>1, <2>2 DEF CreatedInv
  <2> QED
    BY <2>1, <2>2
<1> QED
  BY <1>7, <1>8

LEMMA CreateInvStep ==
    TypeOKLT /\ ScanInv /\ CreatedInv /\ [LTNext]_ltvars => ScanInv' /\ CreatedInv'
BY LiveOutStep, ScanStep, FinishStep, CreateStays DEF LTNext

\* LifeTimeMgr::create makes the life times of a block long enough: whatever
\* proper colouring they get, every value arrives where it is read.
THEOREM LifeTimesLongEnough == LTSpec => []ColouringsKeepValues
<1>1. LTInit => TypeOKLT /\ ScanInv /\ CreatedInv
  BY LTTypeInit, CreateInit
<1>2. TypeOKLT /\ ScanInv /\ CreatedInv /\ [LTNext]_ltvars
        => TypeOKLT' /\ ScanInv' /\ CreatedInv'
  BY LTTypeStep, CreateInvStep
<1>3. TypeOKLT /\ CreatedInv => ColouringsKeepValues
  BY CreatedKeepsValues
<1> QED
  BY <1>1, <1>2, <1>3, PTL DEF LTSpec

LEMMA ARCreateStep ==
    Inv /\ ScanInv /\ CreatedInv /\ [ARNext]_lravars => ScanInv' /\ CreatedInv'
<1> SUFFICES ASSUME Inv, ScanInv, CreatedInv, [ARNext]_lravars
             PROVE  ScanInv' /\ CreatedInv'
  OBVIOUS
<1>1. CreateLifeTimes \/ UNCHANGED ltvars
  BY ColouringSteps DEF ARNext, ComputeUsableRegs, BuildGraph, lravars
<1> QED
  BY <1>1, CreateInvStep, CreateStays DEF CreateLifeTimes, Inv, TypeOKAR

LEMMA ARCreated == ARSpec => [](Inv /\ ScanInv /\ CreatedInv)
<1>1. ARInit => Inv /\ ScanInv /\ CreatedInv
  BY InvInit, CreateInit DEF ARInit
<1>2. Inv /\ ScanInv /\ CreatedInv /\ [ARNext]_lravars => Inv' /\ ScanInv' /\ CreatedInv'
  BY InvStep, ARCreateStep
<1> QED
  BY <1>1, <1>2, PTL DEF ARSpec

\* The allocation of a block, which creates the life times first, gets life
\* times that are long enough.
THEOREM LifeTimesKeep == ARSpec => []LifeTimesKeepValues
<1>1. Inv /\ CreatedInv => LifeTimesKeepValues
  BY CreatedKeepsValues DEF Inv, TypeOKAR, LifeTimesKeepValues
<1> QED
  BY <1>1, ARCreated, PTL
-----------------------------------------------------------------------------
(* The colouring keeps the block's values *)

\* Only allocable registers are given away.
GivenInv ==
    \A s \in SR : ~IsReg(s) => usable[s] \subseteq Allocable /\ phy[s] \in Allocable \cup {0}

LEMMA GivenInit == ARInit => GivenInv
BY DEF ARInit, GivenInv, IsReg

\* The end of assignRegister gives the current life time one of its registers.
LEMMA FinGives ==
    ASSUME TypeOKAR, CurrentOK, GivenInv, step \in {"avoid", "fin"},
           NEW r \in usable[cur], NEW left \in SUBSET usable[cur], Fin(r, left)
    PROVE  GivenInv'
<1>1. cur \in Local /\ cur \in SR /\ ~IsReg(cur) /\ r \in Allocable /\ r \in Reg
  BY DEF CurrentOK, GivenInv, TypeOKAR, Local, IsReg
<1>2. \A s \in SR : usable'[s] \subseteq usable[s] /\ (s # cur => phy'[s] = phy[s])
  BY <1>1, FinTakes
<1>3. phy'[cur] \in {phy[cur], r}
  BY <1>1 DEF Fin, TypeOKAR
<1>4. ASSUME NEW s \in SR, ~IsReg(s)
      PROVE  usable'[s] \subseteq Allocable /\ phy'[s] \in Allocable \cup {0}
  BY <1>1, <1>2, <1>3, <1>4 DEF GivenInv
<1> QED
  BY <1>4 DEF GivenInv, IsReg

\* A neighbour gets its preferred register, an allocable one, and the current
\* life time loses registers.
LEMMA AvoidGives ==
    ASSUME TypeOKAR, GivenInv, AvoidNeighbour, NEW s \in SR, ~IsReg(s)
    PROVE  usable'[s] \subseteq Allocable
<1>1. PICK t \in todo :
         usable' = [usable EXCEPT ![t] = usable[t] \cup ({pref[t]} \ {0}),
             ![cur] = IF Cardinality(usable[t] \cup ({pref[t]} \ {0})) < Cardinality(@)
                      THEN @ \ (usable[t] \cup ({pref[t]} \ {0})) ELSE @]
  BY DEF AvoidNeighbour
<1>2. usable'[s] \subseteq usable[s] \cup ({pref[s]} \ {0})
  BY <1>1 DEF TypeOKAR
<1>3. usable[s] \subseteq Allocable /\ {pref[s]} \ {0} \subseteq Allocable
  BY DEF GivenInv, TypeOKAR
<1> QED
  BY <1>2, <1>3

LEMMA GivenStep == Inv /\ GivenInv /\ [ARNext]_lravars => GivenInv'
<1> SUFFICES ASSUME Inv, GivenInv, [ARNext]_lravars PROVE GivenInv'
  OBVIOUS
<1>i. TypeOKAR /\ Phases /\ CurrentOK
  BY DEF Inv
<1>1. CASE CreateLifeTimes
  <2>1. UNCHANGED arvars
    BY <1>i, <1>1, CreateStep
  <2> QED
    BY <2>1 DEF GivenInv, arvars, IsReg
<1>2. CASE ComputeUsableRegs
  <2>1. phy' = phy /\ phy = PhyReg
    BY <1>i, <1>2 DEF ComputeUsableRegs, Phases
  <2>2. ASSUME NEW s \in SR, ~IsReg(s) PROVE usable'[s] \subseteq Allocable
    <3>1. ~Allocated(s)
      BY <2>1, <2>2 DEF Allocated, IsReg
    <3>2. UsableRegs(s) \subseteq Allocable
      BY <3>1 DEF UsableRegs
    <3>3. usable'[s] = IF s \in lts THEN UsableRegs(s) ELSE {}
      BY <1>2 DEF ComputeUsableRegs
    <3> QED
      BY <3>2, <3>3
  <2> QED
    BY <2>1, <2>2 DEF GivenInv, IsReg
<1>3. CASE BuildGraph
  BY <1>3 DEF BuildGraph, GivenInv, IsReg
<1>4. CASE NextLifeTime
  <2>1. phy' = phy
    BY <1>4 DEF NextLifeTime
  <2>2. \A s \in SR : usable'[s] \subseteq usable[s]
    <3>1. \A s : Deducted(s) \subseteq usable[s]
      BY DEF Deducted
    <3>2. usable' = usable \/ \E s \in SR : usable' = [usable EXCEPT ![s] = Deducted(s)]
      BY <1>i, <1>4, NextEffect
    <3> QED
      BY <1>i, <3>1, <3>2 DEF TypeOKAR
  <2> QED
    BY <2>1, <2>2 DEF GivenInv, IsReg
<1>5. CASE AvoidNeighbour
  <2>1. phy' = phy
    BY <1>5 DEF AvoidNeighbour
  <2> QED
    BY <1>i, <1>5, <2>1, AvoidGives DEF GivenInv, IsReg
<1>6. CASE AssignChosen
  BY <1>i, <1>6, CandidatesUsable, FinGives DEF AssignChosen
<1>7. CASE AssignPreferred
  BY <1>i, <1>7, FinGives DEF AssignPreferred, CurrentOK
<1>8. CASE UNCHANGED lravars
  BY <1>8 DEF GivenInv, lravars, arvars, IsReg
<1> QED
  BY <1>1, <1>2, <1>3, <1>4, <1>5, <1>6, <1>7, <1>8 DEF ARNext

\* Where the SRs are while some of them have a register.
PlaceNow == [s \in SR |-> IF Allocated(s) THEN phy[s] ELSE s]

\* Two SRs are in one place only if one register was given to both.
LEMMA PlaceNowParts ==
    ASSUME TypeOKAR, Phases
    PROVE  /\ PlacesOf(PlaceNow)
           /\ \A s, t \in SR : PlaceNow[s] = PlaceNow[t] /\ s # t =>
                 Allocated(s) /\ Allocated(t) /\ phy[s] = phy[t]
<1>1. \A s \in SR : phy[s] \in Reg \cup {0} /\ (Allocated(s) => phy[s] \in Reg)
  BY DEF TypeOKAR, Allocated
<1>2. PlaceNow \in [SR -> SR \cup Reg]
  BY <1>1 DEF PlaceNow
<1>3. ASSUME NEW s \in SR, IsReg(s) PROVE PlaceNow[s] = Place[s]
  BY <1>3 DEF Phases, PlaceNow, Place, Allocated, IsReg
<1>4. \A s, t \in SR : PlaceNow[s] = PlaceNow[t] /\ s # t =>
         Allocated(s) /\ Allocated(t) /\ phy[s] = phy[t]
  BY <1>1, PlacesDiffer DEF PlaceNow
<1> QED
  BY <1>2, <1>3, <1>4 DEF PlacesOf

\* As soon as the life times are there, at every step of the colouring and
\* whatever is left uncoloured, the block computes what it did.
LEMMA ColouredSoFar ==
    ASSUME Inv, CreatedInv, GivenInv, stage = "created"
    PROVE  SameValues(PlaceNow, LiveAtEnd)
<1>i. TypeOKAR /\ Phases /\ NoSharedRegister /\ TypeOKLT
  BY DEF Inv, TypeOKAR
<1> DEFINE W == lts \cup LiveAtEnd
<1>1. LiveAtEnd \subseteq lts \cup RetSR
  BY DEF CreatedInv
<1>2. PICK L \in [0 .. OrNum -> SUBSET SR] :
        LiveTrace(L, 0) /\ \A k \in 1 .. OrNum : Covered(L, k)
  BY DEF CreatedInv
<1>3. ASSUME NEW k \in 1 .. OrNum, NEW s \in L[k] \cap W, NEW r \in Results(ORat(k)),
             r # s, PlaceNow[r] = PlaceNow[s], ~(IsReg(r) /\ IsReg(s))
      PROVE  Unwritten(s, k)
  <2>1. /\ r \in lts /\ 2 * k \in ltpos[r]
        /\ s \in lts => 2 * k \in ltpos[s] \/ Unwritten(s, k)
    BY <1>2, <1>3 DEF Covered
  <2>2. OrNum \in Nat /\ k \in 0 .. OrNum
    BY <1>i, LTFacts
  <2>3. r \in SR /\ s \in SR
    BY <1>i, <1>2, <1>3, <2>1, <2>2 DEF TypeOKLT
  <2>4. Allocated(r) /\ Allocated(s) /\ phy[r] = phy[s]
    BY <1>i, <1>3, <2>3, PlaceNowParts
  <2>5. CASE s \in lts
    BY <1>i, <1>3, <2>1, <2>4, <2>5 DEF NoSharedRegister
  <2>6. CASE s \notin lts
    <3>1. s \in RetSR /\ IsReg(s) /\ PhyReg[s] \notin Allocable /\ PhyReg[s] # 0
      BY <1>1, <1>3, <2>6, AllocableRegisters, LifeTimeRegisters DEF IsReg
    <3>2. phy[s] = PhyReg[s]
      BY <1>i, <2>3, <3>1 DEF Phases
    <3>3. phy[r] \in Allocable \cup {0}
      BY <1>3, <2>3, <3>1 DEF GivenInv
    <3> QED
      BY <2>4, <3>1, <3>2, <3>3
  <2> QED
    BY <2>5, <2>6
<1>4. Clear(PlaceNow, L, W)
  BY <1>3 DEF Clear
<1>5. \A k \in 1 .. OrNum : ORat(k).opnd \subseteq W
  BY <1>2 DEF Covered
<1>6. PlacesOf(PlaceNow)
  BY <1>i, PlaceNowParts
<1>7. SameValues(PlaceNow, LiveAtEnd \cap W)
  <2> HIDE DEF W
  <2> QED
    BY <1>i, <1>2, <1>4, <1>5, <1>6, PlacesKeepValues
<1>8. LiveAtEnd \cap W = LiveAtEnd
  OBVIOUS
<1> QED
  BY <1>7, <1>8

LEMMA ARGiven == ARSpec => []GivenInv
<1>1. ARInit => GivenInv
  BY GivenInit
<1>2. Inv /\ GivenInv /\ [ARNext]_lravars => GivenInv'
  BY GivenStep
<1> QED
  BY <1>1, <1>2, Invariance, PTL DEF ARSpec

\* LRA::assignRegister, after each register it gives: the block in which some SRs
\* have their registers and the others have not yet computes what it did.
THEOREM EachAssignmentKeepsValues ==
    ARSpec => [](stage = "created" => SameValues(PlaceNow, LiveAtEnd))
<1>1. Inv /\ CreatedInv /\ GivenInv => (stage = "created" => SameValues(PlaceNow, LiveAtEnd))
  BY ColouredSoFar
<1> QED
  BY <1>1, ARCreated, ARGiven, PTL

\* LRA::perform, when every life time has got a register: the block computes in
\* registers what it computed in symbolic registers, whatever predicated ORs
\* are executed, up to the values that live at its end.
THEOREM AllocationKeepsValues == ARSpec => []ValuesKept
<1>1. Inv /\ CreatedInv /\ GivenInv => ValuesKept
  <2> SUFFICES ASSUME Inv, CreatedInv, GivenInv, step = "next" PROVE ValuesKept
    BY DEF ValuesKept, AllTried
  <2>1. stage = "created"
    BY DEF Inv, Phases
  <2>2. SameValues(PlaceNow, LiveAtEnd)
    BY <2>1, ColouredSoFar
  <2> QED
    BY <2>2 DEF ValuesKept, PlaceNow
<1> QED
  BY <1>1, ARCreated, ARGiven, PTL
=============================================================================
