----------------------------- MODULE DDGProofs -----------------------------
(***************************************************************************)
(* Proofs about the construction of the dependence graph: the type         *)
(* invariant, and that the graph orders what conflicts, for every block,   *)
(* register file and aliasing.                                             *)
(***************************************************************************)
EXTENDS DDG, TLAPS

\* What the maps of buildRegDep know: defor[l] holds definitions of l, one of
\* them not before any definition met; useor[l] holds reads of l, and a read
\* met that is not among them is not after a definition that is in defor[l].
DeforKnown ==
    \A l \in Loc :
        /\ \A d \in defor[l] : d < pos /\ l \in DefLocs(bb[d])
        /\ \A i \in 1 .. pos - 1 : l \in DefLocs(bb[i]) => \E d \in defor[l] : i <= d

UseorKnown ==
    \A l \in Loc :
        /\ \A u \in useor[l] : u < pos /\ l \in UseLocs(bb[u])
        /\ \A i \in 1 .. pos - 1 : l \in UseLocs(bb[i]) =>
             i \in useor[l] \/ \E d \in defor[l] : i <= d

\* What prev knows: it is a memory OR and the last one met.
PrevKnown ==
    /\ prev # 0 => prev < pos /\ IsMem(bb[prev])
    /\ \A i \in 1 .. pos - 1 : IsMem(bb[i]) => prev # 0 /\ i <= prev

\* Hybrid edges join two memory ORs.
HybridIsMem == \A e \in edge : e.dep = "HYB" => MemConflict(e.from, e.to)

\* The inductive invariant.
DDGInv ==
    /\ TypeOKDDG
    /\ stage = "reg" => DeforKnown /\ UseorKnown /\ prev = 0
    /\ stage = "mem" => PrevKnown
    /\ HybridIsMem
    /\ EdgesSound
    /\ ConflictsOrdered
    /\ FlowEdgesDirect
-----------------------------------------------------------------------------
(* The blocks and the registers of an OR. *)

LEMMA DDGBlockType ==
    ASSUME NEW b \in Blocks
    PROVE  /\ b \in Seq(OR)
           /\ Len(b) \in Nat
           /\ \A i \in 1 .. Len(b) : b[i] \in OR /\ WellFormedOR(b[i])
  BY BlocksAssumption DEF BlocksAssumptionOf

LEMMA ResultsType == ASSUME NEW o \in OR PROVE Results(o) \subseteq SR
  BY DEF OR, Results

LEMMA LocsOfType == ASSUME NEW s \in SR PROVE LocsOf(s) \subseteq Loc
  BY RegisterAssumption, AliasAssumption DEF LocsOf, Loc

LEMMA LocsType ==
    ASSUME NEW o \in OR
    PROVE  UseLocs(o) \subseteq Loc /\ DefLocs(o) \subseteq Loc
  <1>1. o.opnd \subseteq SR
    BY DEF OR
  <1>2. Results(o) \subseteq SR
    BY ResultsType
  <1>3. QED
    BY <1>1, <1>2, LocsOfType DEF UseLocs, DefLocs
-----------------------------------------------------------------------------
(* Type correctness. *)

\* The edges an iteration adds join ORs of the block met so far.
LEMMA NewEdgesType ==
    ASSUME TypeOKDDG, stage = "reg", pos <= Len(bb)
    PROVE  /\ pos \in ORsOf
           /\ UseorAfterOpnds(pos) \in [Loc -> SUBSET ORsOf]
           /\ OpndEdges(pos) \subseteq [from : ORsOf, to : ORsOf, dep : DepType]
           /\ ResultEdges(pos) \subseteq [from : ORsOf, to : ORsOf, dep : DepType]
  <1>1. Len(bb) \in Nat /\ pos \in ORsOf /\ bb[pos] \in OR
    BY DDGBlockType DEF TypeOKDDG, ORsOf
  <1>2. UseLocs(bb[pos]) \subseteq Loc /\ DefLocs(bb[pos]) \subseteq Loc
    BY <1>1, LocsType
  <1>3. UseorAfterOpnds(pos) \in [Loc -> SUBSET ORsOf]
    BY <1>1 DEF TypeOKDDG, UseorAfterOpnds
  <1>4. OpndEdges(pos) \subseteq [from : ORsOf, to : ORsOf, dep : DepType]
    BY <1>1, <1>2 DEF TypeOKDDG, OpndEdges, Edge, DepType
  <1>5. ResultEdges(pos) \subseteq [from : ORsOf, to : ORsOf, dep : DepType]
    BY <1>1, <1>2, <1>3 DEF TypeOKDDG, ResultEdges, Edge, DepType
  <1>6. QED
    BY <1>1, <1>3, <1>4, <1>5

LEMMA DDGInitType == InitDDG => TypeOKDDG
  BY DDGBlockType DEF InitDDG, TypeOKDDG

LEMMA DDGNextType == TypeOKDDG /\ [NextDDG]_ddgvars => TypeOKDDG'
  <1> SUFFICES ASSUME TypeOKDDG, [NextDDG]_ddgvars PROVE TypeOKDDG'
    OBVIOUS
  <1>0. Len(bb) \in Nat
    BY DDGBlockType DEF TypeOKDDG
  <1>1. CASE BuildRegDep
    <2>1. bb' = bb /\ stage' = stage /\ prev' = prev
      BY <1>1 DEF BuildRegDep
    <2>2. edge' \subseteq [from : ORsOf, to : ORsOf, dep : DepType]
      BY <1>1, NewEdgesType DEF BuildRegDep, TypeOKDDG
    <2>3. pos' \in 1 .. Len(bb) + 1
      BY <1>0, <1>1 DEF BuildRegDep, TypeOKDDG
    <2>4. defor' \in [Loc -> SUBSET ORsOf]
      BY <1>1, NewEdgesType DEF BuildRegDep, TypeOKDDG
    <2>5. useor' \in [Loc -> SUBSET ORsOf]
      BY <1>1, NewEdgesType DEF BuildRegDep, TypeOKDDG
    <2>6. QED
      BY <2>1, <2>2, <2>3, <2>4, <2>5 DEF TypeOKDDG, ORsOf
  <1>2. CASE EndRegDep
    BY <1>0, <1>2 DEF EndRegDep, TypeOKDDG, ORsOf
  <1>3. CASE BuildMemDep
    <2>1. pos \in ORsOf
      BY <1>0, <1>3 DEF BuildMemDep, TypeOKDDG, ORsOf
    <2>2. edge' \subseteq [from : ORsOf, to : ORsOf, dep : DepType]
      BY <1>0, <1>3, <2>1 DEF BuildMemDep, TypeOKDDG, ORsOf, Edge, DepType
    <2>3. prev' \in 0 .. Len(bb)
      BY <1>0, <1>3, <2>1 DEF BuildMemDep, TypeOKDDG, ORsOf
    <2>4. QED
      BY <1>0, <1>3, <2>2, <2>3 DEF BuildMemDep, TypeOKDDG, ORsOf
  <1>4. CASE RemoveRedundantDep
    BY <1>4 DEF RemoveRedundantDep, TypeOKDDG, ORsOf
  <1>5. CASE UNCHANGED ddgvars
    BY <1>5 DEF ddgvars, buildvars, TypeOKDDG, ORsOf
  <1>6. QED
    BY <1>1, <1>2, <1>3, <1>4, <1>5 DEF NextDDG

\* The graph joins ORs of the block and the maps hold ORs of the block, however
\* far build() has come.
THEOREM DDGTypeCorrect == SpecDDG => []TypeOKDDG
  BY DDGInitType, DDGNextType, PTL DEF SpecDDG
-----------------------------------------------------------------------------
(* What an iteration of buildRegDep adds. *)

LEMMA NewEdgesSound ==
    ASSUME DDGInv, stage = "reg", pos <= Len(bb),
           NEW e \in OpndEdges(pos) \cup ResultEdges(pos)
    PROVE  /\ e.to = pos /\ e.from < pos /\ e.dep # "HYB"
           /\ e.dep # "REG_READ" => RegConflict(e.from, e.to)
  <1>1. pos \in ORsOf /\ bb[pos] \in OR /\ Len(bb) \in Nat
    BY NewEdgesType, DDGBlockType DEF DDGInv, TypeOKDDG, ORsOf
  <1>2. UseLocs(bb[pos]) \subseteq Loc /\ DefLocs(bb[pos]) \subseteq Loc
    BY <1>1, LocsType
  <1>3. CASE e \in OpndEdges(pos)
    <2>1. PICK l \in UseLocs(bb[pos]) :
             \/ \E d \in defor[l] : e = Edge(d, pos, "REG_FLOW")
             \/ \E u \in useor[l] : e = Edge(u, pos, "REG_READ")
      BY <1>3 DEF OpndEdges
    <2>2. CASE \E d \in defor[l] : e = Edge(d, pos, "REG_FLOW")
      <3>1. PICK d \in defor[l] : e = Edge(d, pos, "REG_FLOW")
        BY <2>2
      <3>2. d < pos /\ l \in DefLocs(bb[d])
        BY <1>2 DEF DDGInv, DeforKnown
      <3>3. RegConflict(d, pos)
        BY <3>2 DEF RegConflict
      <3>4. QED
        BY <3>1, <3>2, <3>3 DEF Edge
    <2>3. CASE \E u \in useor[l] : e = Edge(u, pos, "REG_READ")
      BY <1>2, <2>3 DEF DDGInv, UseorKnown, Edge
    <2>4. QED
      BY <2>1, <2>2, <2>3
  <1>4. CASE e \in ResultEdges(pos)
    <2>1. PICK l \in DefLocs(bb[pos]) :
             \/ \E d \in defor[l] : e = Edge(d, pos, "REG_OUT")
             \/ \E u \in UseorAfterOpnds(pos)[l] \ {pos} : e = Edge(u, pos, "REG_ANTI")
      BY <1>4 DEF ResultEdges
    <2>2. CASE \E d \in defor[l] : e = Edge(d, pos, "REG_OUT")
      <3>1. PICK d \in defor[l] : e = Edge(d, pos, "REG_OUT")
        BY <2>2
      <3>2. d < pos /\ l \in DefLocs(bb[d])
        BY <1>2 DEF DDGInv, DeforKnown
      <3>3. RegConflict(d, pos)
        BY <3>2 DEF RegConflict
      <3>4. QED
        BY <3>1, <3>2, <3>3 DEF Edge
    <2>3. CASE \E u \in UseorAfterOpnds(pos)[l] \ {pos} : e = Edge(u, pos, "REG_ANTI")
      <3>1. PICK u \in UseorAfterOpnds(pos)[l] \ {pos} : e = Edge(u, pos, "REG_ANTI")
        BY <2>3
      <3>2. u \in useor[l]
        BY <1>2 DEF UseorAfterOpnds
      <3>3. u < pos /\ l \in UseLocs(bb[u])
        BY <1>2, <3>2 DEF DDGInv, UseorKnown
      <3>4. RegConflict(u, pos)
        BY <3>3 DEF RegConflict
      <3>5. QED
        BY <3>1, <3>3, <3>4 DEF Edge
    <2>4. QED
      BY <2>1, <2>2, <2>3
  <1>5. QED
    BY <1>3, <1>4

\* The edges of OpndEdges and ResultEdges, one kind at a time.
LEMMA NewEdges ==
    ASSUME TypeOKDDG, stage = "reg", pos <= Len(bb), NEW l \in Loc
    PROVE  /\ l \in UseLocs(bb[pos]) =>
                \A d \in defor[l] : Edge(d, pos, "REG_FLOW") \in OpndEdges(pos)
           /\ l \in DefLocs(bb[pos]) =>
                \A d \in defor[l] : Edge(d, pos, "REG_OUT") \in ResultEdges(pos)
           /\ l \in DefLocs(bb[pos]) =>
                \A u \in useor[l] \ {pos} :
                    Edge(u, pos, "REG_ANTI") \in ResultEdges(pos)
  <1>1. useor[l] \subseteq UseorAfterOpnds(pos)[l]
    BY DEF UseorAfterOpnds
  <1>2. QED
    BY <1>1 DEF OpndEdges, ResultEdges

LEMMA RegDepKnown ==
    ASSUME DDGInv, BuildRegDep
    PROVE  DeforKnown' /\ UseorKnown'
  <1>1. pos \in Int /\ bb' = bb /\ pos' = pos + 1 /\ defor \in [Loc -> SUBSET ORsOf]
          /\ useor \in [Loc -> SUBSET ORsOf] /\ Len(bb) \in Nat /\ 1 <= pos
    BY DDGBlockType DEF DDGInv, TypeOKDDG, BuildRegDep
  <1>2. DeforKnown /\ UseorKnown
    BY DEF DDGInv, BuildRegDep
  <1>3. ASSUME NEW l \in Loc
        PROVE  /\ \A d \in defor'[l] : d < pos + 1 /\ l \in DefLocs(bb[d])
               /\ \A i \in 1 .. pos :
                    l \in DefLocs(bb[i]) => \E d \in defor'[l] : i <= d
    <2>1. CASE l \in DefLocs(bb[pos])
      <3>1. defor'[l] = {pos}
        BY <2>1 DEF BuildRegDep
      <3>2. QED
        BY <1>1, <2>1, <3>1
    <2>2. CASE l \notin DefLocs(bb[pos])
      <3>1. defor'[l] = defor[l]
        BY <2>2 DEF BuildRegDep
      <3>2. \A d \in defor[l] : d < pos /\ l \in DefLocs(bb[d]) /\ d \in Int
        BY <1>1, <1>2 DEF DeforKnown, ORsOf
      <3>3. \A i \in 1 .. pos - 1 : l \in DefLocs(bb[i]) => \E d \in defor[l] : i <= d
        BY <1>2 DEF DeforKnown
      <3>4. \A i \in 1 .. pos : i = pos \/ i \in 1 .. pos - 1
        BY <1>1
      <3>5. QED
        BY <1>1, <2>2, <3>1, <3>2, <3>3, <3>4
    <2>3. QED
      BY <2>1, <2>2
  <1>4. ASSUME NEW l \in Loc
        PROVE  /\ \A u \in useor'[l] : u < pos + 1 /\ l \in UseLocs(bb[u])
               /\ \A i \in 1 .. pos : l \in UseLocs(bb[i]) =>
                    i \in useor'[l] \/ \E d \in defor'[l] : i <= d
    <2>1. CASE l \in DefLocs(bb[pos])
      <3>1. defor'[l] = {pos} /\ useor'[l] = {}
        BY <2>1 DEF BuildRegDep
      <3>2. QED
        BY <1>1, <2>1, <3>1
    <2>2. CASE l \notin DefLocs(bb[pos])
      <3>1. defor'[l] = defor[l]
        BY <2>2 DEF BuildRegDep
      <3>2. useor'[l] = IF l \in UseLocs(bb[pos]) THEN useor[l] \cup {pos} ELSE useor[l]
        BY <2>2 DEF BuildRegDep, UseorAfterOpnds
      <3>3. \A u \in useor[l] : u < pos /\ l \in UseLocs(bb[u]) /\ u \in Int
        BY <1>1, <1>2 DEF UseorKnown, ORsOf
      <3>4. \A i \in 1 .. pos - 1 : l \in UseLocs(bb[i]) =>
                i \in useor[l] \/ \E d \in defor[l] : i <= d
        BY <1>2 DEF UseorKnown
      <3>5. \A i \in 1 .. pos : i = pos \/ i \in 1 .. pos - 1
        BY <1>1
      <3>6. QED
        BY <1>1, <3>1, <3>2, <3>3, <3>4, <3>5
    <2>3. QED
      BY <2>1, <2>2
  <1>5. pos' - 1 = pos
    BY <1>1
  <1>6. QED
    BY <1>1, <1>3, <1>4, <1>5 DEF DeforKnown, UseorKnown

\* The iteration orders pos after the ORs met that it conflicts with: the one
\* that hides an older one comes between the two.
LEMMA RegDepOrdered ==
    ASSUME DDGInv, BuildRegDep,
           NEW S \in SUBSET ORsOf,
           \A e \in edge' : e.to \in S => e.from \in S,
           NEW j \in S, NEW i \in 1 .. j - 1, i \in 1 .. pos, j \in 1 .. pos,
           RegConflict(i, j)
    PROVE  i \in S
  <1>1. stage = "reg" /\ pos <= Len(bb) /\ pos \in Nat /\ TypeOKDDG /\ Len(bb) \in Nat
    BY DDGBlockType DEF DDGInv, TypeOKDDG, BuildRegDep
  <1>2. edge' = edge \cup OpndEdges(pos) \cup ResultEdges(pos)
    BY DEF BuildRegDep
  <1>3. PredClosed(S)
    BY <1>2 DEF PredClosed
  <1>4. \A m \in S : \A n \in 1 .. m - 1 :
           RegConflict(n, m) /\ n \in 1 .. pos - 1 /\ m \in 1 .. pos - 1 => n \in S
    BY <1>1, <1>3 DEF DDGInv, ConflictsOrdered, RegHandled
  <1>5. CASE j # pos
    BY <1>1, <1>4, <1>5
  <1>6. CASE j = pos
    <2>1. bb[pos] \in OR /\ bb[i] \in OR /\ i \in Nat /\ i < pos
      BY <1>1, <1>6, DDGBlockType DEF TypeOKDDG
    <2>2. PICK l \in Loc :
             \/ l \in DefLocs(bb[i]) /\ l \in UseLocs(bb[pos]) \cup DefLocs(bb[pos])
             \/ l \in UseLocs(bb[i]) /\ l \in DefLocs(bb[pos])
      BY <1>6, <2>1, LocsType DEF RegConflict
    <2>3. \A d \in defor[l] : d \in S /\ d < pos /\ l \in DefLocs(bb[d]) /\ d \in ORsOf
      <3>1. SUFFICES ASSUME NEW d \in defor[l] PROVE d \in S
        BY <1>1 DEF DDGInv, DeforKnown, TypeOKDDG
      <3>2. Edge(d, pos, "REG_FLOW") \in edge' \/ Edge(d, pos, "REG_OUT") \in edge'
        BY <1>1, <1>2, <2>2, NewEdges
      <3>3. QED
        BY <1>6, <3>2 DEF Edge
    <2>4. ASSUME NEW d \in defor[l], i <= d PROVE i \in S
      <3>1. CASE i = d
        BY <2>3, <3>1
      <3>2. CASE i # d
        <4>1. RegConflict(i, d)
          BY <2>2, <2>3 DEF RegConflict
        <4>2. i \in 1 .. d - 1 /\ i \in 1 .. pos - 1 /\ d \in 1 .. pos - 1
          BY <1>1, <2>1, <2>3, <2>4, <3>2 DEF ORsOf
        <4>3. QED
          BY <1>4, <2>3, <4>1, <4>2
      <3>3. QED
        BY <3>1, <3>2
    <2>5. i \in 1 .. pos - 1
      BY <1>1, <2>1
    <2>6. CASE l \in DefLocs(bb[i])
      BY <1>1, <2>4, <2>5, <2>6 DEF DDGInv, DeforKnown
    <2>7. CASE l \in UseLocs(bb[i]) /\ l \in DefLocs(bb[pos])
      <3>1. i \in useor[l] \/ \E d \in defor[l] : i <= d
        BY <1>1, <2>5, <2>7 DEF DDGInv, UseorKnown
      <3>2. CASE i \in useor[l]
        <4>1. Edge(i, pos, "REG_ANTI") \in edge'
          BY <1>1, <1>2, <2>1, <2>7, <3>2, NewEdges
        <4>2. QED
          BY <1>6, <4>1 DEF Edge
      <3>3. QED
        BY <2>4, <3>1, <3>2
    <2>8. QED
      BY <2>2, <2>6, <2>7
  <1>7. QED
    BY <1>5, <1>6

\* The definition a read of pos receives is still in the map.
LEMMA RegDepFlow ==
    ASSUME DDGInv, BuildRegDep, NEW u \in 1 .. pos, NEW d \in 1 .. u - 1, NEW l \in Loc,
           ReachingDef(d, u, l)
    PROVE  Edge(d, u, "REG_FLOW") \in edge'
  <1>1. stage = "reg" /\ pos <= Len(bb) /\ pos \in Nat /\ TypeOKDDG
    BY DDGBlockType DEF DDGInv, TypeOKDDG, BuildRegDep
  <1>2. edge' = edge \cup OpndEdges(pos) \cup ResultEdges(pos)
    BY DEF BuildRegDep
  <1>3. CASE u # pos
    BY <1>1, <1>2, <1>3 DEF DDGInv, FlowEdgesDirect, RegHandled
  <1>4. CASE u = pos
    <2>1. l \in DefLocs(bb[d]) /\ l \in UseLocs(bb[pos])
            /\ \A k \in d + 1 .. pos - 1 : l \notin DefLocs(bb[k])
      BY <1>4 DEF ReachingDef
    <2>2. PICK e \in defor[l] : d <= e
      BY <1>1, <1>4, <2>1 DEF DDGInv, DeforKnown
    <2>3. e \in Int /\ e < pos /\ l \in DefLocs(bb[e])
      BY <1>1, <2>2 DEF DDGInv, DeforKnown, TypeOKDDG, ORsOf
    <2>4. e = d
      BY <1>1, <1>4, <2>1, <2>2, <2>3
    <2>5. QED
      BY <1>1, <1>2, <1>4, <2>1, <2>2, <2>4, NewEdges
  <1>5. QED
    BY <1>3, <1>4

LEMMA BuildRegDepInv == ASSUME DDGInv, BuildRegDep PROVE DDGInv'
  <1>1. TypeOKDDG' /\ TypeOKDDG
    BY DDGNextType DEF DDGInv, NextDDG
  <1>2. /\ stage = "reg" /\ stage' = "reg" /\ bb' = bb /\ pos' = pos + 1
        /\ pos \in Nat /\ pos <= Len(bb) /\ prev' = prev /\ prev = 0
        /\ edge' = edge \cup OpndEdges(pos) \cup ResultEdges(pos)
    BY <1>1 DEF BuildRegDep, TypeOKDDG, DDGInv
  <1>3. DeforKnown' /\ UseorKnown'
    BY RegDepKnown
  <1>4. HybridIsMem'
    BY <1>2, NewEdgesSound DEF DDGInv, HybridIsMem, MemConflict
  <1>5. EdgesSound'
    BY <1>1, <1>2, NewEdgesSound DEF DDGInv, EdgesSound, MemConflict, RegConflict
  <1>6. RegHandled' = 1 .. pos /\ MemHandled' = {}
    BY <1>2 DEF RegHandled, MemHandled
  <1>7. ConflictsOrdered'
    <2>1. SUFFICES ASSUME NEW S \in SUBSET ORsOf,
                          \A e \in edge' : e.to \in S => e.from \in S,
                          NEW j \in S, NEW i \in 1 .. j - 1,
                          RegConflict(i, j), {i, j} \subseteq 1 .. pos
                   PROVE  i \in S
      BY ZenonT(30), <1>2, <1>6 DEF ConflictsOrdered, PredClosed, RegConflict, ORsOf
    <2>2. QED
      BY <2>1, RegDepOrdered
  <1>8. FlowEdgesDirect'
    <2>1. SUFFICES ASSUME NEW u \in 1 .. pos, NEW d \in 1 .. u - 1, NEW l \in Loc,
                          ReachingDef(d, u, l)
                   PROVE  Edge(d, u, "REG_FLOW") \in edge'
      BY <1>2, <1>6 DEF FlowEdgesDirect, ReachingDef
    <2>2. QED
      BY <2>1, RegDepFlow
  <1>9. QED
    BY <1>1, <1>2, <1>3, <1>4, <1>5, <1>7, <1>8 DEF DDGInv
-----------------------------------------------------------------------------
(* The other steps of build(). *)

LEMMA EndRegDepInv == ASSUME DDGInv, EndRegDep PROVE DDGInv'
  <1>1. TypeOKDDG' /\ TypeOKDDG /\ Len(bb) \in Nat
    BY DDGNextType, DDGBlockType DEF DDGInv, NextDDG, TypeOKDDG
  <1>2. /\ stage = "reg" /\ stage' = "mem" /\ bb' = bb /\ edge' = edge /\ prev' = 0
        /\ pos = Len(bb) + 1 /\ pos' = 1
    BY <1>1 DEF EndRegDep, DDGInv, TypeOKDDG
  <1>3. PrevKnown'
    BY <1>2 DEF PrevKnown
  <1>4. RegHandled' = RegHandled /\ MemHandled' = MemHandled
    BY <1>1, <1>2 DEF RegHandled, MemHandled, ORsOf
  <1>5. HybridIsMem' /\ EdgesSound'
    BY <1>2 DEF DDGInv, HybridIsMem, EdgesSound, MemConflict, RegConflict
  <1>6. ConflictsOrdered'
    BY <1>2, <1>4 DEF DDGInv, ConflictsOrdered, PredClosed, RegConflict, MemConflict, ORsOf
  <1>7. FlowEdgesDirect'
    BY <1>2, <1>4 DEF DDGInv, FlowEdgesDirect, ReachingDef
  <1>8. QED
    BY <1>1, <1>2, <1>3, <1>5, <1>6, <1>7 DEF DDGInv

LEMMA BuildMemDepInv == ASSUME DDGInv, BuildMemDep PROVE DDGInv'
  <1>1. TypeOKDDG' /\ TypeOKDDG /\ Len(bb) \in Nat
    BY DDGNextType, DDGBlockType DEF DDGInv, NextDDG, TypeOKDDG
  <1>2. /\ stage = "mem" /\ stage' = "mem" /\ bb' = bb /\ pos' = pos + 1
        /\ pos \in Nat /\ pos \in ORsOf /\ prev \in Nat /\ edge \subseteq edge'
    BY <1>1 DEF BuildMemDep, TypeOKDDG, ORsOf
  <1>3. PrevKnown
    BY <1>2 DEF DDGInv
  <1>4. \A i \in 1 .. pos : i = pos \/ i \in 1 .. pos - 1
    BY <1>2
  <1>5. PrevKnown'
    <2>1. CASE IsMem(bb[pos])
      <3>1. prev' = pos
        BY <2>1 DEF BuildMemDep
      <3>2. QED
        BY <1>2, <2>1, <3>1 DEF PrevKnown
    <2>2. CASE ~IsMem(bb[pos])
      <3>1. prev' = prev
        BY <2>2 DEF BuildMemDep
      <3>2. \A i \in 1 .. pos : IsMem(bb[i]) => prev # 0 /\ i <= prev
        BY <1>3, <1>4, <2>2 DEF PrevKnown
      <3>3. QED
        BY <1>2, <1>3, <3>1, <3>2 DEF PrevKnown
    <2>3. QED
      BY <2>1, <2>2
  <1>6. \A e \in edge' : e \in edge \/
           /\ e = Edge(prev, pos, "HYB") /\ prev < pos
           /\ MemConflict(prev, pos)
    BY <1>2, <1>3 DEF BuildMemDep, PrevKnown, MemConflict
  <1>7. HybridIsMem'
    BY <1>2, <1>6 DEF DDGInv, HybridIsMem, MemConflict, Edge
  <1>8. EdgesSound'
    BY <1>2, <1>6 DEF DDGInv, EdgesSound, RegConflict, MemConflict, Edge
  <1>9. /\ RegHandled = ORsOf /\ RegHandled' = ORsOf
        /\ MemHandled = 1 .. pos - 1 /\ MemHandled' = 1 .. pos
    BY <1>2 DEF RegHandled, MemHandled, ORsOf
  <1>10. FlowEdgesDirect'
    BY <1>2, <1>9 DEF DDGInv, FlowEdgesDirect, ReachingDef
  <1>11. ConflictsOrdered'
    <2>1. SUFFICES ASSUME NEW S \in SUBSET ORsOf,
                          \A e \in edge' : e.to \in S => e.from \in S,
                          NEW j \in S, NEW i \in 1 .. j - 1,
                          \/ RegConflict(i, j) /\ {i, j} \subseteq ORsOf
                          \/ MemConflict(i, j) /\ {i, j} \subseteq 1 .. pos
                   PROVE  i \in S
      BY <1>2, <1>9 DEF ConflictsOrdered, PredClosed, RegConflict, MemConflict, ORsOf
    <2>2. PredClosed(S)
      BY <1>2, <2>1 DEF PredClosed
    <2>3. \A m \in S : \A n \in 1 .. m - 1 :
             MemConflict(n, m) /\ n \in 1 .. pos - 1 /\ m \in 1 .. pos - 1 => n \in S
      BY <1>9, <2>2 DEF DDGInv, ConflictsOrdered
    <2>4. CASE RegConflict(i, j) /\ {i, j} \subseteq ORsOf
      BY <1>9, <2>2, <2>4 DEF DDGInv, ConflictsOrdered
    <2>5. CASE MemConflict(i, j) /\ {i, j} \subseteq 1 .. pos
      <3>1. CASE j # pos
        BY <1>2, <2>3, <2>5, <3>1
      <3>2. CASE j = pos
        <4>1. IsMem(bb[i]) /\ IsMem(bb[pos]) /\ i \in 1 .. pos - 1
          BY <2>5, <3>2 DEF MemConflict
        <4>2. prev # 0 /\ i <= prev /\ prev < pos /\ IsMem(bb[prev])
          BY <1>3, <4>1 DEF PrevKnown
        <4>3. Edge(prev, pos, "HYB") \in edge'
          BY <4>1, <4>2 DEF BuildMemDep
        <4>4. prev \in S
          BY <2>1, <3>2, <4>3 DEF Edge
        <4>5. CASE i # prev
          <5>1. i \in 1 .. prev - 1 /\ prev \in 1 .. pos - 1 /\ MemConflict(i, prev)
            BY <1>2, <4>1, <4>2, <4>5 DEF MemConflict
          <5>2. QED
            BY <2>3, <4>1, <4>4, <5>1
        <4>6. QED
          BY <4>4, <4>5
      <3>3. QED
        BY <3>1, <3>2
    <2>6. QED
      BY <2>1, <2>4, <2>5
  <1>12. QED
    BY <1>1, <1>2, <1>5, <1>7, <1>8, <1>10, <1>11 DEF DDGInv

\* removeRedundantDep finds nothing to drop in the graphs build() gives it: a
\* hybrid edge joins two memory ORs and a stack adjustment is none.
LEMMA NothingRedundant == ASSUME DDGInv, RemoveRedundantDep PROVE edge' = edge
  <1>1. SUFFICES ASSUME NEW e \in edge, e.dep = "HYB"
                 PROVE  ~bb[e.to].spadj /\ ~bb[e.from].spadj
    BY DEF RemoveRedundantDep, RedundantPair
  <1>2. MemConflict(e.from, e.to) /\ e.from \in ORsOf /\ e.to \in ORsOf
    BY <1>1 DEF DDGInv, HybridIsMem, TypeOKDDG
  <1>3. WellFormedOR(bb[e.from]) /\ WellFormedOR(bb[e.to])
    BY <1>2, DDGBlockType DEF DDGInv, TypeOKDDG, ORsOf
  <1>4. QED
    BY <1>2, <1>3 DEF WellFormedOR, MemConflict

LEMMA RemoveRedundantDepInv == ASSUME DDGInv, RemoveRedundantDep PROVE DDGInv'
  <1>1. TypeOKDDG' /\ TypeOKDDG /\ Len(bb) \in Nat
    BY DDGNextType, DDGBlockType DEF DDGInv, NextDDG, TypeOKDDG
  <1>2. /\ stage = "mem" /\ stage' = "built" /\ bb' = bb /\ pos' = pos /\ edge' = edge
        /\ pos = Len(bb) + 1
    BY <1>1, NothingRedundant DEF RemoveRedundantDep, TypeOKDDG
  <1>3. RegHandled' = RegHandled /\ MemHandled' = MemHandled
    BY <1>1, <1>2 DEF RegHandled, MemHandled, ORsOf
  <1>4. HybridIsMem' /\ EdgesSound'
    BY <1>2 DEF DDGInv, HybridIsMem, EdgesSound, MemConflict, RegConflict
  <1>5. ConflictsOrdered'
    BY <1>2, <1>3 DEF DDGInv, ConflictsOrdered, PredClosed, RegConflict, MemConflict, ORsOf
  <1>6. FlowEdgesDirect'
    BY <1>2, <1>3 DEF DDGInv, FlowEdgesDirect, ReachingDef
  <1>7. QED
    BY <1>1, <1>2, <1>4, <1>5, <1>6 DEF DDGInv

LEMMA StutterInv == ASSUME DDGInv, UNCHANGED ddgvars PROVE DDGInv'
  <1>1. /\ bb' = bb /\ edge' = edge /\ stage' = stage /\ pos' = pos
        /\ defor' = defor /\ useor' = useor /\ prev' = prev
    BY DEF ddgvars, buildvars
  <1>2. TypeOKDDG'
    BY DDGNextType DEF DDGInv
  <1>3. RegHandled' = RegHandled /\ MemHandled' = MemHandled
    BY <1>1 DEF RegHandled, MemHandled, ORsOf
  <1>4. (stage' = "reg" => DeforKnown' /\ UseorKnown' /\ prev' = 0)
          /\ (stage' = "mem" => PrevKnown')
    BY <1>1 DEF DDGInv, DeforKnown, UseorKnown, PrevKnown
  <1>5. HybridIsMem' /\ EdgesSound'
    BY <1>1 DEF DDGInv, HybridIsMem, EdgesSound, MemConflict, RegConflict
  <1>6. ConflictsOrdered'
    BY <1>1, <1>3 DEF DDGInv, ConflictsOrdered, PredClosed, RegConflict, MemConflict, ORsOf
  <1>7. FlowEdgesDirect'
    BY <1>1, <1>3 DEF DDGInv, FlowEdgesDirect, ReachingDef
  <1>8. QED
    BY <1>2, <1>4, <1>5, <1>6, <1>7 DEF DDGInv

LEMMA DDGInitInv == InitDDG => DDGInv
  <1> SUFFICES ASSUME InitDDG PROVE DDGInv
    OBVIOUS
  <1>1. TypeOKDDG
    BY DDGInitType
  <1>2. DeforKnown /\ UseorKnown /\ prev = 0 /\ stage = "reg" /\ edge = {}
    BY DEF InitDDG, DeforKnown, UseorKnown
  <1>3. RegHandled = {} /\ MemHandled = {}
    BY DEF InitDDG, RegHandled, MemHandled
  <1>4. QED
    BY <1>1, <1>2, <1>3 DEF DDGInv, HybridIsMem, EdgesSound, ConflictsOrdered, FlowEdgesDirect

LEMMA DDGNextInv == DDGInv /\ [NextDDG]_ddgvars => DDGInv'
  BY BuildRegDepInv, EndRegDepInv, BuildMemDepInv, RemoveRedundantDepInv, StutterInv
     DEF NextDDG

LEMMA DDGInvariance == SpecDDG => []DDGInv
  BY DDGInitInv, DDGNextInv, PTL DEF SpecDDG
-----------------------------------------------------------------------------
(* The theorems. *)

\* The graph is acyclic and joins only ORs that conflict.
THEOREM Soundness == SpecDDG => []EdgesSound
  <1>1. DDGInv => EdgesSound
    BY DEF DDGInv
  <1>2. QED
    BY <1>1, DDGInvariance, PTL

\* The graph keeps every pair of conflicting ORs in program order, through
\* any chain of registers, aliases and memory accesses.
THEOREM Ordering == SpecDDG => []ConflictsOrdered
  <1>1. DDGInv => ConflictsOrdered
    BY DEF DDGInv
  <1>2. QED
    BY <1>1, DDGInvariance, PTL

\* A read has a flow edge of its own from the definition it receives.
THEOREM FlowIsDirect == SpecDDG => []FlowEdgesDirect
  <1>1. DDGInv => FlowEdgesDirect
    BY DEF DDGInv
  <1>2. QED
    BY <1>1, DDGInvariance, PTL
=============================================================================
