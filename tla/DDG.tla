-------------------------------- MODULE DDG --------------------------------
(***************************************************************************)
(* The data dependence graph of a basic block: DataDepGraph::build of      *)
(* or_ddg.cpp with ARMDDG of arm_ddg.cpp.  One step handles one OR of the  *)
(* block, in program order: first buildRegDep walks the block, then        *)
(* buildMemDepWithOutAnalysis does, then removeRedundantDep filters the    *)
(* edges.                                                                  *)
(***************************************************************************)
EXTENDS Block

CONSTANTS
    Alias,      \* collectAliasRegSet: the registers a register aliases
    Param       \* m_ddg_param, of the flags this construction reads

ASSUME AliasAssumption ==
    /\ Alias \in [Reg -> SUBSET Reg]
    /\ \A r \in Reg : r \in Alias[r]

ASSUME ParamAssumption == Param \subseteq {"PHY_REG", "SYM_REG", "REG_READ"}

VARIABLES
    stage,      \* the loop of build() that is running
    pos,        \* the next OR of that loop
    defor,      \* map_reg2defors and map_sr2defors
    useor,      \* map_reg2useors and map_sr2useors
    prev        \* the last memory OR met, 0 if none

buildvars == <<stage, pos, defor, useor, prev>>
ddgvars == <<bb, edge, buildvars>>

(***************************************************************************)
(* What the two kinds of maps are indexed by: physical registers, each     *)
(* with its aliases, and symbolic registers.                               *)
(***************************************************************************)
Loc == Reg \cup SR

LocsOf(s) ==
    (IF "PHY_REG" \in Param /\ PhyReg[s] # RegUndef THEN Alias[PhyReg[s]] ELSE {})
      \cup (IF "SYM_REG" \in Param THEN {s} ELSE {})

UseLocs(o) == UNION {LocsOf(s) : s \in o.opnd}
DefLocs(o) == UNION {LocsOf(s) : s \in Results(o)}

InitDDG ==
    /\ bb \in Blocks
    /\ edge = {}
    /\ stage = "reg"
    /\ pos = 1
    /\ defor = [l \in Loc |-> {}]
    /\ useor = [l \in Loc |-> {}]
    /\ prev = 0

\* Mutant: only the first read after a definition gets an edge.
OpndEdgesFirstRead(p) ==
    UNION {{Edge(d, p, "REG_FLOW") : d \in IF useor[l] = {} THEN defor[l] ELSE {}}
             : l \in UseLocs(bb[p])}

\* handleOpnds: a read depends on the last definitions of its location, and
\* on its earlier reads if read dependences are asked for.
OpndEdges(p) ==
    UNION {{Edge(d, p, "REG_FLOW") : d \in defor[l]}
             \cup {Edge(u, p, "REG_READ") :
                     u \in IF "REG_READ" \in Param THEN useor[l] ELSE {}}
             : l \in UseLocs(bb[p])}

\* Mutant: a read replaces the reads before it.
UseorAfterOpndsLastRead(p) ==
    [l \in Loc |-> IF l \in UseLocs(bb[p]) THEN {p} ELSE useor[l]]

UseorAfterOpnds(p) ==
    [l \in Loc |-> IF l \in UseLocs(bb[p]) THEN useor[l] \cup {p} ELSE useor[l]]

\* Mutants: an OR that reads what it writes depends on itself; a write does not
\* depend on the reads before it.
ResultEdgesSelf(p) ==
    UNION {{Edge(d, p, "REG_OUT") : d \in defor[l]}
             \cup {Edge(u, p, "REG_ANTI") : u \in UseorAfterOpnds(p)[l]}
             : l \in DefLocs(bb[p])}

ResultEdgesNoAnti(p) ==
    UNION {{Edge(d, p, "REG_OUT") : d \in defor[l]} : l \in DefLocs(bb[p])}

\* handleResults: a write depends on the last definitions of its location and
\* on the reads since; it becomes the only definition and kills the reads.
ResultEdges(p) ==
    UNION {{Edge(d, p, "REG_OUT") : d \in defor[l]}
             \cup {Edge(u, p, "REG_ANTI") : u \in UseorAfterOpnds(p)[l] \ {p}}
             : l \in DefLocs(bb[p])}

\* One iteration of buildRegDep: handleOpnds, then handleResults.
BuildRegDep ==
    /\ stage = "reg"
    /\ pos <= Len(bb)
    /\ edge' = edge \cup OpndEdges(pos) \cup ResultEdges(pos)
    /\ defor' = [l \in Loc |-> IF l \in DefLocs(bb[pos]) THEN {pos} ELSE defor[l]]
    /\ useor' = [l \in Loc |-> IF l \in DefLocs(bb[pos]) THEN {}
                               ELSE UseorAfterOpnds(pos)[l]]
    /\ pos' = pos + 1
    /\ UNCHANGED <<bb, stage, prev>>

\* Mutant: the second walk starts before the first OR.
EndRegDepFromZero ==
    /\ stage = "reg"
    /\ pos > Len(bb)
    /\ stage' = "mem"
    /\ pos' = 0
    /\ UNCHANGED <<bb, edge, defor, useor, prev>>

EndRegDep ==
    /\ stage = "reg"
    /\ pos > Len(bb)
    /\ stage' = "mem"
    /\ pos' = 1
    /\ UNCHANGED <<bb, edge, defor, useor, prev>>

\* One iteration of buildMemDepWithOutAnalysis: every memory OR depends on
\* the memory OR before it, whatever the two access.
BuildMemDep ==
    /\ stage = "mem"
    /\ pos <= Len(bb)
    /\ IF IsMem(bb[pos])
       THEN /\ edge' = edge \cup
                         (IF prev # 0 THEN {Edge(prev, pos, "HYB")} ELSE {})
            /\ prev' = pos
       ELSE UNCHANGED <<edge, prev>>
    /\ pos' = pos + 1
    /\ UNCHANGED <<bb, stage, defor, useor>>

\* The hybrid edge between a memory OR m and the stack adjustment a is
\* dropped when it says nothing of the base of m's address.
RedundantPair(m, a) ==
    IsMem(bb[m]) /\ bb[a].spadj /\ ~\E s \in bb[m].base : MustDef(bb[a], s)

\* removeRedundantDep
RemoveRedundantDep ==
    /\ stage = "mem"
    /\ pos > Len(bb)
    /\ edge' = {e \in edge :
         \/ e.dep # "HYB"
         \/ /\ DepsOf(e.from, e.to) # {"HYB"}   \* HYB beside other flags
            /\ ~(IsMem(bb[e.from]) /\ bb[e.to].spadj)
            /\ ~(IsMem(bb[e.to]) /\ bb[e.from].spadj)
         \/ /\ DepsOf(e.from, e.to) = {"HYB"}
            /\ ~(RedundantPair(e.from, e.to) /\ ~IsMem(bb[e.to]))
            /\ ~(RedundantPair(e.to, e.from) /\ ~IsMem(bb[e.from]))}
    /\ stage' = "built"
    /\ UNCHANGED <<bb, pos, defor, useor, prev>>

NextDDG == BuildRegDep \/ EndRegDep \/ BuildMemDep \/ RemoveRedundantDep

SpecDDG == InitDDG /\ [][NextDDG]_ddgvars /\ WF_ddgvars(NextDDG)
-----------------------------------------------------------------------------
(* Properties *)

\* Two ORs that must not be reordered: they touch a common register, one of
\* them writing it, or both access memory.
RegConflict(i, j) ==
    \/ DefLocs(bb[i]) \cap (UseLocs(bb[j]) \cup DefLocs(bb[j])) # {}
    \/ UseLocs(bb[i]) \cap DefLocs(bb[j]) # {}

MemConflict(i, j) == IsMem(bb[i]) /\ IsMem(bb[j])

RegHandled == IF stage = "reg" THEN 1 .. pos - 1 ELSE ORsOf
MemHandled == CASE stage = "reg" -> {} [] stage = "mem" -> 1 .. pos - 1
                [] OTHER -> ORsOf

TypeOKDDG ==
    /\ bb \in Blocks
    /\ edge \subseteq [from : ORsOf, to : ORsOf, dep : DepType]
    /\ stage \in {"reg", "mem", "built"}
    /\ pos \in 1 .. Len(bb) + 1
    /\ defor \in [Loc -> SUBSET ORsOf]
    /\ useor \in [Loc -> SUBSET ORsOf]
    /\ prev \in 0 .. Len(bb)

\* Every edge goes forward in program order and joins two ORs that conflict,
\* so the graph is acyclic (the scheduler asserts it) and never delays an OR
\* without a reason.  REG_READ edges are the ones asked for explicitly.
EdgesSound ==
    \A e \in edge :
        /\ e.from < e.to
        /\ e.dep # "REG_READ" =>
             RegConflict(e.from, e.to) \/ MemConflict(e.from, e.to)

\* Whatever prefix of the block's execution the graph permits, an OR of it is
\* preceded by every earlier OR it conflicts with: overwritten definitions and
\* killed reads are never needed, because the OR that killed them keeps the
\* order.
ConflictsOrdered ==
    \A S \in SUBSET ORsOf : PredClosed(S) =>
        \A j \in S : \A i \in 1 .. j - 1 :
            \/ RegConflict(i, j) /\ {i, j} \subseteq RegHandled
            \/ MemConflict(i, j) /\ {i, j} \subseteq MemHandled
            => i \in S

\* The definition a read receives its value from has a REG_FLOW edge of its
\* own to the reader: BBSimulator::canBeIssued looks at direct edges only, so
\* a path through other ORs would lose the definition's latency.
ReachingDef(d, u, l) ==
    /\ d < u
    /\ l \in DefLocs(bb[d]) \cap UseLocs(bb[u])
    /\ \A k \in d + 1 .. u - 1 : l \notin DefLocs(bb[k])

FlowEdgesDirect ==
    \A u \in RegHandled : \A d \in 1 .. u - 1 :
        (\E l \in Loc : ReachingDef(d, u, l)) => Edge(d, u, "REG_FLOW") \in edge

=============================================================================
