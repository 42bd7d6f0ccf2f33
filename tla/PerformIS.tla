----------------------------- MODULE PerformIS -----------------------------
(***************************************************************************)
(* Instruction scheduling of one basic block, as CG::performIS and         *)
(* CG::package run it: the dependence graph is built (DDG), the list       *)
(* scheduler reads it (LIS, over the simulator BBSim), and the execution   *)
(* table becomes the block's package, the code that is printed.            *)
(***************************************************************************)
EXTENDS DDG, LIS

VARIABLES pkg   \* the IssuePackageList of the block

isvars == <<vars, buildvars, pkg>>

InitIS ==
    /\ InitDDG
    /\ InitLISState
    /\ pkg = <<>>

\* performIS: ddg->build(), only if the block is going to be scheduled.
Build ==
    /\ DoLis
    /\ NextDDG
    /\ UNCHANGED <<simvars, lisvars, pkg>>

\* performIS: lis->schedule() on the graph built, or lis->serialize() on an
\* empty one.
Schedule ==
    /\ DoLis => stage = "built"
    /\ NextLIS
    /\ UNCHANGED <<buildvars, pkg>>

\* Mutant: the last cycle is not looked at.
PackageCellsShort == {x \in execTab : x.cyc < cyc - 1}

\* The cells of the execution table package looks at: the cycles before
\* getCurCycle().
PackageCells == {x \in execTab : x.cyc < cyc}

\* package: the only slot's execution table, in the order of the cycles.
Package ==
    /\ phase = "done"
    /\ \E x \in PackageCells :
         /\ Cardinality({y \in execTab : y.cyc < x.cyc}) = Len(pkg)
         /\ pkg' = Append(pkg, x.or)
    /\ UNCHANGED <<vars, buildvars>>

NextIS == Build \/ Schedule \/ Package

SpecIS == InitIS /\ [][NextIS]_isvars /\ WF_isvars(NextIS)
-----------------------------------------------------------------------------
(* Properties *)

\* The code emitted for a block computes what the block says: two ORs that
\* conflict, on a register, an alias of it or memory, are in program order.
PackageKeepsConflicts ==
    \A m, n \in 1 .. Len(pkg) :
        RegConflict(pkg[m], pkg[n]) \/ MemConflict(pkg[m], pkg[n])
            => (m < n <=> pkg[m] < pkg[n])

\* The package is complete.
Packaged == phase = "done" /\ Len(pkg) = Cardinality(PackageCells)

\* OR d is the last of the first n - 1 ORs of the package that writes location l.
LastWrites(d, n, l) ==
    \E m \in 1 .. n - 1 :
        /\ pkg[m] = d
        /\ l \in DefLocs(bb[d])
        /\ \A k \in m + 1 .. n - 1 : l \notin DefLocs(bb[pkg[k]])

\* Every OR of the package reads each location from the OR that it reads it from
\* in the block, or from none, as in the block.
ReadsKept ==
    \A n \in 1 .. Len(pkg) : \A l \in UseLocs(bb[pkg[n]]) : \A d \in ORsOf :
        LastWrites(d, n, l) <=> ReachingDef(d, pkg[n], l)

\* The whole package leaves in each location what the block leaves there.
ResultsLeft ==
    Packaged =>
        \A l \in Loc : \A d \in ORsOf :
            LastWrites(d, Len(pkg) + 1, l) <=>
                /\ l \in DefLocs(bb[d])
                /\ \A k \in d + 1 .. Len(bb) : l \notin DefLocs(bb[k])

\* The whole package has every store and branch of the block, and every other
\* OR but NOPs.
EveryOREmitted ==
    Packaged => \A o \in ORsOf : bb[o].nop \/ \E m \in 1 .. Len(pkg) : pkg[m] = o

\* The code emitted for a block (CG::package) computes what the block does:
\* every OR reads each register, or alias of it, from the OR it reads it from in
\* the block, the last OR to write one is the same, and no OR is lost on the way
\* from the graph through the execution table.
SameComputation == ReadsKept /\ ResultsLeft /\ EveryOREmitted

=============================================================================
