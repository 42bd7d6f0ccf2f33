------------------------------- MODULE MC_LIS -------------------------------
(***************************************************************************)
(* LIS alone, on a target of two issue slots whose ORs can be moved        *)
(* between them, with every dependence graph of three edge types over      *)
(* every block of BodyLen ORs, without a branch or with one of one or      *)
(* three cycles, whose delay slots are scheduled.                          *)
(***************************************************************************)
EXTENDS LIS, TLC

CONSTANTS BodyLen, r1, RU

Base == [res |-> <<r1>>, avail |-> <<1>>, opnd |-> {r1}, last |-> 1, mem |-> "none",
         memAvail |-> 0, br |-> FALSE, nop |-> FALSE, spadj |-> FALSE,
         base |-> {}, slot |-> 0, slots |-> {0, 1}]

\* An operation of either slot, a load of slot 0 and a NOP.
Alu  == Base
Load == [Base EXCEPT !.avail = <<3>>, !.last = 3, !.mem = "load", !.slots = {0}]
Nop  == [Base EXCEPT !.nop = TRUE, !.res = <<>>, !.avail = <<>>, !.opnd = {}]
B    == [Base EXCEPT !.br = TRUE, !.res = <<>>, !.avail = <<>>, !.slot = 1,
                     !.slots = {1}]
SlowB == [B EXCEPT !.last = 3]

Bodies == [1 .. BodyLen -> {Alu, Load, Nop}]
DelayBodies == [1 .. BodyLen -> {Alu, Load}]
MCBlocks == Bodies \cup {Append(b, c) : b \in DelayBodies, c \in {B, SlowB}}

\* Every acyclic graph on the block's first ORs whose edges carry one flag
\* each; the branch, if there is one, depends on the first OR or on none.
\* With a branch, a load follows the load before it, as buildMemDep has it:
\* two loads for the one slot that loads, beside an operation the branch waits
\* for, reach the assertion of rollBackORs.
PairsOf(n) == {p \in (1 .. n) \X (1 .. n) : p[1] < p[2]}
EdgeSets(n) ==
    {{Edge(p[1], p[2], f[p]) : p \in {q \in PairsOf(n) : f[q] # "none"}}
        : f \in [PairsOf(n) -> {"none", "REG_FLOW", "REG_ANTI", "HYB"}]}
LoadsOrdered(b, g) ==
    \A n \in 2 .. BodyLen :
        b[n - 1] = Load /\ b[n] = Load => \E e \in g : e.from = n - 1 /\ e.to = n
GraphsOf(b) ==
    IF Len(b) > BodyLen
    THEN {g \cup x : g \in {h \in EdgeSets(BodyLen) : LoadsOrdered(b, h)},
                     x \in {{}, {Edge(1, Len(b), "REG_FLOW")}}}
    ELSE EdgeSets(BodyLen)
MCGraphs == [b \in MCBlocks |-> GraphsOf(b)]
MCSR == {r1}
MCPhyReg == [s \in MCSR |-> RU]
=============================================================================
