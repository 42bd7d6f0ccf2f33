------------------------------- MODULE Block -------------------------------
(***************************************************************************)
(* A basic block of machine operations (classes ORBB, OR and SR) and its   *)
(* dependence graph, as far as the graph's builder, the simulator and the  *)
(* scheduler tell them apart.                                              *)
(*                                                                         *)
(* An OR is a record; a block's OR list is a sequence of them, and an OR   *)
(* of a block is named by its position in that sequence.                   *)
(***************************************************************************)
EXTENDS Integers, Sequences

CONSTANTS
    SR,         \* symbolic registers, the pointers SR*
    Reg,        \* physical registers
    RegUndef,   \* REG_UNDEF: no physical register assigned
    PhyReg,     \* SR_phy_reg: the physical register of each SR
    Rflag,      \* the SR of the condition flags (ARMCG::getRflag)
    Blocks      \* the OR lists considered

ASSUME RegisterAssumption ==
    /\ RegUndef \notin Reg
    /\ PhyReg \in [SR -> Reg \cup {RegUndef}]
    /\ Rflag \in SR

(***************************************************************************)
(* An OR: its results and the cycle each becomes available (the            *)
(* ORScheInfo of its code), the registers among its operands (the true     *)
(* predicate and the immediates left out), its memory behaviour and the    *)
(* predicates of or.h the scheduler asks.  "slots" are the issue slots     *)
(* whose function unit can execute it, "slot" the one it is assigned.      *)
(***************************************************************************)
OR == [ res    : Seq(SR),                   \* get_result(i)
        avail  : Seq(Nat),                  \* ORSI_reg_result_avail_cyc(i)
        opnd   : SUBSET SR,                 \* get_opnd(i)
        last   : Nat \ {0},                 \* ORSI_last_result_avail_cyc
        mem    : {"none", "load", "store"}, \* is_load(), is_store()
        memAvail : Nat,                     \* ORSI_mem_result_avail_cyc(0)
        br     : BOOLEAN,                   \* OR_is_br
        nop    : BOOLEAN,                   \* OR_is_nop
        spadj  : BOOLEAN,                   \* isSpadjust()
        base   : SUBSET SR,                 \* get_mem_base(), {} if not is_mem
        slot   : Nat,                       \* computeORSlot
        slots  : SUBSET Nat ]               \* the slots changeSlot accepts

IsMem(o) == o.mem # "none"

Results(o) == {o.res[i] : i \in 1 .. Len(o.res)}

\* Every result has an availability cycle and none is later than the last
\* one, a memory operation delivers all its results together, as the tables
\* of arm_gen_targ_mach_resource.cpp say, a stack adjustment is not a memory
\* operation, and a NOP has no register but its predicate (ARMCG::buildNop).
WellFormedOR(o) ==
    /\ Len(o.avail) = Len(o.res)
    /\ \A i \in 1 .. Len(o.res) : o.avail[i] <= o.last
    /\ IsMem(o) => \A i \in 1 .. Len(o.res) : o.avail[i] = o.last
    /\ o.memAvail <= o.last
    /\ o.spadj => ~IsMem(o)
    /\ o.nop => o.res = <<>> /\ o.opnd = {} /\ ~IsMem(o)

\* A branch ends its block (ORBB::isLowerBoundary).
BlocksAssumptionOf(b) ==
    /\ b \in Seq(OR)
    /\ \A i \in 1 .. Len(b) : WellFormedOR(b[i]) /\ (b[i].br => i = Len(b))

ASSUME BlocksAssumption == \A b \in Blocks : BlocksAssumptionOf(b)

\* CG::isSREqual: the same SR, or two SRs in one physical register.
IsSREqual(s, t) == s = t \/ (PhyReg[s] = PhyReg[t] /\ PhyReg[s] # RegUndef)

\* CG::mustUse, CG::mustDef
MustUse(o, s) == \E t \in o.opnd : IsSREqual(t, s)
MustDef(o, s) == \E t \in Results(o) : IsSREqual(t, s)

VARIABLES
    bb,         \* m_bb: the OR list
    edge        \* the graph: one element for each DEP_TYPE flag of an edge

ORsOf == 1 .. Len(bb)

\* The flags of DEP_TYPE an edge of a scheduling graph can carry.
DepType == {"REG_FLOW", "REG_ANTI", "REG_OUT", "REG_READ", "HYB",
            "MEM_FLOW", "MEM_OUT", "MEM_VOL"}

Edge(from, to, dep) == [from |-> from, to |-> to, dep |-> dep]

\* DDGEI_deptype of the edge; {} if there is none (is_dependent).
DepsOf(from, to) == {e.dep : e \in {x \in edge : x.from = from /\ x.to = to}}

\* At cycle t, o may follow c, issued at cycle s: each result of c that o reads
\* is available, and each that o overwrites has landed (the flags excepted).
LandedBy(c, o, s, t) ==
    \A i \in 1 .. Len(bb[c].res) :
        \/ "REG_FLOW" \in DepsOf(c, o) /\ MustUse(bb[o], bb[c].res[i])
        \/ /\ "REG_OUT" \in DepsOf(c, o)
           /\ bb[c].res[i] # Rflag
           /\ MustDef(bb[o], bb[c].res[i])
        => t >= s + bb[c].avail[i]

\* A set of ORs the graph allows to be executed first: with an OR it has all
\* the OR's predecessors.
PredClosed(S) == \A e \in edge : e.to \in S => e.from \in S
=============================================================================
