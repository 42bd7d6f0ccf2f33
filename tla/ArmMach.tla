------------------------------ MODULE ArmMach ------------------------------
(***************************************************************************)
(* The tables of the ARM target, as the target generator computes and      *)
(* prints them: registers and register files, the calling convention, and  *)
(* for every OR code its results and operands, its properties and the      *)
(* cycles its results are available after.  The other modules take their   *)
(* machine operations from here.                                           *)
(***************************************************************************)
EXTENDS Integers, Sequences, TLC

(***************************************************************************)
(* Registers, numbered as in arm_const_info.h.                             *)
(***************************************************************************)
REG_FP == 8                         \* r7
REG_TMP == 13                       \* r12
REG_SP == 14
REG_RETURN_ADDRESS_REGISTER == 15   \* lr
REG_NUM == 115
PhysicalRegs == 1 .. REG_NUM - 1

RegsOf == [RF_R |-> 1 .. 16, RF_D |-> 17 .. 48, RF_Q |-> 49 .. 64, RF_S |-> 65 .. 96,
           RF_SP |-> {}, RF_LR |-> {}, RF_PC |-> {}, RF_CPSR |-> {97}, RF_SPSR |-> {},
           RF_P |-> 98 .. 114, RF_F |-> 17 .. 96]

\* g_reg2regfile: the first file, in the order of REGFILE, with the register.
FileOrder == <<"RF_R", "RF_D", "RF_Q", "RF_S", "RF_SP", "RF_LR", "RF_PC", "RF_CPSR",
               "RF_SPSR", "RF_P", "RF_F">>
FileOf(r) ==
    FileOrder[CHOOSE k \in DOMAIN FileOrder :
                 /\ r \in RegsOf[FileOrder[k]]
                 /\ \A j \in 1 .. k - 1 : r \notin RegsOf[FileOrder[j]]]

Argument == 1 .. 4                                      \* r0-r3
ReturnValue == 1 .. 2
CallerSaved == 1 .. 4
CalleeSaved == 5 .. 12 \cup {REG_RETURN_ADDRESS_REGISTER}   \* r4-r11, lr
AllocableScalar == 5 .. 12 \cup {REG_RETURN_ADDRESS_REGISTER}
AllocableOf(f) == AllocableScalar \cap RegsOf[f]
AllocableOfCluster == AllocableScalar

\* An allocated register survives the passing of arguments and the expansion
\* of fake ORs, a call saves it, and every register has a file.
ASSUME ConventionAssumption ==
    /\ AllocableScalar \cap (Argument \cup ReturnValue \cup {REG_TMP, REG_SP}) = {}
    /\ AllocableScalar \subseteq CalleeSaved
    /\ CalleeSaved \cap CallerSaved = {} /\ ReturnValue \subseteq CallerSaved
    /\ \A r \in PhysicalRegs : \E f \in DOMAIN RegsOf : r \in RegsOf[f]
    /\ AllocableOf("RF_R") = AllocableScalar /\ AllocableOf("RF_F") = {}

(***************************************************************************)
(* The OR codes, by what they do.                                          *)
(***************************************************************************)
FlowCodes == {"b", "bl", "blx", "bx", "ret", "ret1", "ret2", "ret3", "ret4"}
MoveCodes == {"mov", "mov_i", "movw_i", "movt_i", "mov32_i", "mvn", "mvn_i"}
CompareCodes == {"cmp", "cmp_i", "cmn", "cmn_i", "tst", "tst_i", "teq", "teq_i"}
AddCodes == {"add", "adc", "sub", "sbc", "rsb", "rsc"}
AddCodesI == {"add_i", "adc_i", "sub_i", "sbc_i", "rsb_i", "rsc_i"}
FlagCodes == {"adds", "adcs", "subs", "sbcs", "rsbs", "rscs", "adds_i", "adcs_i", "subs_i",
              "sbcs_i", "rsbs_i", "rscs_i"}
LogicCodes == {"and", "and_i", "ands_asr_i", "orr", "orrs", "orr_i", "orr_lsr_i", "orr_lsl_i",
               "eor", "eor_i", "bic"}
MulCodes == {"mul", "mla", "smull", "smlal", "umull", "umlal", "mrs", "msr", "swp", "swpb"}
ShiftCodes == {"lsl", "lsl_i", "lsl_i32", "lsr", "lsr_i", "lsr_i32", "asl", "asl_i", "asr",
               "asr_i", "asr_i32", "ror", "ror_i", "rrx", "neg"}
DirectLoads == {"ldr", "ldrb", "ldrsb", "ldrh", "ldrsh", "ldrd"}
LoadCodes == {"ldm", "ldr_i12", "ldrb_i12", "ldrsb_i8", "ldrh_i8", "ldrsh_i8", "ldrd_i8"}
             \cup DirectLoads
DirectStores == {"str", "strb", "strsb", "strh", "strsh", "strd"}
StoreCodes == {"stm", "str_i12", "strb_i12", "strh_i8", "strd_i8"} \cup DirectStores
SpadjustCodes == {"spadjust_i", "spadjust_r"}
StackCodes == {"asm", "push", "pop", "built_in"}

\* g_or_code_desc
ORCodes ==
    FlowCodes \cup MoveCodes \cup CompareCodes \cup AddCodes \cup AddCodesI \cup FlagCodes
    \cup LogicCodes \cup MulCodes \cup ShiftCodes \cup LoadCodes \cup StoreCodes
    \cup SpadjustCodes \cup StackCodes \cup {"nop", "label"}

(***************************************************************************)
(* Results and operands.  A descriptor is a register file ("r", "p",       *)
(* "cpsr"), an immediate of n bits ("in"), a label or a list of labels;    *)
(* the first operand is the predicate.                                     *)
(***************************************************************************)
ImmBits == [i5 |-> 5, i6 |-> 6, i8 |-> 8, i12 |-> 12, i16 |-> 16, i32 |-> 32]
FileOfDesc == [r |-> "RF_R", p |-> "RF_P", cpsr |-> "RF_CPSR"]

Group(codes, res, opnd) == [c \in codes |-> [res |-> res, opnd |-> opnd]]

NoResult ==
    Group({"label"}, <<>>, <<"r", "label">>)
    @@ Group({"ret"}, <<>>, <<"p", "r">>)
    @@ Group({"bx"}, <<>>, <<"p", "labels", "r">>)
    @@ Group({"b"}, <<>>, <<"p", "label", "cpsr">>)
    @@ Group({"ret1"}, <<>>, <<"p", "r", "r">>)
    @@ Group({"ret2"}, <<>>, <<"p", "r", "r", "r">>)
    @@ Group({"str_i12", "strb_i12"}, <<>>, <<"p", "r", "i12", "r">>)
    @@ Group({"strh_i8"}, <<>>, <<"p", "r", "i8", "r">>)
    @@ Group({"str", "strb", "strh"}, <<>>, <<"p", "r", "i32", "r">>)
    @@ Group({"ret3"}, <<>>, <<"p", "r", "r", "r", "r">>)
    @@ Group({"strd_i8"}, <<>>, <<"p", "r", "i8", "r", "r">>)
    @@ Group({"strd"}, <<>>, <<"p", "r", "i32", "r", "r">>)
    @@ Group({"ret4"}, <<>>, <<"p", "r", "r", "r", "r", "r">>)

OneResultOneOperand ==
    Group({"bl"}, <<"r">>, <<"p", "label">>)
    @@ Group({"mov", "blx", "mvn", "neg"}, <<"r">>, <<"p", "r">>)
    @@ Group({"mov_i", "movw_i", "movt_i", "mvn_i"}, <<"r">>, <<"p", "i16">>)
    @@ Group({"mov32_i"}, <<"r">>, <<"p", "i32">>)
    @@ Group({"mrs"}, <<"r">>, <<"p", "cpsr">>)
    @@ Group({"msr"}, <<"cpsr">>, <<"p", "r">>)

OneResult ==
    Group({"push"}, <<"r">>, <<"p", "r", "r">>)
    @@ Group({"tst", "cmp", "cmn", "teq"}, <<"cpsr">>, <<"p", "r", "r">>)
    @@ Group({"tst_i", "teq_i", "cmp_i", "cmn_i"}, <<"cpsr">>, <<"p", "r", "i32">>)
    @@ Group({"add", "mul", "sub", "rsb", "and", "orr", "eor", "bic", "lsl", "lsr", "asl",
              "asr", "ror"}, <<"r">>, <<"p", "r", "r">>)
    @@ Group({"add_i", "sub_i", "rsb_i", "and_i", "orr_i", "eor_i"}, <<"r">>, <<"p", "r", "i8">>)
    @@ Group(DirectLoads \ {"ldrd"}, <<"r">>, <<"p", "r", "i32">>)
    @@ Group({"ldr_i12", "ldrb_i12"}, <<"r">>, <<"p", "r", "i12">>)
    @@ Group({"ldrsb_i8", "ldrh_i8", "ldrsh_i8"}, <<"r">>, <<"p", "r", "i8">>)
    @@ Group({"asl_i", "asr_i", "lsl_i", "lsr_i"}, <<"r">>, <<"p", "r", "i5">>)
    @@ Group({"lsl_i32", "lsr_i32", "asr_i32"}, <<"r">>, <<"p", "r", "i32">>)
    @@ Group({"adc", "sbc", "rsc"}, <<"r">>, <<"p", "r", "r", "cpsr">>)
    @@ Group({"orr_lsr_i", "orr_lsl_i"}, <<"r">>, <<"p", "r", "r", "i5">>)

TwoResults ==
    Group({"pop"}, <<"r", "r">>, <<"p", "r">>)
    @@ Group({"ands_asr_i"}, <<"r", "cpsr">>, <<"p", "r", "r", "i6">>)
    @@ Group({"adds", "subs", "rsbs", "orrs"}, <<"r", "cpsr">>, <<"p", "r", "r">>)
    @@ Group({"adds_i", "subs_i", "rsbs_i"}, <<"r", "cpsr">>, <<"p", "r", "i8">>)
    @@ Group({"ldrd_i8"}, <<"r", "r">>, <<"p", "r", "i8">>)
    @@ Group({"ldrd"}, <<"r", "r">>, <<"p", "r", "i32">>)
    @@ Group({"adcs", "sbcs", "rscs"}, <<"r", "cpsr">>, <<"p", "r", "r", "cpsr">>)
    @@ Group({"adcs_i", "sbcs_i", "rscs_i"}, <<"r", "cpsr">>, <<"p", "r", "i32", "cpsr">>)
    @@ Group({"spadjust_i"}, <<"r", "r">>, <<"p", "r", "i32">>)
    @@ Group({"spadjust_r"}, <<"r", "r">>, <<"p", "r", "r">>)

\* OTD_srd_group; the codes left out (mla, ldm, strsb, adc_i, asm, nop, ...)
\* have none, and no OR can be built of them from it.
SRDescGroup == NoResult @@ OneResultOneOperand @@ OneResult @@ TwoResults
Described == DOMAIN SRDescGroup

(***************************************************************************)
(* Properties.                                                             *)
(***************************************************************************)
FakeCodes ==
    SpadjustCodes \cup DirectLoads \cup DirectStores
    \cup {"label", "lsr_i", "lsr_i32", "lsl_i32", "asr_i32", "add_i", "sub_i", "mov32_i"}
BranchCodes == {"b", "bx"}  \* is_cond_br, is_uncond_br

\* isRflagRegister of a result
IsRflagResult(c, k) == SRDescGroup[c].res[k] = "cpsr"

(***************************************************************************)
(* Cycles, as the scheduler reads them.                                    *)
(***************************************************************************)
OneCycle ==
    FlowCodes \cup MoveCodes \cup CompareCodes \cup AddCodes \cup AddCodesI \cup LogicCodes
    \cup MulCodes \cup ShiftCodes

\* ORSI_reg_result_avail_cyc: the flags come out of the last stage.
ResultCycle(c, k) ==
    CASE c \in FlagCodes     -> IF IsRflagResult(c, k) THEN 3 ELSE 1
      [] c \in LoadCodes     -> 3
      [] c \in SpadjustCodes -> 2
      [] c \in OneCycle \cup StoreCodes \cup StackCodes -> 1

LastCycle(c) ==
    CASE c \in FlagCodes \cup LoadCodes -> 3
      [] c \in SpadjustCodes -> 2
      [] c \in OneCycle \cup StoreCodes \cup StackCodes -> 1

MemCycle(c) == IF c \in StoreCodes THEN 1 ELSE 0

\* The scheduler relies on it: no result comes after the last cycle, those of
\* a load come together, every code with operands has cycles, and the flags
\* are a result of every code that computes them late.
ASSUME CyclesAssumption ==
    /\ Described \subseteq ORCodes
    /\ \A c \in Described \ {"label"} : \A k \in DOMAIN SRDescGroup[c].res :
          /\ ResultCycle(c, k) \in 1 .. LastCycle(c)
          /\ c \in LoadCodes => ResultCycle(c, k) = LastCycle(c)
    /\ \A c \in FlagCodes \cap Described :
          \E k \in DOMAIN SRDescGroup[c].res : IsRflagResult(c, k)
=============================================================================
