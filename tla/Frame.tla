------------------------------- MODULE Frame -------------------------------
(***************************************************************************)
(* The stack frame of one function, through the passes of CG::perform that *)
(* lay it out, and one execution of the function on it.  Offsets are given *)
(* to variables when their first reference is converted, while the size of *)
(* the outgoing argument area below them still grows; the frame size, the  *)
(* place of the parameters and the final offsets come later.               *)
(*                                                                         *)
(*   maxarg                    locals, temporaries, spills   register      *)
(*   (arguments of calls)      (stack section)               parameters    *)
(*   SP ------------------------------------------------- start ---- frame *)
(***************************************************************************)
EXTENDS Integers, Sequences

CONSTANTS
    Units,          \* the functions: see UnitOK
    AllocaSizes,    \* sizes a call of alloca may ask for
    NumArgReg       \* number of argument registers

\* A function: sizes of its variables (spill variables included), its formal
\* parameters with their sizes and whether they are structs, its calls: early is
\* what computeTotalParameterStackSize says of a call statement and 0 for the
\* calls conversion adds, sect and stk are the argument section and its part on
\* the stack.
UnitOK(u) ==
    /\ \A v \in DOMAIN u.size : u.size[v] \in Nat
    /\ u.formal \in Seq([size : Nat, mc : BOOLEAN])
    /\ \A c \in u.calls : /\ c.early \in Nat /\ c.sect \in Nat /\ c.stk \in Nat
                          /\ c.stk <= c.sect
    /\ u.alloca \in BOOLEAN

ASSUME FrameAssumption ==
    /\ \A u \in Units : UnitOK(u)
    /\ AllocaSizes \subseteq Nat /\ NumArgReg \in Nat

VARIABLES
    unit,       \* the function
    pc,         \* the pass of CG::perform, then "body" and "returned"
    todo,       \* calls the pass has still to look at
    maxarg,     \* m_max_real_arg_size
    sect,       \* size of the stack section
    vd,         \* variable -> offset in the stack section (VarDesc)
    pofst,      \* offsets of the parameters in the parameter section
    psect,      \* size of the parameter section
    frame,      \* frame size: the operand of the stack adjustments
    start,      \* offset of the parameter section from SP
    place,      \* variable -> final offset
    sp, fp,     \* run time: the registers, 0 is SP at the entry
    block,      \* run time: the bytes alloca returned
    out         \* run time: the bytes of the stack top written for a call

vars == <<unit, pc, todo, maxarg, sect, vd, pofst, psect, frame, start, place,
          sp, fp, block, out>>
layoutVars == <<unit, maxarg, sect, vd, pofst, psect, frame, start, place>>
runVars == <<sp, fp, block, out>>

Word == 4       \* STACK_ALIGNMENT, GENERAL_REGISTER_SIZE
SpAlign == 8    \* SPADJUST_ALIGNMENT

CeilAlign(n, a) == ((n + a - 1) \div a) * a
Range2(a, n) == a .. a + n - 1
\* Mutant: the frame pointer is never used.
MutNeverFP == FALSE

UseFP == unit.alloca

InMemory == DOMAIN unit.size

Pass(from, to) == pc = from /\ pc' = to

\* initFuncUnit
ComputeParamLayout ==
    /\ pc = "param" /\ Len(pofst) < Len(unit.formal)
    /\ pofst' = Append(pofst, psect)
    /\ psect' = psect + CeilAlign(unit.formal[Len(pofst) + 1].size, Word)
    /\ UNCHANGED <<unit, pc, todo, maxarg, sect, vd, frame, start, place, runVars>>

InitFuncUnitDone ==
    /\ Pass("param", "evaluate") /\ Len(pofst) = Len(unit.formal)
    /\ todo' = {c \in unit.calls : c.early > 0}
    /\ UNCHANGED <<layoutVars, runVars>>

UpdateMaxCalleeArgSize(m, sz) == CeilAlign(IF sz > m THEN sz ELSE m, Word)

EvaluateCallArgSize(c) ==
    /\ pc = "evaluate" /\ c \in todo
    /\ todo' = todo \ {c}
    /\ maxarg' = UpdateMaxCalleeArgSize(maxarg, c.early)
    /\ UNCHANGED <<unit, pc, sect, vd, pofst, psect, frame, start, place, runVars>>

\* The end of computeMaxRealParamSpace: the stack section starts above the area.
ReserveParamSpace ==
    /\ Pass("evaluate", "convert") /\ todo = {}
    /\ sect' = sect + maxarg
    /\ todo' = unit.calls
    /\ UNCHANGED <<unit, maxarg, vd, pofst, psect, frame, start, place, runVars>>

\* Mutant: the section does not grow by whole words.
MutSectionUnaligned(v) ==
    /\ vd' = [w \in DOMAIN vd \cup {v} |-> IF w = v THEN sect ELSE vd[w]]
    /\ sect' = sect + ((unit.size[v] \div Word) * Word)

\* The first reference to a variable gives it its place.
Allocate(v) ==
    /\ vd' = [w \in DOMAIN vd \cup {v} |-> IF w = v THEN CeilAlign(sect, Word) ELSE vd[w]]
    /\ sect' = sect + CeilAlign(unit.size[v], Word)

ComputeStackVarLayout(v) ==
    /\ pc \in {"convert", "ra"} /\ v \in InMemory \ DOMAIN vd
    /\ Allocate(v)
    /\ UNCHANGED <<unit, pc, todo, maxarg, pofst, psect, frame, start, place, runVars>>

ConvertCall(c) ==
    /\ pc = "convert" /\ c \in todo
    /\ todo' = todo \ {c}
    /\ maxarg' = UpdateMaxCalleeArgSize(maxarg, c.sect)
    /\ UNCHANGED <<unit, pc, sect, vd, pofst, psect, frame, start, place, runVars>>

\* The return address of a function with a call and the spills of the register
\* allocator are laid out in this pass, by the same function.
PerformRA ==
    /\ Pass("convert", "ra") /\ todo = {}
    /\ UNCHANGED <<todo, layoutVars, runVars>>

\* ARMCG::skipArgRegister: a value of two words that is no struct starts at the
\* first register of a pair, and needs both.  r0 is register 1.
SkipArgRegister(p, r) == p.size = 2 * Word /\ ~p.mc /\ (r % 2 = 0 \/ r = NumArgReg)

\* One register of calcSizeOfParameterPassedViaRegister: s has the parameter under
\* way, the bytes of it passed and the bytes passed in all.
WalkRegister(formal, s, r) ==
    IF \/ s.param > Len(formal)
       \/ s.passed = 0 /\ SkipArgRegister(formal[s.param], r)
    THEN s
    ELSE LET whole == s.passed + Word = formal[s.param].size
         IN  [param  |-> IF whole THEN s.param + 1 ELSE s.param,
              passed |-> IF whole THEN 0 ELSE s.passed + Word,
              size   |-> s.size + Word]

\* calcSizeOfParameterPassedViaRegister
SizeViaRegister(formal) ==
    LET walk[r \in 0 .. NumArgReg] ==
          IF r = 0 THEN [param |-> 1, passed |-> 0, size |-> 0]
          ELSE WalkRegister(formal, walk[r - 1], r)
    IN  walk[NumArgReg].size

RegBytes == SizeViaRegister(unit.formal)

\* Mutant: the registers stored are not padded.
MutNoPadding == [start |-> CeilAlign(sect + maxarg, SpAlign),
                 frame |-> CeilAlign(sect + maxarg, SpAlign) + RegBytes]

ReviseSpadjust ==
    LET f == CeilAlign(sect + maxarg, SpAlign)
        pad == CeilAlign(RegBytes, SpAlign) - RegBytes
    IN  [start |-> f + pad, frame |-> f + pad + RegBytes]

ReviseFormalParameterAndSpadjust ==
    /\ Pass("ra", "relocate") /\ DOMAIN vd = InMemory
    /\ start' = ReviseSpadjust.start /\ frame' = ReviseSpadjust.frame
    /\ UNCHANGED <<unit, todo, maxarg, sect, vd, pofst, psect, place, runVars>>

\* Mutant: the argument area of the callees is forgotten.
MutOffsetInSection(v) == vd[v]

ComputeOffset(v) == maxarg + vd[v]

RelocateStackVar(v) ==
    /\ pc = "relocate" /\ v \in InMemory \ DOMAIN place
    /\ place' = [w \in DOMAIN place \cup {v} |-> IF w = v THEN ComputeOffset(v) ELSE place[w]]
    /\ UNCHANGED <<unit, pc, todo, maxarg, sect, vd, pofst, psect, frame, start, runVars>>

(***************************************************************************)
(* One execution.  insertCodeToUseFP copies SP to FP after the entry       *)
(* adjustment and back before the one at the exit.                         *)
(***************************************************************************)
Enter ==
    /\ Pass("relocate", "body") /\ DOMAIN place = InMemory
    /\ sp' = sp - frame
    /\ fp' = IF UseFP THEN sp' ELSE fp
    /\ UNCHANGED <<todo, layoutVars, block, out>>

\* The register alloca returns is SP itself.
Alloca(n) ==
    /\ pc = "body" /\ unit.alloca /\ block = {}
    /\ sp' = sp - n
    /\ block' = Range2(sp', n)
    /\ UNCHANGED <<pc, todo, layoutVars, fp, out>>

Call(c) ==
    /\ pc = "body"
    /\ out' = Range2(sp, c.stk)
    /\ UNCHANGED <<pc, todo, layoutVars, sp, fp, block>>

\* Mutant: SP is not reloaded.
MutNoReload == sp + frame

SPAtExit == (IF UseFP THEN fp ELSE sp) + frame

Leave ==
    /\ Pass("body", "returned")
    /\ sp' = SPAtExit
    /\ UNCHANGED <<todo, layoutVars, fp, block, out>>

Init ==
    /\ unit \in Units
    /\ pc = "param" /\ todo = {} /\ maxarg = 0 /\ sect = 0
    /\ vd = <<>> /\ pofst = <<>> /\ psect = 0 /\ frame = 0 /\ start = 0 /\ place = <<>>
    /\ sp = 0 /\ fp = 0 /\ block = {} /\ out = {}

Next ==
    \/ ComputeParamLayout \/ InitFuncUnitDone
    \/ \E c \in unit.calls : EvaluateCallArgSize(c) \/ ConvertCall(c) \/ Call(c)
    \/ ReserveParamSpace \/ PerformRA
    \/ \E v \in InMemory : ComputeStackVarLayout(v) \/ RelocateStackVar(v)
    \/ ReviseFormalParameterAndSpadjust
    \/ Enter \/ (\E n \in AllocaSizes : Alloca(n)) \/ Leave

Spec == Init /\ [][Next]_vars

-----------------------------------------------------------------------------
BaseReg == IF UseFP THEN fp ELSE sp
BytesOf(v) == Range2(place[v], unit.size[v])
LaidOut == pc \in {"body", "returned"}

\* No two variables share a byte, although the order of the first references
\* decides where they are.
VariablesDisjoint ==
    \A v, w \in DOMAIN vd : v # w =>
        vd[v] + unit.size[v] <= vd[w] \/ vd[w] + unit.size[w] <= vd[v]

\* Variables lie between the outgoing arguments and the stored register
\* parameters, wherever the area of the arguments grew in the meantime.
VariablesInFrame ==
    LaidOut => \A v \in InMemory :
        /\ \A c \in unit.calls : c.stk <= place[v]
        /\ place[v] + unit.size[v] <= start

\* The frame keeps SP aligned, and the parameters passed on the stack follow
\* the stored registers without a gap.
FrameAligned ==
    LaidOut => frame % SpAlign = 0 /\ start + RegBytes = frame

\* The function returns with the SP it was called with.
SPRestored == pc = "returned" => sp = 0

\* While the body runs a variable stays where it is, and neither what alloca
\* returned nor the arguments of a call reach it.
VariablesReachable ==
    pc = "body" => \A v \in InMemory :
        /\ BaseReg + place[v] = place[v] - frame
        /\ {BaseReg + b : b \in BytesOf(v)} \cap (block \cup out) = {}

\* The arguments of a call are not stored into what alloca returned.
AllocaKept == block \cap out = {}
=============================================================================
