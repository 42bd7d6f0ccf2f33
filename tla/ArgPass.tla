------------------------------ MODULE ArgPass ------------------------------
(***************************************************************************)
(* One call: the caller places the arguments in r0 to r3 and on top of its *)
(* stack (CG::passArg and ArgDescMgr), the callee lays its formal          *)
(* parameters out and stores the argument registers below the incoming     *)
(* stack arguments (CG::computeParamLayout, CG::storeRegSetToStack).  The  *)
(* two sides never see each other's decision: they have to agree.          *)
(*                                                                         *)
(* A byte of an argument is a pair <<argument, byte>>.  Argument registers *)
(* are numbered as in the code, where r0 is 1: an "even" register of a     *)
(* pair has an odd number.                                                 *)
(***************************************************************************)
EXTENDS Integers, Sequences

CONSTANTS
    Signatures,     \* sequences of parameters [size |-> bytes, mc |-> is a struct]
    NumArgReg,      \* number of argument registers, a whole number of pairs
    UIntSpan        \* 2 ^ 32 in the code: sizes are unsigned

ASSUME ArgAssumption ==
    /\ NumArgReg \in Nat \ {0} /\ NumArgReg % 2 = 0
    /\ UIntSpan \in Nat /\ UIntSpan % 16 = 0
    /\ Signatures \subseteq Seq([size : 1 .. UIntSpan - 1, mc : BOOLEAN])

VARIABLES
    sig,        \* the signature of the callee
    pc,         \* "caller", "layout", "store" or "done"
    next,       \* index of the argument or parameter under way
    free,       \* first argument register still free: m_argregs is free..NumArgReg
    regsz,      \* m_passed_arg_in_register_byte_size
    stksz,      \* m_passed_arg_in_stack_byte_size
    reg,        \* register -> byte of the argument its word starts with
    stk,        \* offset from the caller's SP -> byte stored there
    ofst,       \* parameter -> offset in the parameter section
    sectsz,     \* size of the parameter section
    phy,        \* argument register the callee looks at
    stored,     \* bytes of the current parameter already stored
    home        \* the callee's stored registers, by word of the section

vars == <<sig, pc, next, free, regsz, stksz, reg, stk, ofst, sectsz, phy, stored, home>>
callerVars == <<free, regsz, stksz, reg, stk>>
calleeVars == <<ofst, sectsz, phy, stored, home>>

Word == 4           \* GENERAL_REGISTER_SIZE and STACK_ALIGNMENT
Pair == 2 * Word    \* CONTINUOUS_REG_NUM * GENERAL_REGISTER_SIZE
Nobody == <<0, 0>>

CeilAlign(n, a) == ((n + a - 1) \div a) * a
Least(a, b) == IF a < b THEN a ELSE b
IsEvenReg(r) == r % 2 = 1
ComputeArgAlign(sz) == IF sz >= Pair THEN Pair ELSE Word

(***************************************************************************)
(* The caller.                                                             *)
(***************************************************************************)
Avail(f) == NumArgReg + 1 - f

\* Mutant: pairs start anywhere.
MutNoPairRule(sz) == free

\* A value of two words starts at an even register and needs two of them: the
\* first register is dropped otherwise, only one.
SkipArgRegister(sz) ==
    IF sz = Pair /\ Avail(free) > 0 /\ (~IsEvenReg(free) \/ Avail(free) < 2)
    THEN free + 1 ELSE free

\* Words 0 .. k-1 of argument i go to k registers from register f on.
InRegisters(i, f, k) ==
    /\ reg' = [r \in DOMAIN reg |->
                 IF r \in f .. f + k - 1 THEN <<i, (r - f) * Word>> ELSE reg[r]]
    /\ free' = f + k
    /\ regsz' = regsz + k * Word

\* n bytes of argument i, from byte src on, at offset tgt of the stack top.
OnStack(i, src, n, tgt) ==
    stk' = [o \in DOMAIN stk \cup tgt .. tgt + n - 1 |->
              IF o \in tgt .. tgt + n - 1 THEN <<i, src + o - tgt>> ELSE stk[o]]

\* addDesc followed by storeArgToStack: the padding before the argument is not
\* counted.
AddDesc(i, src, n, align, counted) ==
    /\ OnStack(i, src, n, CeilAlign(stksz, align))
    /\ stksz' = stksz + CeilAlign(counted, Word)

\* buildGeneralLoad: a value of at most two words is loaded into registers,
\* whether it is a struct or not; a larger one is given by its address.
ByAddress(p) == p.mc /\ p.size > Pair

\* passArgInRegister: a value, word by word.
PassArgInRegister(i) ==
    LET f == SkipArgRegister(sig[i].size)
        words == CeilAlign(sig[i].size, Word) \div Word
        k == Least(words, Avail(f))
    IN  /\ InRegisters(i, f, k)
        /\ IF k < words
           THEN AddDesc(i, k * Word, (words - k) * Word, Word, (words - k) * Word)
           ELSE UNCHANGED <<stk, stksz>>

\* Mutant: the copy of the rest starts at the end of the struct.
MutSourceAtEnd(i) ==
    LET sz == sig[i].size
        k == Least(sz \div Word, Avail(free))
    IN  /\ InRegisters(i, free, k)
        /\ IF k * Word < sz THEN AddDesc(i, sz, sz - k * Word, Word, sz - k * Word)
           ELSE UNCHANGED <<stk, stksz>>

\* passArgInMemory: a large struct, loaded word by word.  The size left is unsigned
\* and loses a whole word at a time; the descriptor keeps 30 of its 32 bits.
PassArgInMemory(i) ==
    LET sz == sig[i].size
        k == IF sz % Word = 0 THEN Least(sz \div Word, Avail(free)) ELSE Avail(free)
        left == (sz - k * Word) % UIntSpan
    IN  /\ InRegisters(i, free, k)
        /\ IF left > 0
           THEN AddDesc(i, (sz - left) % UIntSpan, left % (UIntSpan \div 4), Word, left)
           ELSE UNCHANGED <<stk, stksz>>

\* The rest of passArg: no register is left.
PassArgOnStack(i) ==
    /\ AddDesc(i, 0, sig[i].size, ComputeArgAlign(sig[i].size), sig[i].size)
    /\ UNCHANGED <<reg, free, regsz>>

PassArg ==
    /\ pc = "caller" /\ next <= Len(sig)
    /\ \/ Avail(free) > 0 /\ ByAddress(sig[next]) /\ PassArgInMemory(next)
       \/ Avail(free) > 0 /\ ~ByAddress(sig[next]) /\ PassArgInRegister(next)
       \/ Avail(free) = 0 /\ PassArgOnStack(next)
    /\ next' = next + 1
    /\ UNCHANGED <<sig, pc, ofst, sectsz, phy, stored, home>>

ProcessRealParams ==
    /\ pc = "caller" /\ next = Len(sig) + 1
    /\ pc' = "layout" /\ next' = 1
    /\ UNCHANGED <<sig, callerVars, calleeVars>>

\* What the caller's frame reserves for the arguments of its calls.
ParameterStackSize(s) ==
    LET size[n \in 0 .. Len(s)] ==
          IF n = 0 THEN 0 ELSE CeilAlign(size[n - 1], Word) + s[n].size
    IN  size[Len(s)]

\* Mutant: the minimum is kept.
MutMinimum(sz, max) == CeilAlign(Least(sz, max), Word)

UpdateMaxCalleeArgSize(sz, max) ==
    LET m == IF sz > max THEN sz ELSE max IN CeilAlign(m, Word)

ArgSectionSize == CeilAlign(regsz + stksz, Word)
MaxRealArgSize ==
    UpdateMaxCalleeArgSize(ArgSectionSize,
        UpdateMaxCalleeArgSize(ParameterStackSize(sig), 0))

(***************************************************************************)
(* The callee.                                                             *)
(***************************************************************************)
\* initFuncUnit: the parameters in order, each rounded up to a word.
ComputeParamLayout ==
    /\ pc = "layout" /\ next <= Len(sig)
    /\ ofst' = [ofst EXCEPT ![next] = sectsz]
    /\ sectsz' = sectsz + CeilAlign(sig[next].size, Word)
    /\ next' = next + 1
    /\ UNCHANGED <<sig, pc, callerVars, phy, stored, home>>

ReviseFormalParameter ==
    /\ pc = "layout" /\ next = Len(sig) + 1
    /\ pc' = "store" /\ next' = 1
    /\ UNCHANGED <<sig, callerVars, calleeVars>>

\* ARMCG::skipArgRegister: a struct never skips a register here.
SkipHomeRegister(p, r) ==
    p.size = Pair /\ ~p.mc /\ (~IsEvenReg(r) \/ r = NumArgReg)

StoreMore == phy <= NumArgReg /\ next <= Len(sig)

\* One register of storeRegSetToStack (and of
\* calcSizeOfParameterPassedViaRegister, the same loop without the stores).
StoreReg ==
    /\ pc = "store" /\ StoreMore
    /\ phy' = phy + 1
    /\ IF stored = 0 /\ SkipHomeRegister(sig[next], phy)
       THEN UNCHANGED <<home, stored, next>>
       ELSE /\ home' = Append(home, phy)
            /\ IF stored + Word = sig[next].size
               THEN next' = next + 1 /\ stored' = 0
               ELSE next' = next /\ stored' = stored + Word
    /\ UNCHANGED <<sig, pc, callerVars, ofst, sectsz>>

StoreDone ==
    /\ pc = "store" /\ ~StoreMore
    /\ pc' = "done"
    /\ UNCHANGED <<sig, next, callerVars, calleeVars>>

Init ==
    /\ sig \in Signatures
    /\ pc = "caller" /\ next = 1 /\ free = 1 /\ regsz = 0 /\ stksz = 0
    /\ reg = [r \in 1 .. NumArgReg |-> Nobody]
    /\ stk = <<>>
    /\ ofst = [i \in DOMAIN sig |-> 0] /\ sectsz = 0
    /\ phy = 1 /\ stored = 0 /\ home = <<>>

Next == \/ PassArg \/ ProcessRealParams
        \/ ComputeParamLayout \/ ReviseFormalParameter \/ StoreReg \/ StoreDone

Spec == Init /\ [][Next]_vars

-----------------------------------------------------------------------------
\* The byte the callee finds at offset o of its parameter section: the stored
\* registers first, the incoming stack arguments above them.
ParamByte(o) ==
    LET n == Len(home) * Word IN
    IF o < n THEN LET w == reg[home[o \div Word + 1]] IN <<w[1], w[2] + (o % Word)>>
    ELSE IF o - n \in DOMAIN stk THEN stk[o - n] ELSE Nobody

\* Every byte of every argument is where the callee looks for it: its places
\* for the parameters are the caller's places for the arguments.
EveryByteArrives ==
    pc = "done" => \A i \in DOMAIN sig : \A b \in 0 .. sig[i].size - 1 :
                     ParamByte(ofst[i] + b) = <<i, b>>

\* The stack top the caller's frame reserves for arguments covers every byte
\* stored there; a byte beyond it would be a local variable.
ArgAreaReserved ==
    pc # "caller" => \A o \in DOMAIN stk : o < MaxRealArgSize

\* What is on the stack are bytes of the arguments (padding of the last word
\* included), never bytes behind a struct.
StackHoldsArgBytes ==
    \A o \in DOMAIN stk : LET i == stk[o][1] IN
        stk[o][2] < CeilAlign(sig[i].size, Word)

=============================================================================
