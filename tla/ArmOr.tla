------------------------------- MODULE ArmOr -------------------------------
(***************************************************************************)
(* What the ORs the code generator emits do on the machine: registers,     *)
(* flags and a memory of bytes.  A word is four bytes, as on ARM; a byte   *)
(* has ByteBits bits (8 on ARM), so that TLC can run the code on every     *)
(* combination of interesting words.                                       *)
(*                                                                         *)
(* An OR is [op, p, d, s, i]: code, predicate, result registers, operand   *)
(* registers, immediate.  The operands of a store are the words stored,    *)
(* then the base; movt_i reads the register it writes, which its           *)
(* description does not say.                                               *)
(***************************************************************************)
EXTENDS Integers, Sequences, Bitwise

CONSTANTS
    ByteBits,   \* bits of a byte
    Range12,    \* the immediates of 12 bits: magnitudes below Range12
    Range8,     \* the immediates of 8 bits
    MemSize     \* bytes of memory

ASSUME MachineAssumption ==
    ByteBits \in Nat \ {0} /\ {Range12, Range8, MemSize} \subseteq Nat

VARIABLES
    code,   \* the ORs of the basic block, or of the code package emitted
    at,     \* index of the OR that runs next
    regs,   \* register -> word
    nzcv,   \* the flags, a record of bits
    mem     \* address -> byte

machine == <<code, at, regs, nzcv, mem>>

Bits == 4 * ByteBits    \* of a word
Half == 2 ^ (2 * ByteBits)
Word == 2 ^ Bits
Junk == Word \div 3     \* what a register nothing wrote holds

RegNames == {"sp", "r0", "r1", "r2", "r3", "r12", "a0", "a1", "b0", "b1", "c0",
             "c1", "x0", "x1", "d0", "d1", "t1", "t2", "t3", "t4", "t5", "t6"}

OR(op, d, s, i) == [op |-> op, p |-> "al", d |-> d, s |-> s, i |-> i]

\* ORList::set_pred
If(p, ors) == [k \in DOMAIN ors |-> [ors[k] EXCEPT !.p = p]]

Bit(b) == IF b THEN 1 ELSE 0
Signed(n, bits) == IF n >= 2 ^ (bits - 1) THEN n - 2 ^ bits ELSE n
Negative(w) == Bit(w >= Word \div 2)

\* x + y + c as the ALU computes it; x - y is x + ~y + 1.
Sum(x, y, c) ==
    LET n == x + y + c
        w == n % Word
    IN  [w |-> w, c |-> Bit(n >= Word),
         v |-> Bit(Signed(x, Bits) + Signed(y, Bits) + c # Signed(w, Bits))]
Diff(x, y, c) == Sum(x, Word - 1 - y, c)

Lsl(x, n) == IF n >= Bits THEN 0 ELSE (x * 2 ^ n) % Word
Lsr(x, n) == IF n >= Bits THEN 0 ELSE x \div 2 ^ n
Asr(x, n) == (Signed(x, Bits) \div 2 ^ (IF n >= Bits THEN Bits ELSE n)) % Word

\* The shifts an OR applies to its last operand.
AsrCarry(x, n) == IF n >= Bits THEN Negative(x) ELSE (x \div 2 ^ (n - 1)) % 2

Plain(w) == [w |-> w % Word, c |-> nzcv.c, v |-> nzcv.v]

\* The result of an arithmetic OR on the words x and y and the immediate i.
Alu(op, x, y, i) ==
    CASE op \in {"mov", "mov_i", "mov32_i"} -> Plain(IF op = "mov" THEN x ELSE i)
      [] op = "movw_i" -> Plain(i)
      [] op = "movt_i" -> Plain((x % Half) + Half * i)
      [] op \in {"add", "adds"} -> Sum(x, y, 0)
      [] op = "add_i"  -> Sum(x, i % Word, 0)
      [] op = "adc"    -> Sum(x, y, nzcv.c)
      [] op \in {"sub", "subs", "cmp"} -> Diff(x, y, 1)
      [] op \in {"sub_i", "cmp_i"} -> Diff(x, i % Word, 1)
      [] op \in {"sbc", "sbcs"} -> Diff(x, y, nzcv.c)
      [] op = "rsb_i"  -> Diff(i % Word, x, 1)
      [] op = "neg"    -> Diff(0, x, 1)
      [] op = "mul"    -> Plain(x * y)
      [] op = "and"    -> Plain(x & y)
      [] op \in {"orr", "orrs"} -> Plain(x | y)
      [] op = "eor"    -> Plain(x ^^ y)
      [] op \in {"eor_i", "teq_i"} -> Plain(x ^^ i)
      [] op = "lsl"    -> Plain(Lsl(x, y))
      [] op = "lsr"    -> Plain(Lsr(x, y))
      [] op = "asr"    -> Plain(Asr(x, y))
      [] op \in {"lsl_i", "lsl_i32"} -> Plain(Lsl(x, i))
      [] op \in {"lsr_i", "lsr_i32"} -> Plain(Lsr(x, i))
      [] op \in {"asr_i", "asr_i32"} -> Plain(Asr(x, i))
      [] op = "orr_lsl_i" -> Plain(x | Lsl(y, i))
      [] op = "orr_lsr_i" -> Plain(x | Lsr(y, i))
      [] op = "ands_asr_i" -> [Plain(x & Asr(y, i)) EXCEPT !.c = AsrCarry(y, i)]

SetsFlags == {"adds", "subs", "sbcs", "orrs", "ands_asr_i", "cmp", "cmp_i", "teq_i"}

LoadSize == [ldr |-> 4, ldrb |-> 1, ldrsb |-> 1, ldrh |-> 2, ldrsh |-> 2, ldrd |-> 8,
             ldr_i12 |-> 4, ldrb_i12 |-> 1, ldrsb_i8 |-> 1, ldrh_i8 |-> 2,
             ldrsh_i8 |-> 2, ldrd_i8 |-> 8]
SignedLoads == {"ldrsb", "ldrsh", "ldrsb_i8", "ldrsh_i8"}
StoreSize == [str |-> 4, strb |-> 1, strh |-> 2, strd |-> 8, str_i12 |-> 4,
              strb_i12 |-> 1, strh_i8 |-> 2, strd_i8 |-> 8]
Branches == {"b", "bl", "ret", "label"}

Holds(p) ==
    CASE p = "al" -> TRUE
      [] p = "eq" -> nzcv.z = 1
      [] p = "ne" -> nzcv.z = 0
      [] p = "lt" -> nzcv.n # nzcv.v
      [] p = "ge" -> nzcv.n = nzcv.v
      [] p = "gt" -> nzcv.z = 0 /\ nzcv.n = nzcv.v
      [] p = "le" -> nzcv.z = 1 \/ nzcv.n # nzcv.v
      [] p \in {"lo", "cc"} -> nzcv.c = 0
      [] p = "hs" -> nzcv.c = 1
      [] p = "hi" -> nzcv.c = 1 /\ nzcv.z = 0
      [] p = "ls" -> nzcv.c = 0 \/ nzcv.z = 1

\* The n bytes from address a on, the lowest first.
Value(m, a, n) ==
    LET v[k \in 0 .. n] == IF k = 0 THEN 0 ELSE v[k-1] + m[a+k-1] * 2 ^ (ByteBits * (k-1))
    IN  v[n]
ByteOf(w, k) == (w \div 2 ^ (ByteBits * k)) % 2 ^ ByteBits
Poke(m, a, n, w) ==
    [x \in DOMAIN m |-> IF x \in a .. a + n - 1 THEN ByteOf(w, x - a) ELSE m[x]]

SetRegs(d, w) == [r \in DOMAIN regs |->
                    IF \E k \in DOMAIN d : d[k] = r
                    THEN w[CHOOSE k \in DOMAIN d : d[k] = r] ELSE regs[r]]

Cur == code[at]
Base == regs[Cur.s[Len(Cur.s)]] + Cur.i
Running == at \in DOMAIN code

\* The predicate does not hold.
Skip ==
    /\ Running /\ ~Holds(Cur.p)
    /\ at' = at + 1
    /\ UNCHANGED <<code, regs, nzcv, mem>>

RunLoad ==
    /\ Running /\ Holds(Cur.p) /\ Cur.op \in DOMAIN LoadSize
    /\ LET n == LoadSize[Cur.op]
           w == Value(mem, Base, IF n = 8 THEN 4 ELSE n)
       IN  regs' = SetRegs(Cur.d,
                     IF n = 8 THEN <<w, Value(mem, Base + 4, 4)>>
                     ELSE IF Cur.op \in SignedLoads
                     THEN <<Signed(w, n * ByteBits) % Word>> ELSE <<w>>)
    /\ at' = at + 1
    /\ UNCHANGED <<code, nzcv, mem>>

RunStore ==
    /\ Running /\ Holds(Cur.p) /\ Cur.op \in DOMAIN StoreSize
    /\ mem' = IF StoreSize[Cur.op] = 8
              THEN Poke(Poke(mem, Base, 4, regs[Cur.s[1]]), Base + 4, 4, regs[Cur.s[2]])
              ELSE Poke(mem, Base, StoreSize[Cur.op], regs[Cur.s[1]])
    /\ at' = at + 1
    /\ UNCHANGED <<code, regs, nzcv>>

RunAlu ==
    /\ Running /\ Holds(Cur.p)
    /\ Cur.op \notin DOMAIN LoadSize \cup DOMAIN StoreSize \cup Branches
    /\ LET x == IF Cur.op = "movt_i" THEN regs[Cur.d[1]]
                ELSE IF Len(Cur.s) > 0 THEN regs[Cur.s[1]] ELSE 0
           y == IF Len(Cur.s) > 1 THEN regs[Cur.s[2]] ELSE 0
           r == Alu(Cur.op, x, y, Cur.i)
       IN  /\ regs' = IF Len(Cur.d) > 0 THEN SetRegs(Cur.d, <<r.w>>) ELSE regs
           /\ nzcv' = IF Cur.op \in SetsFlags
                      THEN [n |-> Negative(r.w), z |-> Bit(r.w = 0), c |-> r.c, v |-> r.v]
                      ELSE nzcv
    /\ at' = at + 1
    /\ UNCHANGED <<code, mem>>

\* A label does nothing; a branch goes to the label with its number, out of
\* the code if there is none.
RunBranch ==
    /\ Running /\ Holds(Cur.p) /\ Cur.op \in {"b", "label"}
    /\ at' = IF Cur.op = "label" THEN at + 1
             ELSE LET tgt == {k \in DOMAIN code : code[k].op = "label" /\ code[k].i = Cur.i}
                  IN  IF tgt = {} THEN Len(code) + 2 ELSE CHOOSE k \in tgt : TRUE
    /\ UNCHANGED <<code, regs, nzcv, mem>>
=============================================================================
