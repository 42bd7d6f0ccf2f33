--------------------------- MODULE ArgPassProofs ---------------------------
(***************************************************************************)
(* What is proved about ArgPass, for every set of signatures and every     *)
(* even number of argument registers:                                      *)
(*   - the stack arguments of a call lie in what its frame reserves;       *)
(*   - no byte behind an argument is copied, if structs are whole words;   *)
(*   - the callee finds every byte of arguments of whole words, if none is *)
(*     padded on the stack and no register is skipped for a struct.        *)
(* The three ways an argument is passed have one shape (Shaped), the       *)
(* lemmas of the first part.  The last result needs a trail that caller    *)
(* and callee share (Trail): the word every register starts with.          *)
(***************************************************************************)
EXTENDS ArgPass, TLAPS, WellFoundedInduction

\* A parameter of a signature.
Param == [size : 1 .. UIntSpan - 1, mc : BOOLEAN]

\* A nonempty set of numbers has a least one: induction without a predicate.
LEMMA LeastNatural ==
    ASSUME NEW S \in SUBSET Nat, S # {} PROVE \E i \in S : \A j \in S : i <= j
<1>1. PICK i \in S : \A j \in S : ~(<<j, i>> \in OpToRel(<, Nat))
  BY NatLessThanWellFounded, WFMin
<1>2. \A j \in S : ~(j < i)
  BY <1>1 DEF OpToRel
<1> QED
  BY <1>2

\* Rounding up to a word.
LEMMA CeilWord ==
    ASSUME NEW n \in Nat
    PROVE  /\ CeilAlign(n, Word) \in Nat /\ CeilAlign(n, Word) % Word = 0
           /\ n <= CeilAlign(n, Word) /\ CeilAlign(n, Word) < n + Word
           /\ n % Word = 0 => CeilAlign(n, Word) = n
           /\ n > 0 => CeilAlign(n, Word) >= Word
BY DEF CeilAlign, Word

\* Rounding a number of words up to a pair of words.
LEMMA CeilPair ==
    ASSUME NEW n \in Nat, n % Word = 0
    PROVE  CeilAlign(n, Pair) = n \/ CeilAlign(n, Pair) = n + Word
BY DEF CeilAlign, Word, Pair

\* The remainder of a division, here by the span of an unsigned.
LEMMA Remainder ==
    ASSUME NEW n \in Int, NEW m \in Nat \ {0}
    PROVE  n % m \in 0 .. m - 1
OBVIOUS

\* A remainder is no more than the number, and the number if that is small.
LEMMA RemainderSmall ==
    ASSUME NEW n \in Nat, NEW m \in Nat \ {0}
    PROVE  n % m <= n /\ (n < m => n % m = n)
OBVIOUS

-----------------------------------------------------------------------------
TypeOKArg ==
    /\ sig \in Signatures
    /\ pc \in {"caller", "layout", "store", "done"}
    /\ next \in 1 .. Len(sig) + 1
    /\ free \in 1 .. NumArgReg + 1
    /\ regsz \in Nat /\ stksz \in Nat /\ stksz % Word = 0
    /\ reg \in [1 .. NumArgReg -> Int \X Int]
    /\ \A o \in DOMAIN stk : o \in Nat

\* The first argument takes a register, so that whatever is on the stack has a
\* word in the argument section that is not: room for the padding.
Reserved ==
    /\ \A o \in DOMAIN stk : o < stksz + Word
    /\ pc = "caller" /\ next = 1 => free = 1 /\ DOMAIN stk = {}
    /\ pc = "caller" /\ next > 1 => regsz >= Word
    /\ pc # "caller" => DOMAIN stk = {} \/ regsz >= Word

\* What one argument does: registers f .. f + k - 1, then the bytes src ..
\* src + n - 1 of it at tgt on the stack, and c more bytes there.
Passed(f, k, src, n, tgt, c) ==
    /\ free' = f + k /\ regsz' = regsz + k * Word /\ stksz' = stksz + c
    /\ reg' = [r \in DOMAIN reg |->
                 IF r \in f .. f + k - 1 THEN <<next, (r - f) * Word>> ELSE reg[r]]
    /\ DOMAIN stk' = DOMAIN stk \cup tgt .. tgt + n - 1
    /\ \A o \in DOMAIN stk' :
         stk'[o] = IF o \in tgt .. tgt + n - 1 THEN <<next, src + o - tgt>> ELSE stk[o]

\* The argument starts at the register the rule for pairs gives and never goes
\* beyond the last one; what is left of it is on the stack, at its top while
\* registers are free.
Fits(f, k, src, n, tgt, c) ==
    /\ f = SkipArgRegister(sig[next].size)
    /\ k \in Nat /\ f + k <= NumArgReg + 1
    /\ src \in Nat /\ n \in Nat /\ tgt \in {stksz, stksz + Word}
    /\ c \in Nat /\ c % Word = 0 /\ n <= c
    /\ free = 1 => k > 0
    /\ tgt = IF free <= NumArgReg THEN stksz
             ELSE CeilAlign(stksz, ComputeArgAlign(sig[next].size))

\* Nothing behind the argument is copied, unless it is a struct whose size is not
\* a number of words.
Within(src, n) ==
    (sig[next].mc => sig[next].size % Word = 0)
        => src + n <= CeilAlign(sig[next].size, Word)

\* An argument of whole words is cut in two at the last register; the descriptor
\* holds the size of what is left if it is below 2 ^ 30.
Exact(f, k, src, n, c) ==
    sig[next].size % Word = 0
        => /\ k * Word <= sig[next].size /\ src = k * Word
           /\ k * Word = sig[next].size \/ f + k = NumArgReg + 1
           /\ c = sig[next].size - k * Word
           /\ sig[next].size < UIntSpan \div 4 => n = c

Shaped(f, k, src, n, tgt, c) ==
    /\ Passed(f, k, src, n, tgt, c) /\ Fits(f, k, src, n, tgt, c)
    /\ Within(src, n) /\ Exact(f, k, src, n, c)

\* What the assumption on signatures says of the argument under way.
LEMMA OneParam ==
    ASSUME TypeOKArg, next <= Len(sig)
    PROVE  /\ sig[next] \in Param /\ sig[next].size \in Nat \ {0}
           /\ sig[next].size < UIntSpan /\ UIntSpan \in Nat \ {0}
           /\ UIntSpan \div 4 \in Nat \ {0} /\ sig[next].mc \in BOOLEAN
<1>1. sig \in Seq(Param)
  BY ArgAssumption DEF ArgAssumption, TypeOKArg, Param
<1> HIDE DEF Param
<1>2. sig[next] \in Param
  BY <1>1 DEF TypeOKArg
<1>3. sig[next].size \in 1 .. UIntSpan - 1 /\ sig[next].mc \in BOOLEAN
  BY <1>2 DEF Param
<1>4. UIntSpan \in Nat /\ UIntSpan % 16 = 0 /\ UIntSpan > 1
  BY <1>3, ArgAssumption DEF ArgAssumption
<1>5. UIntSpan \div 4 \in Nat \ {0}
  BY <1>4
<1> QED
  BY <1>2, <1>3, <1>4, <1>5

\* An argument that fits in its registers has no byte on the stack.
LEMMA StackUnchanged ==
    ASSUME TypeOKArg, stk' = stk, stksz' = stksz, NEW f, NEW k, NEW src,
           free' = f + k, regsz' = regsz + k * Word,
           reg' = [r \in DOMAIN reg |->
                     IF r \in f .. f + k - 1 THEN <<next, (r - f) * Word>> ELSE reg[r]]
    PROVE  Passed(f, k, src, 0, stksz, 0)
<1>1. stksz .. stksz + 0 - 1 = {} /\ stksz' = stksz + 0
  BY DEF TypeOKArg
<1> QED
  BY <1>1 DEF Passed

\* ArgDescMgr::passArgInRegister.
LEMMA InRegisterShape ==
    ASSUME TypeOKArg, next <= Len(sig), Avail(free) > 0, ~ByAddress(sig[next]),
           PassArgInRegister(next)
    PROVE  \E f, k, src, n, tgt, c : Shaped(f, k, src, n, tgt, c)
<1> DEFINE size == sig[next].size
           ceil == CeilAlign(size, Word)
           f == SkipArgRegister(size)
           words == ceil \div Word
           k == Least(words, Avail(f))
           m == (words - k) * Word
<1>1. size \in Nat \ {0} /\ NumArgReg \in Nat /\ NumArgReg % 2 = 0
  BY OneParam, ArgAssumption DEF ArgAssumption
<1>2. free \in 1 .. NumArgReg /\ stksz \in Nat /\ stksz % Word = 0 /\ regsz \in Nat
  BY <1>1 DEF TypeOKArg, Avail
<1>3. f \in {free, free + 1} /\ (free = 1 => f = 1)
  BY <1>1, <1>2, ArgAssumption DEF SkipArgRegister, Avail, IsEvenReg, ArgAssumption
<1>4. /\ words \in Nat \ {0} /\ words * Word = ceil /\ ceil \in Nat
      /\ size % Word = 0 => ceil = size
  <2>1. /\ ceil \in Nat /\ ceil >= Word /\ ceil % Word = 0
        /\ size % Word = 0 => ceil = size
    BY <1>1, CeilWord
  <2> HIDE DEF ceil
  <2> QED
    BY <2>1 DEF Word
<1>6. /\ k \in Nat /\ f + k <= NumArgReg + 1 /\ k <= words /\ (free = 1 => k > 0)
      /\ k = words \/ f + k = NumArgReg + 1
  <2> HIDE DEF words, f
  <2> QED
    BY <1>1, <1>2, <1>3, <1>4 DEF Least, Avail
<1>7. m \in Nat /\ m % Word = 0 /\ k * Word + m = ceil
  <2> HIDE DEF words, k, ceil
  <2> QED
    BY <1>4, <1>6 DEF Word
<1>8. CeilAlign(stksz, Word) = stksz /\ CeilAlign(m, Word) = m
  BY <1>2, <1>7, CeilWord
<1>9. /\ free' = f + k /\ regsz' = regsz + k * Word
      /\ reg' = [r \in DOMAIN reg |->
                   IF r \in f .. f + k - 1 THEN <<next, (r - f) * Word>> ELSE reg[r]]
  BY DEF PassArgInRegister, InRegisters
<1>10. Passed(f, k, k * Word, m, stksz, m)
  <2>1. CASE k < words
    <3>1. OnStack(next, k * Word, m, stksz) /\ stksz' = stksz + m
      BY <1>8, <2>1 DEF PassArgInRegister, AddDesc
    <3> HIDE DEF f, k, m
    <3> QED
      BY <1>9, <3>1 DEF Passed, OnStack
  <2>2. CASE ~(k < words)
    <3>1. stk' = stk /\ stksz' = stksz
      BY <2>2 DEF PassArgInRegister
    <3>2. m = 0
      <4> HIDE DEF words, k
      <4> QED
        BY <1>4, <1>6, <2>2 DEF Word
    <3> HIDE DEF f, k, m
    <3> QED
      BY <1>9, <3>1, <3>2, StackUnchanged
  <2> QED
    BY <2>1, <2>2
<1>11. Fits(f, k, k * Word, m, stksz, m)
  <2>1. f = SkipArgRegister(sig[next].size)
    OBVIOUS
  <2> HIDE DEF f, k, m
  <2> QED
    BY <1>1, <1>2, <1>3, <1>6, <1>7, <2>1 DEF Fits, Word
<1>12. Within(k * Word, m)
  <2> HIDE DEF f, k, m
  <2> QED
    BY <1>4, <1>7 DEF Within
<1>13. Exact(f, k, k * Word, m, m)
  <2> HIDE DEF f, k, m, words, ceil
  <2>1. SUFFICES ASSUME size % Word = 0
                 PROVE  /\ k * Word <= size
                        /\ k * Word = size \/ f + k = NumArgReg + 1
                        /\ m = size - k * Word
    BY DEF Exact
  <2>2. k * Word + m = size /\ words * Word = size
    BY <1>4, <1>7, <2>1
  <2> QED
    BY <1>1, <1>6, <1>7, <2>2 DEF Word
<1> QED
  BY <1>10, <1>11, <1>12, <1>13 DEF Shaped

\* ArgDescMgr::passArgInMemory.
LEMMA InMemoryShape ==
    ASSUME TypeOKArg, next <= Len(sig), Avail(free) > 0, ByAddress(sig[next]),
           PassArgInMemory(next)
    PROVE  \E f, k, src, n, tgt, c : Shaped(f, k, src, n, tgt, c)
<1> DEFINE size == sig[next].size
           k == IF size % Word = 0 THEN Least(size \div Word, Avail(free)) ELSE Avail(free)
           left == (size - k * Word) % UIntSpan
           from == (size - left) % UIntSpan
           copied == left % (UIntSpan \div 4)
           counted == CeilAlign(left, Word)
<1>1. /\ size \in Nat \ {0} /\ size < UIntSpan /\ NumArgReg \in Nat
      /\ UIntSpan \in Nat \ {0} /\ UIntSpan \div 4 \in Nat \ {0}
  BY OneParam, ArgAssumption DEF ArgAssumption
<1>2. free \in 1 .. NumArgReg /\ stksz \in Nat /\ stksz % Word = 0 /\ regsz \in Nat
  BY <1>1 DEF TypeOKArg, Avail
<1>3. free = SkipArgRegister(size)
  BY <1>1 DEF SkipArgRegister, ByAddress, Pair, Word
<1>4. /\ k \in Nat /\ free + k <= NumArgReg + 1 /\ k > 0
      /\ size % Word = 0 => /\ k * Word <= size /\ (size - k * Word) % Word = 0
                            /\ k * Word = size \/ free + k = NumArgReg + 1
  <2>0. free \in 1 .. NumArgReg /\ NumArgReg \in Nat
    BY <1>1, <1>2
  <2>1. Avail(free) \in Nat \ {0} /\ free + Avail(free) = NumArgReg + 1
    BY <2>0 DEF Avail
  <2>2. CASE size % Word = 0
    <3>1. /\ k \in {size \div Word, Avail(free)} /\ k <= size \div Word
          /\ k <= Avail(free)
      BY <1>1, <2>1, <2>2 DEF Least, Word
    <3>2. size \div Word \in Nat \ {0} /\ (size \div Word) * 4 = size
      BY <1>1, <2>2 DEF Word
    <3> DEFINE w == size \div Word
    <3> HIDE DEF k, w
    <3>3. k \in Nat \ {0} /\ k <= w /\ free + k <= NumArgReg + 1
      BY <1>1, <1>2, <2>1, <3>1, <3>2 DEF w
    <3>4. size - k * 4 = (w - k) * 4 /\ w - k \in Nat
      BY <3>2, <3>3 DEF w, Word
    <3>5. k * 4 = size \/ free + k = NumArgReg + 1
      BY <2>1, <3>1, <3>2 DEF w, Word
    <3>6. ((w - k) * 4) % 4 = 0 /\ (w - k) * 4 >= 0
      BY <3>4
    <3>7. (size - k * 4) % 4 = 0
      BY <3>4, <3>6
    <3>8. k \in Nat /\ size \in Nat /\ size - k * 4 >= 0
      BY <1>1, <3>3, <3>4, <3>6
    <3>9. k * 4 <= size
      BY <3>8
    <3> QED
      BY <3>3, <3>5, <3>7, <3>9 DEF Word
  <2>3. CASE size % Word # 0
    BY <1>1, <1>2, <2>1, <2>3
  <2> QED
    BY <2>2, <2>3
<1> HIDE DEF k
<1>5. /\ left \in Nat
      /\ size % Word = 0 => left = size - k * Word
  <2>1. k * Word \in Nat
    BY <1>4 DEF Word
  <2>2. size - k * Word \in Int
    BY <1>1, <2>1
  <2>3. left \in Nat
    BY <1>1, <2>2
  <2>4. ASSUME size % Word = 0 PROVE left = size - k * Word
    <3> DEFINE d == size - k * Word
    <3>1. d \in Nat /\ d < UIntSpan
      BY <1>1, <1>4, <2>1, <2>4
    <3> HIDE DEF d
    <3>2. d % UIntSpan = d
      BY <1>1, <3>1, RemainderSmall
    <3> QED
      BY <3>2 DEF d, left
  <2> QED
    BY <2>3, <2>4
<1> HIDE DEF left
<1>6. /\ from \in Nat
      /\ size % Word = 0 => from = k * Word
  <2> DEFINE d == size - left
  <2>1. d \in Int
    BY <1>1, <1>5
  <2>2. ASSUME size % Word = 0 PROVE from = k * Word
    <3>1. k * Word \in Nat /\ k * Word < UIntSpan /\ size - left = k * Word
      BY SMTT(30), <1>1, <1>4, <1>5, <2>2 DEF Word
    <3>2. d \in Nat /\ d < UIntSpan /\ d = k * Word
      BY <3>1
    <3> HIDE DEF d
    <3>3. d % UIntSpan = d
      BY <1>1, <3>2, RemainderSmall
    <3> QED
      BY <3>2, <3>3 DEF d
  <2> HIDE DEF d
  <2>3. d % UIntSpan \in Nat
    BY <1>1, <2>1
  <2> QED
    BY <2>2, <2>3 DEF d
<1>7. copied \in Nat /\ copied <= left /\ (left < UIntSpan \div 4 => copied = left)
  <2>1. left % (UIntSpan \div 4) \in Nat /\ left % (UIntSpan \div 4) <= left
    BY <1>1, <1>5
  <2> QED
    BY <1>1, <1>5, <2>1
<1> HIDE DEF from, copied
<1>8. /\ counted \in Nat /\ counted % Word = 0 /\ left <= counted
      /\ size % Word = 0 => counted = left
  <2>1. ASSUME size % Word = 0 PROVE left % Word = 0
    BY <1>4, <1>5, <2>1
  <2> QED
    BY <1>5, <2>1, CeilWord
<1>9. CeilAlign(stksz, Word) = stksz
  BY <1>2, CeilWord
<1> HIDE DEF counted
<1>10. /\ free' = free + k /\ regsz' = regsz + k * Word
       /\ reg' = [r \in DOMAIN reg |->
                    IF r \in free .. free + k - 1 THEN <<next, (r - free) * Word>>
                    ELSE reg[r]]
  BY DEF PassArgInMemory, InRegisters, k
<1>11. size <= CeilAlign(size, Word)
  BY <1>1, CeilWord
<1>12. CASE left > 0
  <2>1. OnStack(next, from, copied, stksz) /\ stksz' = stksz + counted
    BY <1>9, <1>12 DEF PassArgInMemory, AddDesc, k, left, from, copied, counted
  <2>2. Passed(free, k, from, copied, stksz, counted)
    BY <1>10, <2>1 DEF Passed, OnStack
  <2>3. Fits(free, k, from, copied, stksz, counted)
    BY <1>2, <1>3, <1>4, <1>5, <1>6, <1>7, <1>8 DEF Fits
  <2>4. Within(from, copied)
    <3>1. SUFFICES ASSUME size % Word = 0 PROVE from + copied <= size
      BY <1>1, <1>6, <1>7, <1>11, CeilWord DEF Within, ByAddress
    <3>2. left = size - k * Word /\ from = k * Word /\ k * Word \in Nat
      BY <1>4, <1>5, <1>6, <3>1 DEF Word
    <3> QED
      BY <1>1, <1>5, <1>7, <3>2
  <2>5. Exact(free, k, from, copied, counted)
    <3>1. SUFFICES ASSUME size % Word = 0
                   PROVE  /\ k * Word <= size /\ from = k * Word
                          /\ k * Word = size \/ free + k = NumArgReg + 1
                          /\ counted = size - k * Word
                          /\ size < UIntSpan \div 4 => copied = counted
      BY DEF Exact
    <3>2. left = size - k * Word /\ counted = left /\ k * Word \in Nat
      BY <1>4, <1>5, <1>8, <3>1 DEF Word
    <3>3. left <= size
      BY <1>1, <3>2
    <3> QED
      BY <1>1, <1>4, <1>5, <1>6, <1>7, <3>1, <3>2, <3>3
  <2> QED
    BY <2>2, <2>3, <2>4, <2>5 DEF Shaped
<1>13. CASE ~(left > 0)
  <2>1. stk' = stk /\ stksz' = stksz
    BY <1>13 DEF PassArgInMemory, k, left
  <2>2. Passed(free, k, k * Word, 0, stksz, 0)
    BY <1>10, <2>1, StackUnchanged
  <2>3. k * Word \in Nat /\ left = 0
    BY <1>4, <1>5, <1>13 DEF Word
  <2>4. Fits(free, k, k * Word, 0, stksz, 0)
    BY <1>2, <1>3, <1>4, <2>3 DEF Fits, Word
  <2>5. Within(k * Word, 0)
    BY SMTT(30), <1>1, <1>4, <1>11, <2>3, CeilWord DEF Within, ByAddress
  <2>6. Exact(free, k, k * Word, 0, 0)
    BY <1>1, <1>4, <1>5, <2>3 DEF Exact
  <2> QED
    BY <2>2, <2>4, <2>5, <2>6 DEF Shaped
<1> QED
  BY <1>5, <1>12, <1>13

\* The rest of CG::passArg.
LEMMA OnStackShape ==
    ASSUME TypeOKArg, next <= Len(sig), Avail(free) = 0, PassArgOnStack(next)
    PROVE  \E f, k, src, n, tgt, c : Shaped(f, k, src, n, tgt, c)
<1> DEFINE size == sig[next].size
           tgt == CeilAlign(stksz, ComputeArgAlign(size))
           c == CeilAlign(size, Word)
<1>1. size \in Nat \ {0} /\ NumArgReg \in Nat \ {0}
  BY OneParam, ArgAssumption DEF ArgAssumption
<1>2. free = NumArgReg + 1 /\ stksz \in Nat /\ stksz % Word = 0 /\ regsz \in Nat
  BY <1>1 DEF TypeOKArg, Avail
<1>3. c \in Nat /\ c % Word = 0 /\ size <= c /\ (size % Word = 0 => c = size)
  BY <1>1, CeilWord
<1>4. tgt \in {stksz, stksz + Word}
  BY <1>2, CeilWord, CeilPair DEF ComputeArgAlign
<1>5. Passed(free, 0, 0, size, tgt, c)
  <2>1. /\ stksz' = stksz + c
        /\ stk' = [o \in DOMAIN stk \cup tgt .. tgt + size - 1 |->
                     IF o \in tgt .. tgt + size - 1 THEN <<next, 0 + o - tgt>> ELSE stk[o]]
    BY DEF PassArgOnStack, AddDesc, OnStack
  <2>2. reg' = reg /\ free' = free /\ regsz' = regsz
    BY DEF PassArgOnStack
  <2>3. free .. free + 0 - 1 = {} /\ free' = free + 0 /\ regsz' = regsz + 0 * Word
    BY <1>1, <1>2, <2>2 DEF Word
  <2>4. reg = [r \in DOMAIN reg |-> reg[r]]
    BY DEF TypeOKArg
  <2> HIDE DEF tgt, c, size
  <2>5. reg' = [r \in DOMAIN reg |-> IF r \in free .. free + 0 - 1
                                     THEN <<next, (r - free) * Word>> ELSE reg[r]]
    BY <2>2, <2>3, <2>4
  <2> QED
    BY <2>1, <2>3, <2>5 DEF Passed
<1>6. Fits(free, 0, 0, size, tgt, c)
  <2>1. free = SkipArgRegister(size)
    BY <1>2 DEF SkipArgRegister, Avail
  <2> HIDE DEF c
  <2> QED
    BY <1>1, <1>2, <1>3, <1>4, <2>1 DEF Fits
<1>7. Within(0, size) /\ Exact(free, 0, 0, size, c)
  <2> HIDE DEF c
  <2> QED
    BY <1>1, <1>2, <1>3 DEF Within, Exact, Word, c
<1> QED
  BY <1>5, <1>6, <1>7 DEF Shaped

\* Whichever way an argument goes, it goes the same way.
LEMMA PassArgShape ==
    ASSUME TypeOKArg, PassArg
    PROVE  \E f, k, src, n, tgt, c : Shaped(f, k, src, n, tgt, c)
<1>1. next <= Len(sig)
  BY DEF PassArg
<1> QED
  BY <1>1, InMemoryShape, InRegisterShape, OnStackShape DEF PassArg

-----------------------------------------------------------------------------
\* f sums the sizes of the first n parameters as ParameterStackSize does.
SumsUp(f, s, n) ==
    f = [m \in 0 .. n |-> IF m = 0 THEN 0 ELSE CeilAlign(f[m - 1], Word) + s[m].size]

\* The sum of the sizes exists, as a function of the number of parameters.
LEMMA SumExists ==
    ASSUME NEW s, Len(s) \in Nat, \A i \in 1 .. Len(s) : s[i].size \in Nat
    PROVE  \A n \in 0 .. Len(s) : \E f \in [0 .. n -> Nat] : SumsUp(f, s, n)
<1> DEFINE bad == {n \in 0 .. Len(s) : ~\E f \in [0 .. n -> Nat] : SumsUp(f, s, n)}
<1>1. SUFFICES ASSUME bad # {} PROVE FALSE
  OBVIOUS
<1>2. PICK n \in bad : \A m \in bad : n <= m
  <2>1. bad \in SUBSET Nat
    OBVIOUS
  <2> HIDE DEF bad
  <2> QED
    BY <1>1, <2>1, LeastNatural
<1>3. n # 0
  <2>1. SUFFICES \E f \in [0 .. 0 -> Nat] : SumsUp(f, s, 0)
    BY <1>2
  <2> DEFINE z == [m \in 0 .. 0 |-> 0]
  <2>2. z \in [0 .. 0 -> Nat]
    OBVIOUS
  <2>3. SumsUp(z, s, 0)
    BY DEF SumsUp
  <2> QED
    BY <2>2, <2>3
<1>4. n \in 1 .. Len(s) /\ n - 1 \in 0 .. Len(s) /\ n - 1 \notin bad
  <2>1. n \in 1 .. Len(s) /\ n - 1 \in 0 .. Len(s)
    BY <1>2, <1>3
  <2>2. ~(n <= n - 1)
    BY <2>1
  <2> HIDE DEF bad
  <2> QED
    BY <1>2, <2>1, <2>2
<1>5. PICK f \in [0 .. n - 1 -> Nat] : SumsUp(f, s, n - 1)
  BY <1>4
<1> DEFINE g == [m \in 0 .. n |->
                   IF m = n THEN CeilAlign(f[n - 1], Word) + s[n].size ELSE f[m]]
<1>6. CeilAlign(f[n - 1], Word) + s[n].size \in Nat
  <2>1. f[n - 1] \in Nat
    BY <1>4, <1>5
  <2>2. s[n].size \in Nat
    BY <1>4
  <2>3. CeilAlign(f[n - 1], Word) \in Nat
    BY <2>1, CeilWord
  <2> QED
    BY <2>2, <2>3
<1>7. g \in [0 .. n -> Nat]
  <2>1. \A m \in 0 .. n : m # n => f[m] \in Nat
    BY <1>4, <1>5
  <2> QED
    BY <1>4, <1>6, <2>1
<1>8. SumsUp(g, s, n)
  <2>1. \A m \in 0 .. n - 1 : g[m] = f[m]
    BY <1>2
  <2>2. \A m \in 0 .. n - 1 :
          f[m] = IF m = 0 THEN 0 ELSE CeilAlign(f[m - 1], Word) + s[m].size
    BY <1>5 DEF SumsUp
  <2>3. g[n] = CeilAlign(g[n - 1], Word) + s[n].size
    BY <1>2, <1>3, <2>1
  <2>4. \A m \in 0 .. n :
          g[m] = IF m = 0 THEN 0 ELSE CeilAlign(g[m - 1], Word) + s[m].size
    BY <1>2, <1>3, <2>1, <2>2, <2>3
  <2> HIDE DEF g
  <2> QED
    BY <1>7, <2>4 DEF SumsUp
<1> QED
  BY <1>2, <1>7, <1>8

\* Every value of the sum is a natural number.
LEMMA SumNatural ==
    ASSUME NEW s, Len(s) \in Nat, \A i \in 1 .. Len(s) : s[i].size \in Nat, NEW f, SumsUp(f, s, Len(s))
    PROVE  \A n \in 0 .. Len(s) : f[n] \in Nat
<1> DEFINE bad == {n \in 0 .. Len(s) : f[n] \notin Nat}
<1>1. SUFFICES ASSUME bad # {} PROVE FALSE
  OBVIOUS
<1>2. PICK n \in bad : \A m \in bad : n <= m
  <2>1. bad \in SUBSET Nat
    OBVIOUS
  <2> HIDE DEF bad
  <2> QED
    BY <1>1, <2>1, LeastNatural
<1>3. f[n] = IF n = 0 THEN 0 ELSE CeilAlign(f[n - 1], Word) + s[n].size
  BY <1>2 DEF SumsUp
<1>4. n \in 1 .. Len(s) /\ n - 1 \in 0 .. Len(s) /\ ~(n <= n - 1)
  BY <1>2, <1>3
<1>5. f[n - 1] \in Nat
  <2>1. n - 1 \notin bad
    <3> HIDE DEF bad
    <3> QED
      BY <1>2, <1>4
  <2> QED
    BY <1>4, <2>1
<1>6. s[n].size \in Nat
  BY <1>4
<1>7. CeilAlign(f[n - 1], Word) + s[n].size \in Nat
  <2>1. CeilAlign(f[n - 1], Word) \in Nat
    BY <1>5, CeilWord
  <2> QED
    BY <1>6, <2>1
<1> QED
  BY <1>2, <1>3, <1>4, <1>7

\* So computeTotalParameterStackSize is a number.
LEMMA ParameterStackSizeNatural ==
    ASSUME NEW s \in Signatures PROVE ParameterStackSize(s) \in Nat
<1>1. s \in Seq(Param) /\ UIntSpan \in Nat
  BY ArgAssumption DEF ArgAssumption, Param
<1>2. Len(s) \in Nat /\ \A i \in 1 .. Len(s) : s[i].size \in Nat
  <2> HIDE DEF Param
  <2>1. Len(s) \in Nat /\ \A i \in 1 .. Len(s) : s[i] \in Param
    BY <1>1
  <2>2. \A x \in Param : x.size \in 1 .. UIntSpan - 1
    BY DEF Param
  <2> QED
    BY <1>1, <2>1, <2>2
<1> DEFINE f == CHOOSE f : SumsUp(f, s, Len(s))
<1>3. SumsUp(f, s, Len(s))
  BY <1>2, SumExists
<1>4. f[Len(s)] \in Nat
  BY <1>2, <1>3, SumNatural
<1> QED
  BY <1>4 DEF ParameterStackSize, SumsUp

\* The frame reserves the argument section of the call.
LEMMA SectionReserved ==
    ASSUME TypeOKArg PROVE MaxRealArgSize \in Nat /\ regsz + stksz <= MaxRealArgSize
<1> DEFINE early == UpdateMaxCalleeArgSize(ParameterStackSize(sig), 0)
<1>1. early \in Nat
  <2>1. ParameterStackSize(sig) \in Nat
    BY ParameterStackSizeNatural DEF TypeOKArg
  <2> QED
    BY <2>1, CeilWord DEF UpdateMaxCalleeArgSize
<1>2. ArgSectionSize \in Nat /\ regsz + stksz <= ArgSectionSize
  BY CeilWord DEF ArgSectionSize, TypeOKArg
<1> HIDE DEF early
<1>3. UpdateMaxCalleeArgSize(ArgSectionSize, early) \in Nat
      /\ ArgSectionSize <= UpdateMaxCalleeArgSize(ArgSectionSize, early)
  BY <1>1, <1>2, CeilWord DEF UpdateMaxCalleeArgSize
<1> QED
  BY <1>2, <1>3 DEF MaxRealArgSize, early, TypeOKArg

-----------------------------------------------------------------------------
\* Every struct is a number of words.
WholeStructs == \A i \in DOMAIN sig : sig[i].mc => sig[i].size % Word = 0

StackBytes ==
    WholeStructs => \A o \in DOMAIN stk : /\ stk[o][1] \in DOMAIN sig
                                          /\ stk[o][2] < CeilAlign(sig[stk[o][1]].size, Word)

ArgInv == TypeOKArg /\ Reserved /\ StackBytes

\* The invariant holds initially.
LEMMA ArgInitInv == Init => ArgInv
<1> SUFFICES ASSUME Init PROVE ArgInv
  OBVIOUS
<1>1. NumArgReg \in Nat /\ Len(sig) \in Nat
  BY ArgAssumption DEF ArgAssumption, Init
<1>2. reg \in [1 .. NumArgReg -> Int \X Int]
  BY <1>1 DEF Init, Nobody
<1>3. DOMAIN stk = {}
  BY DEF Init
<1>4. TypeOKArg
  BY <1>1, <1>2, <1>3 DEF Init, TypeOKArg, Word
<1> QED
  BY <1>3, <1>4 DEF Init, ArgInv, Reserved, StackBytes

\* The types after an argument is passed.
LEMMA PassArgType == ASSUME TypeOKArg, PassArg PROVE TypeOKArg'
<1>1. PICK f, k, src, n, tgt, c : Shaped(f, k, src, n, tgt, c)
  BY PassArgShape
<1>2. /\ free \in Nat \ {0} /\ stksz \in Nat /\ stksz % Word = 0 /\ regsz \in Nat
      /\ next \in Nat \ {0} /\ NumArgReg \in Nat /\ Len(sig) \in Nat /\ next <= Len(sig)
  BY SMTT(30), ArgAssumption DEF TypeOKArg, PassArg, ArgAssumption
<1>3. /\ f \in {free, free + 1} /\ k \in Nat /\ f + k <= NumArgReg + 1
      /\ src \in Nat /\ n \in Nat /\ tgt \in Nat /\ c \in Nat /\ c % Word = 0
  <2>1. f \in {free, free + 1}
    BY <1>1 DEF Shaped, Fits, SkipArgRegister
  <2>2. /\ k \in Nat /\ f + k <= NumArgReg + 1 /\ src \in Nat /\ n \in Nat
        /\ tgt \in {stksz, stksz + Word} /\ c \in Nat /\ c % Word = 0
    BY <1>1 DEF Shaped, Fits
  <2>3. tgt \in Nat
    BY <1>2, <2>2 DEF Word
  <2> QED
    BY <2>1, <2>2, <2>3
<1>a. free' = f + k /\ regsz' = regsz + k * Word /\ stksz' = stksz + c
  BY <1>1 DEF Shaped, Passed
<1>4. free' \in 1 .. NumArgReg + 1 /\ regsz' \in Nat
  <2>1. f \in Nat \ {0} /\ k * Word \in Nat
    BY <1>2, <1>3 DEF Word
  <2>2. free' \in 1 .. NumArgReg + 1
    BY <1>a, <1>2, <1>3, <2>1
  <2> QED
    BY <1>a, <1>2, <2>1, <2>2
<1>5. stksz' \in Nat /\ stksz' % Word = 0
  BY <1>a, <1>2, <1>3 DEF Word
<1>6. reg' \in [1 .. NumArgReg -> Int \X Int]
  <2>1. DOMAIN reg = 1 .. NumArgReg /\ \A r \in 1 .. NumArgReg : reg[r] \in Int \X Int
    BY DEF TypeOKArg
  <2>2. \A r \in 1 .. NumArgReg : <<next, (r - f) * Word>> \in Int \X Int
    BY <1>2, <1>3 DEF Word
  <2> QED
    BY <1>1, <2>1, <2>2 DEF Shaped, Passed
<1>7. \A o \in DOMAIN stk' : o \in Nat
  BY <1>1, <1>3 DEF Shaped, Passed, TypeOKArg
<1>8. sig' = sig /\ pc' = pc /\ next' = next + 1
  BY DEF PassArg
<1> QED
  BY SMTT(30), <1>2, <1>4, <1>5, <1>6, <1>7, <1>8 DEF TypeOKArg

\* Every step keeps the invariant.
LEMMA ArgNextInv == ArgInv /\ [Next]_vars => ArgInv'
<1> SUFFICES ASSUME ArgInv, [Next]_vars PROVE ArgInv'
  OBVIOUS
<1>1. CASE PassArg
  <2>1. PICK f, k, src, n, tgt, c : Shaped(f, k, src, n, tgt, c)
    BY <1>1, PassArgShape DEF ArgInv
  <2>2. /\ free \in Nat \ {0} /\ stksz \in Nat /\ regsz \in Nat /\ pc = "caller"
        /\ next \in Nat \ {0} /\ Len(sig) \in Nat /\ next <= Len(sig)
        /\ next \in DOMAIN sig
    BY SMTT(30), <1>1, ArgAssumption DEF ArgInv, TypeOKArg, PassArg, ArgAssumption
  <2>3. TypeOKArg'
    BY <1>1, PassArgType DEF ArgInv
  <2>4. /\ k \in Nat /\ n \in Nat /\ c \in Nat /\ src \in Nat /\ n <= c
        /\ tgt \in {stksz, stksz + Word} /\ (free = 1 => k > 0)
    BY <2>1 DEF Shaped, Fits
  <2>5. sig' = sig /\ pc' = pc /\ next' = next + 1
    BY <1>1 DEF PassArg
  <2>6. regsz' >= Word
    <3>1. regsz' = regsz + k * Word
      BY <2>1 DEF Shaped, Passed
    <3>2. regsz >= Word \/ k > 0
      BY <2>2, <2>4 DEF ArgInv, Reserved
    <3> QED
      BY <2>2, <2>4, <3>1, <3>2 DEF Word
  <2>7. \A o \in DOMAIN stk' : o < stksz' + Word
    <3>1. /\ stksz' = stksz + c /\ DOMAIN stk' = DOMAIN stk \cup tgt .. tgt + n - 1
      BY <2>1 DEF Shaped, Passed
    <3>2. \A o \in DOMAIN stk : o \in Nat /\ o < stksz + Word
      BY DEF ArgInv, Reserved, TypeOKArg
    <3> QED
      BY <2>2, <2>4, <3>1, <3>2 DEF Word
  <2>8. Reserved'
    BY <2>2, <2>5, <2>6, <2>7 DEF Reserved
  <2>9. StackBytes'
    <3>1. SUFFICES ASSUME WholeStructs, NEW o \in DOMAIN stk'
                   PROVE  /\ stk'[o][1] \in DOMAIN sig
                          /\ stk'[o][2] < CeilAlign(sig[stk'[o][1]].size, Word)
      BY <2>5 DEF StackBytes, WholeStructs
    <3>2. CASE o \in tgt .. tgt + n - 1
      <4>1. stk'[o] = <<next, src + o - tgt>>
        BY <2>1, <3>2 DEF Shaped, Passed
      <4>2. src + n <= CeilAlign(sig[next].size, Word)
        BY <2>1, <2>2, <3>1 DEF Shaped, Within, WholeStructs
      <4>3. sig[next].size \in Nat \ {0}
        BY <2>2, OneParam DEF ArgInv
      <4>4. CeilAlign(sig[next].size, Word) \in Nat
        BY <4>3, CeilWord
      <4>5. src + o - tgt < CeilAlign(sig[next].size, Word)
        BY <2>2, <2>4, <3>2, <4>2, <4>4 DEF Word
      <4> QED
        BY <2>2, <4>1, <4>5
    <3>3. CASE o \notin tgt .. tgt + n - 1
      <4>1. o \in DOMAIN stk /\ stk'[o] = stk[o]
        BY <2>1, <3>3 DEF Shaped, Passed
      <4> QED
        BY <3>1, <4>1 DEF ArgInv, StackBytes
    <3> QED
      BY <3>2, <3>3
  <2> QED
    BY <2>3, <2>8, <2>9 DEF ArgInv
<1>2. ASSUME UNCHANGED <<sig, callerVars>>, pc' \in {"layout", "store", "done"},
             next' \in 1 .. Len(sig) + 1,
             pc # "caller" \/ next = Len(sig) + 1
      PROVE ArgInv'
  <2>1. /\ sig' = sig /\ free' = free /\ regsz' = regsz /\ stksz' = stksz
        /\ reg' = reg /\ stk' = stk /\ pc' # "caller"
    BY <1>2 DEF callerVars
  <2>2. TypeOKArg'
    BY <1>2, <2>1 DEF ArgInv, TypeOKArg
  <2>3. Reserved'
    BY <1>2, <2>1 DEF ArgInv, TypeOKArg, Reserved
  <2>4. StackBytes'
    BY <2>1 DEF ArgInv, StackBytes, WholeStructs
  <2> QED
    BY <2>2, <2>3, <2>4 DEF ArgInv
<1>3. next \in 1 .. Len(sig) + 1 /\ Len(sig) \in Nat
  BY ArgAssumption DEF ArgInv, TypeOKArg, ArgAssumption
<1>4. CASE ProcessRealParams
  BY <1>2, <1>3, <1>4 DEF ProcessRealParams
<1>5. CASE ComputeParamLayout
  BY <1>2, <1>3, <1>5 DEF ComputeParamLayout, callerVars
<1>6. CASE ReviseFormalParameter
  BY <1>2, <1>3, <1>6 DEF ReviseFormalParameter, callerVars
<1>7. CASE StoreReg
  BY <1>2, <1>3, <1>7 DEF StoreReg, StoreMore, callerVars
<1>8. CASE StoreDone
  BY <1>2, <1>3, <1>8 DEF StoreDone, callerVars
<1>9. CASE UNCHANGED vars
  <2>1. /\ sig' = sig /\ pc' = pc /\ next' = next /\ free' = free /\ regsz' = regsz
        /\ stksz' = stksz /\ reg' = reg /\ stk' = stk
    BY <1>9 DEF vars
  <2> QED
    BY <2>1 DEF ArgInv, TypeOKArg, Reserved, StackBytes, WholeStructs
<1> QED
  BY <1>1, <1>4, <1>5, <1>6, <1>7, <1>8, <1>9 DEF Next

\* The invariant of the call.
LEMMA ArgInvariant == Spec => []ArgInv
  BY ArgInitInv, ArgNextInv, PTL DEF Spec

\* For every list of parameters: what the caller stores on the stack for the
\* call, the padding before a two word argument included, lies in the stack top
\* its frame reserves (CG::updateMaxCalleeArgSize), and never in a local variable.
THEOREM ArgAreaIsReserved == Spec => []ArgAreaReserved
<1>1. ArgInv => ArgAreaReserved
  <2> SUFFICES ASSUME ArgInv, pc # "caller", NEW o \in DOMAIN stk
               PROVE  o < MaxRealArgSize
    BY DEF ArgAreaReserved
  <2>1. MaxRealArgSize \in Nat /\ regsz + stksz <= MaxRealArgSize
    BY SectionReserved DEF ArgInv
  <2>2. o \in Nat /\ o < stksz + Word /\ regsz >= Word /\ stksz \in Nat /\ regsz \in Nat
    BY DEF ArgInv, TypeOKArg, Reserved
  <2> QED
    BY <2>1, <2>2 DEF Word
<1> QED
  BY <1>1, ArgInvariant, PTL

\* A call whose structs are whole numbers of words copies no byte that is behind
\* an argument; with another struct size the words left wrap below zero
\* (ArgDescMgr::passArgInMemory).
THEOREM StackHoldsArguments == Spec => [](WholeStructs => StackHoldsArgBytes)
<1>1. ArgInv => (WholeStructs => StackHoldsArgBytes)
  BY DEF ArgInv, StackBytes, StackHoldsArgBytes
<1> QED
  BY <1>1, ArgInvariant, PTL

-----------------------------------------------------------------------------
(***************************************************************************)
(* The two sides agree.  For arguments of whole words both walk the same   *)
(* trail: which byte of which parameter the word of a register starts      *)
(* with, register by register, is a function of the signature.             *)
(***************************************************************************)
WholeWords == \A i \in DOMAIN sig : /\ sig[i].size % Word = 0
                                    /\ sig[i].size < UIntSpan \div 4

\* No argument is padded on the stack.
NoPadding ==
    pc = "caller" /\ next <= Len(sig) /\ Avail(free) = 0
        => CeilAlign(stksz, ComputeArgAlign(sig[next].size)) = stksz

\* The caller skips no register for a struct of two words; the callee never does.
NoSkippedStruct ==
    pc = "caller" /\ next <= Len(sig) /\ sig[next].mc
        => SkipArgRegister(sig[next].size) = free

\* Where parameter i starts when nothing is padded.
Start(s, i) ==
    LET sum[n \in 0 .. Len(s)] ==
          IF n = 0 THEN 0 ELSE CeilAlign(sum[n - 1], Word) + s[n].size
    IN  sum[i - 1]

\* Register r at byte c[2] of parameter c[1]: where the next register is.
After(s, c, r) ==
    IF c[1] > Len(s) \/ (c[2] = 0 /\ SkipHomeRegister(s[c[1]], r)) THEN c
    ELSE IF c[2] + Word = s[c[1]].size THEN <<c[1] + 1, 0>> ELSE <<c[1], c[2] + Word>>

Trail(s) ==
    LET t[r \in 1 .. NumArgReg + 1] ==
          IF r = 1 THEN <<1, 0>> ELSE After(s, t[r - 1], r - 1)
    IN  t

T == Trail(sig)
Position(c) == Start(sig, c[1]) + c[2]
Dropped(r) == T[r][2] = 0 /\ SkipHomeRegister(sig[T[r][1]], r)

\* The arguments before n are placed: those of the registers along the trail,
\* the bytes from position regsz on on the stack.
Placed(n) ==
    /\ regsz + stksz = Start(sig, n) /\ regsz = Position(T[free])
    /\ free <= NumArgReg => T[free] = <<n, 0>> /\ stksz = 0
    /\ \A r \in 1 .. free - 1 :
         /\ T[r][1] \in 1 .. Len(sig) /\ T[r][2] \in Nat
         /\ T[r][2] + Word <= sig[T[r][1]].size
         /\ ~Dropped(r) => reg[r] = T[r]
    /\ \A i \in 1 .. n - 1 : \A b \in 0 .. sig[i].size - 1 :
         Start(sig, i) + b >= regsz
           => /\ Start(sig, i) + b - regsz \in DOMAIN stk
              /\ stk[Start(sig, i) + b - regsz] = <<i, b>>

LaidOut ==
    /\ ofst \in [1 .. Len(sig) -> Int]
    /\ pc = "caller" => sectsz = 0
    /\ pc = "layout" => /\ sectsz = Start(sig, next)
                        /\ \A i \in 1 .. next - 1 : ofst[i] = Start(sig, i)
    /\ pc \in {"store", "done"} => \A i \in 1 .. Len(sig) : ofst[i] = Start(sig, i)

\* The callee is on the trail, and its p-th register has the p-th word.
Stored ==
    /\ pc \in {"caller", "layout"} => phy = 1 /\ stored = 0 /\ home = <<>>
    /\ pc \in {"store", "done"} =>
         /\ phy \in 1 .. free /\ stored \in Nat /\ T[phy] = <<next, stored>>
         /\ home \in Seq(1 .. free - 1)
         /\ Len(home) * Word = Position(T[phy])
         /\ \A p \in 1 .. Len(home) : /\ reg[home[p]] = T[home[p]]
                                      /\ Position(T[home[p]]) = (p - 1) * Word
    /\ pc = "done" => ~StoreMore

AgreeInv ==
    WholeWords => /\ Placed(IF pc = "caller" THEN next ELSE Len(sig) + 1)
                  /\ LaidOut /\ Stored

\* Arguments of whole words.
LEMMA Sizes ==
    ASSUME TypeOKArg, WholeWords
    PROVE  /\ Len(sig) \in Nat /\ DOMAIN sig = 1 .. Len(sig)
           /\ \A i \in 1 .. Len(sig) : /\ sig[i].size \in Nat \ {0}
                                       /\ sig[i].size % Word = 0 /\ sig[i].size >= Word
                                       /\ sig[i].mc \in BOOLEAN
<1>1. sig \in Seq(Param) /\ UIntSpan \in Nat
  BY ArgAssumption DEF ArgAssumption, TypeOKArg, Param
<1>2. \A x \in Param : x.size \in 1 .. UIntSpan - 1 /\ x.mc \in BOOLEAN
  BY DEF Param
<1> HIDE DEF Param
<1>3. /\ Len(sig) \in Nat /\ DOMAIN sig = 1 .. Len(sig)
      /\ \A i \in 1 .. Len(sig) : sig[i] \in Param
  BY <1>1
<1>4. ASSUME NEW i \in 1 .. Len(sig)
      PROVE  /\ sig[i].size \in Nat \ {0} /\ sig[i].size % Word = 0
             /\ sig[i].size >= Word /\ sig[i].mc \in BOOLEAN
  <2>1. sig[i].size \in 1 .. UIntSpan - 1 /\ sig[i].mc \in BOOLEAN
    BY <1>2, <1>3
  <2>2. sig[i].size % Word = 0
    BY <1>3 DEF WholeWords
  <2> QED
    BY <1>1, <2>1, <2>2 DEF Word
<1> QED
  BY <1>3, <1>4

\* A sum of whole words.
LEMMA SumWord ==
    ASSUME NEW a \in Nat, NEW b \in Nat, a % Word = 0, b % Word = 0
    PROVE  (a + b) % Word = 0
BY DEF Word

\* Whole words follow each other.
LEMMA StartRule ==
    ASSUME TypeOKArg, WholeWords
    PROVE  /\ Start(sig, 1) = 0
           /\ \A i \in 1 .. Len(sig) + 1 : Start(sig, i) \in Nat
           /\ \A i \in 1 .. Len(sig) : Start(sig, i + 1) = Start(sig, i) + sig[i].size
<1> DEFINE f == CHOOSE f : SumsUp(f, sig, Len(sig))
<1>1. /\ Len(sig) \in Nat
      /\ \A i \in 1 .. Len(sig) : sig[i].size \in Nat /\ sig[i].size % Word = 0
  BY Sizes
<1>2. SumsUp(f, sig, Len(sig))
  BY <1>1, SumExists
<1>3. \A n \in 0 .. Len(sig) : f[n] \in Nat
  BY <1>1, <1>2, SumNatural
<1>4. \A i \in 1 .. Len(sig) + 1 : Start(sig, i) = f[i - 1]
  BY DEF Start, SumsUp
<1> HIDE DEF f
<1>5. \A n \in 0 .. Len(sig) :
        f[n] = IF n = 0 THEN 0 ELSE CeilAlign(f[n - 1], Word) + sig[n].size
  BY <1>2 DEF SumsUp
<1>6. \A n \in 0 .. Len(sig) : f[n] % Word = 0
  <2> DEFINE bad == {n \in 0 .. Len(sig) : f[n] % Word # 0}
  <2>1. SUFFICES ASSUME bad # {} PROVE FALSE
    OBVIOUS
  <2>2. PICK n \in bad : \A m \in bad : n <= m
    <3>1. bad \in SUBSET Nat
      BY <1>1
    <3> HIDE DEF bad
    <3> QED
      BY <2>1, <3>1, LeastNatural
  <2>3. n # 0
    BY <2>2, <1>5, <1>1 DEF Word
  <2>4. n \in 1 .. Len(sig) /\ n - 1 \in 0 .. Len(sig) /\ ~(n <= n - 1)
    BY <1>1, <2>2, <2>3
  <2>5. f[n - 1] % Word = 0
    <3>1. n - 1 \notin bad
      <4> HIDE DEF bad
      <4> QED
        BY <2>2, <2>4
    <3> QED
      BY <2>4, <3>1
  <2>6. f[n - 1] \in Nat /\ sig[n].size \in Nat /\ sig[n].size % Word = 0
    BY <1>1, <1>3, <2>4
  <2>7. CeilAlign(f[n - 1], Word) = f[n - 1]
    BY <2>5, <2>6, CeilWord
  <2>8. f[n] = f[n - 1] + sig[n].size
    BY <1>5, <2>3, <2>4, <2>7
  <2>9. f[n] % Word = 0
    BY <2>5, <2>6, <2>8, SumWord
  <2> QED
    BY <2>2, <2>9
<1>7. \A n \in 1 .. Len(sig) : f[n] = f[n - 1] + sig[n].size
  <2> SUFFICES ASSUME NEW n \in 1 .. Len(sig) PROVE f[n] = f[n - 1] + sig[n].size
    OBVIOUS
  <2>1. n - 1 \in 0 .. Len(sig) /\ n # 0 /\ n \in 0 .. Len(sig)
    BY <1>1
  <2>2. CeilAlign(f[n - 1], Word) = f[n - 1]
    BY <1>3, <1>6, <2>1, CeilWord
  <2> QED
    BY <1>5, <2>1, <2>2
<1>8. Start(sig, 1) = 0
  BY <1>1, <1>4, <1>5
<1>9. \A i \in 1 .. Len(sig) + 1 : Start(sig, i) \in Nat
  BY <1>1, <1>3, <1>4
<1>10. ASSUME NEW i \in 1 .. Len(sig)
       PROVE  Start(sig, i + 1) = Start(sig, i) + sig[i].size
  <2>1. Start(sig, i + 1) = f[(i + 1) - 1] /\ (i + 1) - 1 = i
    BY <1>1, <1>4
  <2> QED
    BY <1>1, <1>4, <1>7, <2>1
<1> QED
  BY <1>8, <1>9, <1>10

\* A parameter ends before a later one starts.
LEMMA StartMonotone ==
    ASSUME TypeOKArg, WholeWords, NEW i \in 1 .. Len(sig)
    PROVE  \A j \in i + 1 .. Len(sig) + 1 : Start(sig, i) + sig[i].size <= Start(sig, j)
<1> DEFINE bad == {j \in i + 1 .. Len(sig) + 1 :
                     ~(Start(sig, i) + sig[i].size <= Start(sig, j))}
<1>1. SUFFICES ASSUME bad # {} PROVE FALSE
  OBVIOUS
<1>2. /\ Len(sig) \in Nat /\ \A m \in 1 .. Len(sig) : sig[m].size \in Nat
      /\ \A m \in 1 .. Len(sig) + 1 : Start(sig, m) \in Nat
      /\ \A m \in 1 .. Len(sig) : Start(sig, m + 1) = Start(sig, m) + sig[m].size
  BY Sizes, StartRule
<1>3. PICK j \in bad : \A m \in bad : j <= m
  <2>1. bad \in SUBSET Nat
    BY <1>2
  <2> HIDE DEF bad
  <2> QED
    BY <1>1, <2>1, LeastNatural
<1>4. j # i + 1
  BY <1>2, <1>3
<1>5. /\ j - 1 \in i + 1 .. Len(sig) + 1 /\ ~(j <= j - 1) /\ j - 1 \in 1 .. Len(sig)
      /\ (j - 1) + 1 = j /\ i \in 1 .. Len(sig) + 1 /\ j \in 1 .. Len(sig) + 1
  BY <1>2, <1>3, <1>4
<1>6. Start(sig, i) + sig[i].size <= Start(sig, j - 1)
  <2>1. j - 1 \notin bad
    <3> HIDE DEF bad
    <3> QED
      BY <1>3, <1>5
  <2> QED
    BY <1>5, <2>1
<1>7. Start(sig, j) = Start(sig, j - 1) + sig[j - 1].size
  BY <1>2, <1>5
<1>8. /\ Start(sig, i) \in Nat /\ Start(sig, j) \in Nat /\ Start(sig, j - 1) \in Nat
      /\ sig[j - 1].size \in Nat /\ sig[i].size \in Nat
  BY <1>2, <1>5
<1>9. Start(sig, i) + sig[i].size <= Start(sig, j)
  <2>1. Start(sig, j - 1) <= Start(sig, j)
    BY <1>7, <1>8
  <2> QED
    BY <1>6, <1>8, <2>1
<1> QED
  BY <1>3, <1>9

\* A position is one byte of one parameter.
LEMMA PositionsDiffer ==
    ASSUME TypeOKArg, WholeWords, NEW i \in 1 .. Len(sig), NEW j \in 1 .. Len(sig),
           NEW b \in 0 .. sig[i].size - 1, NEW d \in 0 .. sig[j].size - 1,
           Start(sig, i) + b = Start(sig, j) + d
    PROVE  i = j /\ b = d
<1>1. /\ Len(sig) \in Nat /\ sig[i].size \in Nat /\ sig[j].size \in Nat
      /\ Start(sig, i) \in Nat /\ Start(sig, j) \in Nat
  BY SMTT(30), Sizes, StartRule
<1>2. ~(i < j)
  <2> SUFFICES ASSUME i < j PROVE FALSE
    OBVIOUS
  <2>1. Start(sig, i) + sig[i].size <= Start(sig, j)
    BY <1>1, StartMonotone
  <2> QED
    BY <1>1, <2>1
<1>3. ~(j < i)
  <2> SUFFICES ASSUME j < i PROVE FALSE
    OBVIOUS
  <2>1. Start(sig, j) + sig[j].size <= Start(sig, i)
    BY <1>1, StartMonotone
  <2> QED
    BY <1>1, <2>1
<1> QED
  BY <1>1, <1>2, <1>3

\* The trail exists and follows After.
LEMMA TrailRule ==
    /\ T[1] = <<1, 0>>
    /\ \A r \in 1 .. NumArgReg : T[r + 1] = After(sig, T[r], r)
<1> DEFINE Walk(t, n) == t = [r \in 1 .. n |-> IF r = 1 THEN <<1, 0>>
                                               ELSE After(sig, t[r - 1], r - 1)]
           N == NumArgReg + 1
           bad == {n \in 1 .. N : ~\E t : Walk(t, n)}
<1>1. NumArgReg \in Nat
  BY ArgAssumption DEF ArgAssumption
<1>2. bad = {}
  <2>1. SUFFICES ASSUME bad # {} PROVE FALSE
    OBVIOUS
  <2>2. PICK n \in bad : \A m \in bad : n <= m
    <3>1. bad \in SUBSET Nat
      BY <1>1
    <3> HIDE DEF bad
    <3> QED
      BY <2>1, <3>1, LeastNatural
  <2>3. n # 1
    <3>1. SUFFICES \E t : Walk(t, 1)
      BY ZenonT(30), <2>2
    <3>2. Walk([r \in 1 .. 1 |-> <<1, 0>>], 1)
      OBVIOUS
    <3> QED
      BY <3>2
  <2>4. n \in 2 .. N /\ n - 1 \in 1 .. N /\ ~(n <= n - 1)
    BY <1>1, <2>2, <2>3
  <2>5. PICK t : Walk(t, n - 1)
    <3>1. n - 1 \notin bad
      <4> HIDE DEF bad
      <4> QED
        BY <2>2, <2>4
    <3> QED
      BY <2>4, <3>1
  <2> DEFINE u == [r \in 1 .. n |-> IF r = n THEN After(sig, t[n - 1], n - 1) ELSE t[r]]
  <2>6. \A r \in 1 .. n - 1 : u[r] = t[r]
    BY <2>4
  <2>7. \A r \in 1 .. n - 1 :
          t[r] = IF r = 1 THEN <<1, 0>> ELSE After(sig, t[r - 1], r - 1)
    BY <2>5
  <2>8. \A r \in 1 .. n :
          u[r] = IF r = 1 THEN <<1, 0>> ELSE After(sig, u[r - 1], r - 1)
    <3> SUFFICES ASSUME NEW r \in 1 .. n
                 PROVE  u[r] = IF r = 1 THEN <<1, 0>> ELSE After(sig, u[r - 1], r - 1)
      OBVIOUS
    <3>1. CASE r = n
      <4>1. u[n] = After(sig, t[n - 1], n - 1) /\ u[n - 1] = t[n - 1] /\ n # 1
        BY <2>4, <2>6
      <4> HIDE DEF u
      <4> QED
        BY <3>1, <4>1
    <3>2. CASE r # n
      <4>1. r \in 1 .. n - 1 /\ (r # 1 => r - 1 \in 1 .. n - 1)
        BY <2>4, <3>2
      <4> HIDE DEF u
      <4> QED
        BY <2>6, <2>7, <4>1
    <3> QED
      BY <3>1, <3>2
  <2>9. u = [r \in 1 .. n |-> u[r]]
    OBVIOUS
  <2> HIDE DEF u
  <2>10. Walk(u, n)
    BY <2>8, <2>9
  <2> QED
    BY <2>2, <2>10
<1>3. \E t : Walk(t, N)
  <2>1. N \in 1 .. N
    BY <1>1
  <2> HIDE DEF N, Walk
  <2> QED
    BY <1>2, <2>1
<1>4. Walk(T, N)
  BY <1>3 DEF T, Trail
<1>5. \A r \in 1 .. N : T[r] = IF r = 1 THEN <<1, 0>> ELSE After(sig, T[r - 1], r - 1)
  BY <1>4
<1>6. ASSUME NEW r \in 1 .. NumArgReg PROVE T[r + 1] = After(sig, T[r], r)
  <2>1. r + 1 \in 1 .. N /\ r + 1 # 1 /\ (r + 1) - 1 = r
    BY <1>1
  <2> QED
    BY <1>5, <2>1
<1> QED
  BY <1>1, <1>5, <1>6

\* From a register where argument i may start, the trail goes along its words.
LEMMA TrailOfArgument ==
    ASSUME TypeOKArg, WholeWords, NEW i \in 1 .. Len(sig), NEW k \in Nat,
           NEW f \in 1 .. NumArgReg + 1, f + k <= NumArgReg + 1,
           k * Word <= sig[i].size, T[f] = <<i, 0>>,
           k > 0 => ~SkipHomeRegister(sig[i], f)
    PROVE  \A j \in 0 .. k : T[f + j] = IF j * Word = sig[i].size THEN <<i + 1, 0>>
                                        ELSE <<i, j * Word>>
<1> DEFINE word(j) == IF j * Word = sig[i].size THEN <<i + 1, 0>> ELSE <<i, j * Word>>
           bad == {j \in 0 .. k : T[f + j] # word(j)}
<1>1. SUFFICES ASSUME bad # {} PROVE FALSE
  OBVIOUS
<1>2. /\ Len(sig) \in Nat /\ sig[i].size \in Nat \ {0} /\ NumArgReg \in Nat
      /\ sig[i].size >= Word
  BY Sizes, ArgAssumption DEF ArgAssumption
<1>3. PICK j \in bad : \A m \in bad : j <= m
  <2>1. bad \in SUBSET Nat
    OBVIOUS
  <2> HIDE DEF bad
  <2> QED
    BY <1>1, <2>1, LeastNatural
<1>4. j # 0
  <2>1. word(0) = <<i, 0>> /\ f + 0 = f
    BY <1>2 DEF Word
  <2> HIDE DEF word
  <2>2. T[f + 0] = word(0)
    BY <2>1
  <2> QED
    BY <1>3, <2>2
<1>5. j \in 1 .. k /\ j - 1 \in 0 .. k /\ ~(j <= j - 1) /\ j \in Nat /\ k > 0
  BY <1>3, <1>4
<1>6. T[f + (j - 1)] = word(j - 1)
  <2>1. j - 1 \notin bad
    <3> HIDE DEF bad
    <3> QED
      BY <1>3, <1>5
  <2> HIDE DEF word
  <2> QED
    BY <1>5, <2>1
<1>7. (j - 1) * Word + Word = j * Word /\ j * Word <= sig[i].size /\ j * Word \in Nat
      /\ (j - 1) * Word \in Nat
  BY <1>2, <1>5 DEF Word
<1>8. T[f + (j - 1)] = <<i, (j - 1) * Word>>
  <2>1. (j - 1) * Word # sig[i].size
    BY <1>2, <1>7 DEF Word
  <2> QED
    BY <1>6, <2>1
<1> DEFINE r == f + (j - 1)
<1>9. r \in 1 .. NumArgReg /\ r + 1 = f + j
  BY <1>2, <1>5
<1>10. T[r + 1] = After(sig, T[r], r)
  BY <1>9, TrailRule
<1>11. ~(i > Len(sig))
  BY <1>2
<1>12. ~((j - 1) * Word = 0 /\ SkipHomeRegister(sig[i], r))
  <2>1. CASE j = 1
    BY <1>5, <2>1
  <2>2. CASE j # 1
    BY <1>5, <2>2 DEF Word
  <2> QED
    BY <2>1, <2>2
<1>13. After(sig, T[r], r) = word(j)
  <2>1. T[r][1] = i /\ T[r][2] = (j - 1) * Word
    BY <1>8
  <2>2. T[r] = <<i, (j - 1) * Word>>
    BY <1>8
  <2> HIDE DEF r
  <2> QED
    BY <1>7, <1>11, <1>12, <2>1, <2>2 DEF After
<1>14. T[f + j] = word(j)
  <2> HIDE DEF word
  <2> QED
    BY <1>9, <1>10, <1>13
<1> QED
  BY <1>3, <1>14

\* An argument is placed along the trail of the callee.
LEMMA PassArgPlaces ==
    ASSUME ArgInv, WholeWords, NoPadding, NoSkippedStruct, PassArg, Placed(next)
    PROVE  Placed(next)'
<1>1. PICK f, k, src, n, tgt, c : Shaped(f, k, src, n, tgt, c)
  BY PassArgShape DEF ArgInv
<1> DEFINE size == sig[next].size
<1>2. TypeOKArg /\ pc = "caller" /\ next \in 1 .. Len(sig) /\ Len(sig) \in Nat
  BY SMTT(30), ArgAssumption DEF ArgInv, TypeOKArg, PassArg, ArgAssumption
<1>3. /\ free \in 1 .. NumArgReg + 1 /\ stksz \in Nat /\ regsz \in Nat
      /\ DOMAIN reg = 1 .. NumArgReg
      /\ NumArgReg \in Nat \ {0} /\ NumArgReg % 2 = 0
  BY ArgAssumption DEF ArgInv, TypeOKArg, ArgAssumption
<1>4. /\ size \in Nat \ {0} /\ size % Word = 0 /\ size >= Word
      /\ size < UIntSpan \div 4
  <2>1. size < UIntSpan \div 4
    BY <1>2, Sizes DEF WholeWords
  <2> QED
    BY <1>2, <2>1, Sizes
<1>5. /\ Start(sig, next) \in Nat /\ Start(sig, next + 1) = Start(sig, next) + size
  BY <1>2, StartRule
<1>6. /\ k \in Nat /\ f + k <= NumArgReg + 1 /\ f \in {free, free + 1} /\ f \in Nat
      /\ f = IF free <= NumArgReg /\ SkipHomeRegister(sig[next], free)
             THEN free + 1 ELSE free
  <2>1. f = SkipArgRegister(size) /\ k \in Nat /\ f + k <= NumArgReg + 1
    BY <1>1 DEF Shaped, Fits
  <2>2. CASE sig[next].mc
    <3>1. f = free
      BY <1>2, <2>1, <2>2 DEF NoSkippedStruct
    <3> QED
      BY <1>3, <2>1, <2>2, <3>1 DEF SkipHomeRegister
  <2>3. CASE ~sig[next].mc
    BY <1>3, <2>1, <2>3 DEF SkipArgRegister, SkipHomeRegister, Avail, IsEvenReg
  <2> QED
    BY <2>2, <2>3
<1>7. /\ k * Word <= size /\ src = k * Word /\ c = size - k * Word /\ n = c
      /\ k * Word = size \/ f + k = NumArgReg + 1
  BY <1>1, <1>4 DEF Shaped, Exact
<1>8. k * Word \in Nat /\ c \in Nat
  BY <1>4, <1>6, <1>7 DEF Word
<1>9. tgt = stksz
  <2>1. tgt = IF free <= NumArgReg THEN stksz
              ELSE CeilAlign(stksz, ComputeArgAlign(size))
    BY <1>1 DEF Shaped, Fits
  <2>2. CASE free <= NumArgReg
    BY <2>1, <2>2
  <2>3. CASE free = NumArgReg + 1
    <3>1. Avail(free) = 0 /\ next <= Len(sig)
      BY <1>2, <1>3, <2>3 DEF Avail
    <3>2. CeilAlign(stksz, ComputeArgAlign(size)) = stksz
      BY <1>2, <3>1 DEF NoPadding
    <3> QED
      BY <1>3, <2>1, <2>3, <3>2
  <2> QED
    BY <1>3, <2>2, <2>3
<1>10. /\ free' = f + k /\ regsz' = regsz + k * Word /\ stksz' = stksz + size - k * Word
       /\ \A r \in 1 .. NumArgReg :
            reg'[r] = IF r \in f .. f + k - 1 THEN <<next, (r - f) * Word>> ELSE reg[r]
       /\ DOMAIN stk' = DOMAIN stk \cup stksz .. stksz + n - 1
       /\ \A o \in DOMAIN stk' :
            stk'[o] = IF o \in stksz .. stksz + n - 1
                      THEN <<next, k * Word + o - stksz>> ELSE stk[o]
  <2>1. stksz + c = stksz + size - k * Word
    BY <1>3, <1>4, <1>7, <1>8
  <2> HIDE DEF size
  <2> QED
    BY <1>1, <1>3, <1>7, <1>9, <2>1 DEF Shaped, Passed
<1>11. sig' = sig /\ T' = T
  BY DEF PassArg, T
<1>12. ASSUME free <= NumArgReg
       PROVE  /\ stksz = 0 /\ regsz = Start(sig, next) /\ T[free] = <<next, 0>>
              /\ \A j \in 0 .. k : T[f + j] = IF j * Word = size THEN <<next + 1, 0>>
                                              ELSE <<next, j * Word>>
  <2>1. T[free] = <<next, 0>> /\ stksz = 0
    BY <1>12 DEF Placed
  <2>2. regsz = Start(sig, next)
    BY <1>3, <1>5, <2>1 DEF Placed
  <2>3. T[f] = <<next, 0>>
    <3>1. CASE f = free
      BY <2>1, <3>1
    <3>2. CASE f # free
      <4>1. SkipHomeRegister(sig[next], free) /\ f = free + 1
        BY <1>6, <3>2
      <4>2. T[free + 1] = After(sig, T[free], free)
        BY <1>3, <1>12, TrailRule
      <4>3. T[free][1] = next /\ T[free][2] = 0
        BY <2>1
      <4>4. After(sig, T[free], free) = T[free]
        BY <4>1, <4>3 DEF After
      <4> QED
        BY <2>1, <4>1, <4>2, <4>4
    <3> QED
      BY <3>1, <3>2
  <2>4. f \in 1 .. NumArgReg + 1
    BY <1>3, <1>6
  <2>5. k > 0 => ~SkipHomeRegister(sig[next], f)
    <3> SUFFICES ASSUME k > 0, SkipHomeRegister(sig[next], f) PROVE FALSE
      OBVIOUS
    <3>1. f <= NumArgReg /\ f = free + 1 /\ SkipHomeRegister(sig[next], free)
      BY <1>3, <1>6, <1>12
    <3> QED
      BY <1>3, <3>1 DEF SkipHomeRegister, IsEvenReg
  <2>6. \A j \in 0 .. k : T[f + j] = IF j * Word = size THEN <<next + 1, 0>>
                                     ELSE <<next, j * Word>>
    BY <1>2, <1>6, <1>7, <2>3, <2>4, <2>5, TrailOfArgument
  <2> QED
    BY <2>1, <2>2, <2>6
<1>13. ASSUME ~(free <= NumArgReg) PROVE k = 0 /\ free' = free /\ regsz' = regsz
  BY <1>3, <1>6, <1>10, <1>13 DEF Word
<1> HIDE DEF size
<1>14. regsz' + stksz' = Start(sig, next + 1)
  <2>1. regsz + stksz = Start(sig, next)
    BY DEF Placed
  <2> QED
    BY SMTT(30), <1>3, <1>4, <1>5, <1>8, <1>10, <2>1
<1>15. regsz' = Position(T[free])'
  <2>1. Position(T[free])' = Start(sig, T[free'][1]) + T[free'][2]
    BY <1>11 DEF Position, T
  <2>2. CASE free <= NumArgReg
    <3>1. T[f + k] = IF k * Word = size THEN <<next + 1, 0>> ELSE <<next, k * Word>>
      BY <1>6, <1>12, <2>2
    <3>2. CASE k * Word = size
      <4>1. T[free'][1] = next + 1 /\ T[free'][2] = 0
        BY <1>10, <3>1, <3>2
      <4> QED
        BY <1>4, <1>5, <1>10, <1>12, <2>1, <2>2, <3>2, <4>1
    <3>3. CASE k * Word # size
      <4>1. T[free'][1] = next /\ T[free'][2] = k * Word
        BY <1>10, <3>1, <3>3
      <4> QED
        BY <1>10, <1>12, <2>1, <2>2, <4>1
    <3> QED
      BY <3>2, <3>3
  <2>3. CASE ~(free <= NumArgReg)
    BY <1>13, <2>1, <2>3 DEF Placed, Position
  <2> QED
    BY <2>2, <2>3
<1>16. free' <= NumArgReg => T[free'] = <<next + 1, 0>> /\ stksz' = 0
  <2> SUFFICES ASSUME free' <= NumArgReg PROVE T[free'] = <<next + 1, 0>> /\ stksz' = 0
    OBVIOUS
  <2>1. free <= NumArgReg
    BY <1>3, <1>6, <1>10
  <2>2. k * Word = size
    BY <1>3, <1>6, <1>7, <1>10
  <2>3. T[f + k] = IF k * Word = size THEN <<next + 1, 0>> ELSE <<next, k * Word>>
    BY <1>6, <1>12, <2>1
  <2> QED
    BY <1>4, <1>10, <1>12, <2>1, <2>2, <2>3
<1>17. ASSUME NEW r \in 1 .. free' - 1
       PROVE  /\ T[r][1] \in 1 .. Len(sig) /\ T[r][2] \in Nat
              /\ T[r][2] + Word <= sig[T[r][1]].size
              /\ ~Dropped(r) => reg'[r] = T[r]
  <2>1. CASE r < free
    <3>1. r \in 1 .. NumArgReg /\ r \in 1 .. free - 1 /\ r \notin f .. f + k - 1
      BY <1>3, <1>6, <2>1
    <3>2. reg'[r] = reg[r]
      BY <1>10, <3>1
    <3> QED
      BY <3>1, <3>2 DEF Placed
  <2>2. CASE r >= free
    <3>1. free <= NumArgReg
      BY <1>3, <1>13, <2>2
    <3>2. CASE r \in f .. f + k - 1
      <4>1. r - f \in 0 .. k /\ f + (r - f) = r /\ r \in 1 .. NumArgReg
        BY SMTT(30), <1>3, <1>6, <1>10, <3>2
      <4>2. (r - f) * Word \in Nat /\ (r - f) * Word + Word <= size
        BY <1>4, <1>6, <1>7, <3>2 DEF Word
      <4>3. (r - f) * Word # size
        BY <1>4, <4>2 DEF Word
      <4>4. T[r] = <<next, (r - f) * Word>>
        BY <1>12, <3>1, <4>1, <4>3
      <4>5. reg'[r] = <<next, (r - f) * Word>>
        BY <1>10, <3>2, <4>1
      <4> QED
        BY <1>2, <4>2, <4>4, <4>5 DEF size
    <3>3. CASE r \notin f .. f + k - 1
      <4>1. r = free /\ f = free + 1
        BY <1>3, <1>6, <1>10, <2>2, <3>3
      <4>2. SkipHomeRegister(sig[next], free)
        BY <1>6, <4>1
      <4>3. T[r][1] = next /\ T[r][2] = 0
        BY <1>12, <3>1, <4>1
      <4> QED
        BY <1>2, <1>4, <4>1, <4>2, <4>3 DEF Dropped, size, Word
    <3> QED
      BY <3>2, <3>3
  <2> QED
    BY <1>3, <2>1, <2>2
<1>18. ASSUME NEW i \in 1 .. next, NEW b \in 0 .. sig[i].size - 1,
              Start(sig, i) + b >= regsz'
       PROVE  /\ Start(sig, i) + b - regsz' \in DOMAIN stk'
              /\ stk'[Start(sig, i) + b - regsz'] = <<i, b>>
  <2>1. regsz + stksz = Start(sig, next)
    BY DEF Placed
  <2>2. i \in 1 .. Len(sig) /\ Start(sig, i) \in Nat /\ sig[i].size \in Nat
    BY <1>2, Sizes, StartRule
  <2>3. CASE i = next
    <3> DEFINE o == Start(sig, i) + b - regsz'
    <3>1. stksz + size - k * Word = stksz + n /\ b < size /\ b \in Nat
      BY SMTT(30), <1>3, <1>4, <1>7, <1>8, <2>3 DEF size
    <3>2. o = stksz + b - k * Word /\ o >= 0
      BY SMTT(30), <1>3, <1>5, <1>8, <1>10, <1>18, <2>1, <2>3
    <3>3. k * Word <= b
      <4>1. CASE free <= NumArgReg
        BY <1>8, <1>12, <3>1, <3>2, <4>1
      <4>2. CASE ~(free <= NumArgReg)
        BY <1>13, <3>1, <4>2 DEF Word
      <4> QED
        BY <4>1, <4>2
    <3>4. o \in stksz .. stksz + n - 1 /\ k * Word + o - stksz = b
      <4>1. n \in Nat /\ n = size - k * Word
        BY <1>7, <1>8
      <4> HIDE DEF o
      <4> QED
        BY SMTT(30), <1>3, <1>4, <1>8, <3>1, <3>2, <3>3, <4>1
    <3> HIDE DEF o
    <3>5. o \in DOMAIN stk' /\ stk'[o] = <<next, b>>
      BY <1>10, <3>4
    <3> QED
      BY <2>3, <3>5 DEF o
  <2>4. CASE i # next
    <3>1. i \in 1 .. next - 1 /\ next \in i + 1 .. Len(sig) + 1
      BY <1>2, <2>4
    <3>2. Start(sig, i) + b < Start(sig, next)
      <4>1. Start(sig, i) + sig[i].size <= Start(sig, next)
        BY <1>2, <2>2, <3>1, StartMonotone
      <4> QED
        BY <1>5, <2>2, <4>1
    <3>3. ~(free <= NumArgReg)
      BY SMTT(30), <1>3, <1>5, <1>8, <1>10, <1>12, <1>18, <2>2, <3>2
    <3>4. regsz' = regsz
      BY <1>13, <3>3
    <3> DEFINE o == Start(sig, i) + b - regsz
    <3>5. o \in DOMAIN stk /\ stk[o] = <<i, b>>
      BY <1>18, <3>1, <3>4 DEF Placed
    <3>6. o < stksz /\ o \notin stksz .. stksz + n - 1
      BY <1>3, <1>5, <2>1, <2>2, <3>2
    <3> HIDE DEF o
    <3>7. o \in DOMAIN stk' /\ stk'[o] = <<i, b>>
      BY <1>10, <3>5, <3>6
    <3> QED
      BY <3>4, <3>7 DEF o
  <2> QED
    BY <2>3, <2>4
<1>19. next' = next + 1 /\ next' - 1 = next
  BY <1>2 DEF PassArg
<1>20. \A r \in 1 .. free' - 1 :
         /\ T'[r][1] \in 1 .. Len(sig') /\ T'[r][2] \in Nat
         /\ T'[r][2] + Word <= sig'[T'[r][1]].size
         /\ (~Dropped(r))' => reg'[r] = T'[r]
  BY <1>11, <1>17 DEF Dropped
<1>21. \A i \in 1 .. next' - 1 : \A b \in 0 .. sig'[i].size - 1 :
         Start(sig', i) + b >= regsz'
           => /\ Start(sig', i) + b - regsz' \in DOMAIN stk'
              /\ stk'[Start(sig', i) + b - regsz'] = <<i, b>>
  BY <1>11, <1>18, <1>19
<1> QED
  BY <1>11, <1>14, <1>15, <1>16, <1>19, <1>20, <1>21 DEF Placed

\* Initially the caller is at the start of the trail.
LEMMA AgreeInit == Init => AgreeInv
<1> SUFFICES ASSUME Init, WholeWords PROVE Placed(1) /\ LaidOut /\ Stored
  BY DEF AgreeInv, Init
<1>1. TypeOKArg
  BY ArgInitInv DEF ArgInv
<1>2. Len(sig) \in Nat /\ DOMAIN sig = 1 .. Len(sig) /\ Start(sig, 1) = 0
  BY <1>1, Sizes, StartRule
<1>3. T[1] = <<1, 0>>
  BY TrailRule
<1>4. Placed(1)
  BY <1>2, <1>3 DEF Init, Placed, Position
<1>5. LaidOut
  BY <1>2 DEF Init, LaidOut
<1>6. Stored
  BY DEF Init, Stored
<1> QED
  BY <1>4, <1>5, <1>6

\* The trail is left at the end of the parameters only.
LEMMA TrailEnd ==
    ASSUME TypeOKArg, WholeWords, Placed(Len(sig) + 1), NEW r \in 1 .. free,
           r <= NumArgReg, T[r][1] \in 1 .. Len(sig)
    PROVE  r \in 1 .. free - 1
<1>1. free \in 1 .. NumArgReg + 1 /\ NumArgReg \in Nat /\ Len(sig) \in Nat
  BY Sizes, ArgAssumption DEF TypeOKArg, ArgAssumption
<1>2. ASSUME r = free PROVE FALSE
  <2>1. T[r] = <<Len(sig) + 1, 0>>
    BY <1>2 DEF Placed
  <2> QED
    BY <1>1, <2>1
<1> QED
  BY <1>1, <1>2

\* One register of the callee.
LEMMA StoreRegAgrees ==
    ASSUME ArgInv, WholeWords, Placed(Len(sig) + 1), Stored, StoreReg
    PROVE  Stored'
<1>1. TypeOKArg /\ pc = "store" /\ phy <= NumArgReg /\ next <= Len(sig)
  BY DEF ArgInv, StoreReg, StoreMore
<1>2. /\ sig' = sig /\ pc' = pc /\ reg' = reg /\ free' = free /\ T' = T /\ phy' = phy + 1
  BY DEF StoreReg, callerVars, T
<1>3. /\ phy \in 1 .. free /\ stored \in Nat /\ T[phy] = <<next, stored>>
      /\ home \in Seq(1 .. free - 1) /\ Len(home) * Word = Position(T[phy])
      /\ \A p \in 1 .. Len(home) : /\ reg[home[p]] = T[home[p]]
                                   /\ Position(T[home[p]]) = (p - 1) * Word
  BY <1>1 DEF Stored
<1>4. /\ free \in 1 .. NumArgReg + 1 /\ NumArgReg \in Nat /\ Len(sig) \in Nat
      /\ next \in 1 .. Len(sig) /\ sig[next].size \in Nat
  BY SMTT(30), <1>1, Sizes, ArgAssumption DEF TypeOKArg, ArgAssumption
<1>5. T[phy][1] = next /\ T[phy][2] = stored
  BY <1>3
<1>6. phy \in 1 .. free - 1
  BY <1>1, <1>3, <1>4, <1>5, TrailEnd
<1>7. /\ stored + Word <= sig[next].size
      /\ ~Dropped(phy) => reg[phy] = T[phy]
  BY <1>5, <1>6 DEF Placed
<1>8. T[phy + 1] = After(sig, T[phy], phy)
  <2>1. phy \in 1 .. NumArgReg
    BY <1>1, <1>3, <1>4
  <2> QED
    BY <2>1, TrailRule
<1>9. ~(next > Len(sig)) /\ phy + 1 \in 1 .. free
  BY <1>4, <1>6
<1>10. /\ Start(sig, next) \in Nat
       /\ Start(sig, next + 1) = Start(sig, next) + sig[next].size
  BY <1>1, <1>4, StartRule
<1>11. CASE stored = 0 /\ SkipHomeRegister(sig[next], phy)
  <2>1. home' = home /\ stored' = stored /\ next' = next
    BY <1>11 DEF StoreReg
  <2>2. T[phy + 1] = T[phy]
    BY <1>5, <1>8, <1>11 DEF After
  <2> QED
    BY <1>1, <1>2, <1>3, <1>9, <2>1, <2>2 DEF Stored, Position
<1>12. CASE ~(stored = 0 /\ SkipHomeRegister(sig[next], phy))
  <2>1. /\ home' = Append(home, phy)
        /\ IF stored + Word = sig[next].size THEN next' = next + 1 /\ stored' = 0
           ELSE next' = next /\ stored' = stored + Word
    BY <1>12 DEF StoreReg
  <2>2. T[phy + 1] = <<next', stored'>>
    BY <1>5, <1>8, <1>9, <1>12, <2>1 DEF After
  <2>3. stored' \in Nat
    BY <1>3, <2>1 DEF Word
  <2>4. /\ home' \in Seq(1 .. free - 1) /\ Len(home') = Len(home) + 1
        /\ Len(home) \in Nat
        /\ \A p \in 1 .. Len(home') : home'[p] = IF p = Len(home) + 1 THEN phy ELSE home[p]
    <3> DEFINE S == 1 .. free - 1
    <3>1. phy \in S /\ home \in Seq(S)
      BY <1>3, <1>6
    <3> HIDE DEF S
    <3>2. /\ Append(home, phy) \in Seq(S) /\ Len(Append(home, phy)) = Len(home) + 1
          /\ Len(home) \in Nat
          /\ \A p \in 1 .. Len(home) + 1 :
               Append(home, phy)[p] = IF p = Len(home) + 1 THEN phy ELSE home[p]
      BY <3>1
    <3> QED
      BY <2>1, <3>2 DEF S
  <2>5. Position(T[phy]) = Start(sig, next) + stored
    BY <1>5 DEF Position
  <2>6. Position(T[phy + 1]) = Position(T[phy]) + Word
    <3>1. T[phy + 1][1] = next' /\ T[phy + 1][2] = stored'
      BY <2>2
    <3>2. Start(sig, next') + stored' = Start(sig, next) + stored + Word
      <4>1. CASE stored + Word = sig[next].size
        <5>1. stored' = 0 /\ Start(sig, next') = Start(sig, next) + sig[next].size
          BY <1>10, <2>1, <4>1
        <5>2. Start(sig, next) \in Nat /\ stored \in Nat /\ sig[next].size \in Nat
          BY <1>3, <1>4, <1>10
        <5> QED
          BY <4>1, <5>1, <5>2 DEF Word
      <4>2. CASE stored + Word # sig[next].size
        <5>1. stored' = stored + Word /\ Start(sig, next') = Start(sig, next)
          BY <2>1, <4>2
        <5>2. Start(sig, next) \in Nat /\ stored \in Nat
          BY <1>3, <1>10
        <5> QED
          BY <5>1, <5>2 DEF Word
      <4> QED
        BY <4>1, <4>2
    <3> QED
      BY <2>5, <3>1, <3>2 DEF Position
  <2>7. Len(home') * Word = Position(T[phy + 1])
    BY <1>3, <2>4, <2>6 DEF Word
  <2>8. reg[phy] = T[phy]
    BY <1>5, <1>7, <1>12 DEF Dropped
  <2>9. ASSUME NEW p \in 1 .. Len(home')
        PROVE  /\ reg[home'[p]] = T[home'[p]]
               /\ Position(T[home'[p]]) = (p - 1) * Word
    <3>1. CASE p = Len(home) + 1
      <4>1. home'[p] = phy /\ p - 1 = Len(home)
        BY <2>4, <3>1
      <4> QED
        BY <1>3, <2>8, <4>1
    <3>2. CASE p # Len(home) + 1
      <4>1. home'[p] = home[p] /\ p \in 1 .. Len(home)
        BY <2>4, <3>2
      <4> QED
        BY <1>3, <4>1
    <3> QED
      BY <3>1, <3>2
  <2>10. \A c : Position(c)' = Position(c)
    BY <1>2 DEF Position
  <2> QED
    BY <1>1, <1>2, <1>9, <2>2, <2>3, <2>4, <2>7, <2>9 DEF Stored, Position
<1> QED
  BY <1>11, <1>12

\* Every step of the caller and of the callee stays on the trail.
LEMMA AgreeNext ==
    ArgInv /\ NoPadding /\ NoSkippedStruct /\ AgreeInv /\ [Next]_vars => AgreeInv'
<1> SUFFICES ASSUME ArgInv, NoPadding, NoSkippedStruct, AgreeInv, [Next]_vars, WholeWords'
             PROVE  /\ Placed(IF pc = "caller" THEN next ELSE Len(sig) + 1)'
                    /\ LaidOut' /\ Stored'
  BY DEF AgreeInv
<1>1. sig' = sig
  BY DEF Next, PassArg, ProcessRealParams, ComputeParamLayout, ReviseFormalParameter,
         StoreReg, StoreDone, vars
<1>2. WholeWords /\ TypeOKArg
  BY <1>1 DEF WholeWords, ArgInv
<1>3. /\ Placed(IF pc = "caller" THEN next ELSE Len(sig) + 1) /\ LaidOut /\ Stored
  BY <1>2 DEF AgreeInv
<1>4. /\ free \in 1 .. NumArgReg + 1 /\ NumArgReg \in Nat /\ Len(sig) \in Nat
      /\ next \in 1 .. Len(sig) + 1 /\ DOMAIN sig = 1 .. Len(sig)
  BY <1>2, Sizes, ArgAssumption DEF TypeOKArg, ArgAssumption
<1>5. CASE PassArg
  <2>1. pc = "caller" /\ pc' = "caller" /\ UNCHANGED calleeVars
    BY <1>5 DEF PassArg, calleeVars
  <2>2. Placed(next)'
    BY <1>2, <1>3, <1>5, <2>1, PassArgPlaces
  <2>3. LaidOut' /\ Stored'
    BY <1>1, <1>3, <2>1 DEF LaidOut, Stored, calleeVars
  <2> QED
    BY <2>1, <2>2, <2>3
<1>6. ASSUME UNCHANGED callerVars,
             pc # "caller" \/ next = Len(sig) + 1, pc' # "caller"
      PROVE  Placed(IF pc = "caller" THEN next ELSE Len(sig) + 1)'
  <2>1. Placed(Len(sig) + 1)
    BY <1>3, <1>6
  <2>2. /\ T' = T /\ free' = free /\ regsz' = regsz /\ stksz' = stksz /\ reg' = reg
        /\ stk' = stk
    BY <1>1, <1>6 DEF callerVars, T
  <2>3. Placed(Len(sig) + 1)'
    BY <1>1, <2>1, <2>2 DEF Placed, Position, Dropped
  <2> QED
    BY <1>6, <2>3
<1>7. CASE ProcessRealParams
  <2>1. /\ pc = "caller" /\ pc' = "layout" /\ next' = 1 /\ next = Len(sig) + 1
        /\ UNCHANGED callerVars /\ UNCHANGED calleeVars
    BY <1>7 DEF ProcessRealParams
  <2>2. Start(sig, 1) = 0
    BY <1>2, StartRule
  <2>3. LaidOut' /\ Stored'
    BY <1>1, <1>3, <2>1, <2>2 DEF LaidOut, Stored, calleeVars
  <2> QED
    BY <1>6, <2>1, <2>3
<1>8. CASE ComputeParamLayout
  <2>1. /\ pc = "layout" /\ pc' = "layout" /\ next' = next + 1 /\ next \in 1 .. Len(sig)
        /\ UNCHANGED callerVars /\ UNCHANGED <<phy, stored, home>>
        /\ ofst' = [ofst EXCEPT ![next] = sectsz]
        /\ sectsz' = sectsz + CeilAlign(sig[next].size, Word)
    BY <1>4, <1>8 DEF ComputeParamLayout
  <2>2. /\ CeilAlign(sig[next].size, Word) = sig[next].size
        /\ Start(sig, next) \in Nat
        /\ Start(sig, next + 1) = Start(sig, next) + sig[next].size
    BY <1>2, <1>4, <2>1, Sizes, StartRule, CeilWord
  <2>3. /\ ofst \in [1 .. Len(sig) -> Int] /\ sectsz = Start(sig, next)
        /\ \A i \in 1 .. next - 1 : ofst[i] = Start(sig, i)
    BY <1>3, <2>1 DEF LaidOut
  <2>4. ofst' \in [1 .. Len(sig) -> Int]
    BY <2>1, <2>2, <2>3
  <2>5. sectsz' = Start(sig, next')
    BY <2>1, <2>2, <2>3
  <2>6. \A i \in 1 .. next' - 1 : ofst'[i] = Start(sig, i)
    BY <1>4, <2>1, <2>3
  <2>7. LaidOut' /\ Stored'
    BY <1>1, <1>3, <2>1, <2>4, <2>5, <2>6 DEF LaidOut, Stored
  <2> QED
    BY <1>6, <2>1, <2>7
<1>9. CASE ReviseFormalParameter
  <2>1. /\ pc = "layout" /\ pc' = "store" /\ next = Len(sig) + 1 /\ next' = 1
        /\ UNCHANGED callerVars /\ UNCHANGED calleeVars
    BY <1>9 DEF ReviseFormalParameter
  <2>2. LaidOut'
    BY <1>1, <1>3, <1>4, <2>1 DEF LaidOut, calleeVars
  <2>3. T[1] = <<1, 0>> /\ T' = T /\ Start(sig, 1) = 0
    BY <1>1, <1>2, TrailRule, StartRule DEF T
  <2>4. /\ phy' = 1 /\ stored' = 0 /\ home' = <<>> /\ Len(home') = 0
        /\ home' \in Seq(1 .. free - 1) /\ free' = free /\ reg' = reg
    BY <1>3, <2>1 DEF Stored, calleeVars, callerVars
  <2>5. Position(T[1])' = 0
    BY <1>1, <2>3 DEF Position
  <2>6. Stored'
    BY <1>4, <2>1, <2>3, <2>4, <2>5 DEF Stored, Word
  <2> QED
    BY <1>6, <2>1, <2>2, <2>6
<1>10. CASE StoreReg
  <2>1. /\ pc = "store" /\ pc' = "store" /\ UNCHANGED callerVars /\ ofst' = ofst
    BY <1>10 DEF StoreReg
  <2>2. Placed(Len(sig) + 1)
    BY <1>3, <2>1
  <2>3. Stored'
    BY <1>2, <1>3, <1>10, <2>2, StoreRegAgrees
  <2>4. LaidOut'
    BY <1>1, <1>3, <2>1 DEF LaidOut
  <2> QED
    BY <1>6, <2>1, <2>3, <2>4
<1>11. CASE StoreDone
  <2>1. /\ pc = "store" /\ pc' = "done" /\ UNCHANGED callerVars /\ UNCHANGED calleeVars
        /\ next' = next /\ ~StoreMore
    BY <1>11 DEF StoreDone
  <2>2. LaidOut'
    BY <1>1, <1>3, <2>1 DEF LaidOut, calleeVars
  <2>3. Stored'
    BY <1>1, <1>3, <2>1
       DEF Stored, calleeVars, callerVars, StoreMore, T, Position
  <2> QED
    BY <1>6, <2>1, <2>2, <2>3
<1>12. CASE UNCHANGED vars
  <2>1. /\ pc' = pc /\ next' = next /\ UNCHANGED callerVars /\ UNCHANGED calleeVars
    BY <1>12 DEF vars, callerVars, calleeVars
  <2>2. LaidOut'
    BY <1>1, <1>3, <2>1 DEF LaidOut, calleeVars
  <2>3. Stored'
    BY <1>1, <1>3, <2>1
       DEF Stored, calleeVars, callerVars, StoreMore, T, Position
  <2>4. Placed(IF pc = "caller" THEN next ELSE Len(sig) + 1)'
    BY <1>1, <1>3, <2>1 DEF Placed, callerVars, T, Position, Dropped
  <2> QED
    BY <2>2, <2>3, <2>4
<1> QED
  BY <1>5, <1>7, <1>8, <1>9, <1>10, <1>11, <1>12 DEF Next

\* The callee has stored every register the caller filled.
LEMMA AllStored ==
    ASSUME ArgInv, AgreeInv, WholeWords, pc = "done"
    PROVE  Len(home) * Word = regsz
<1>1. /\ Placed(Len(sig) + 1) /\ Stored /\ TypeOKArg
  BY DEF AgreeInv, ArgInv
<1>2. /\ phy \in 1 .. free /\ T[phy] = <<next, stored>>
      /\ Len(home) * Word = Position(T[phy]) /\ ~StoreMore
  BY <1>1 DEF Stored
<1>3. /\ free \in 1 .. NumArgReg + 1 /\ NumArgReg \in Nat /\ Len(sig) \in Nat
      /\ next \in 1 .. Len(sig) + 1
  BY <1>1, Sizes, ArgAssumption DEF TypeOKArg, ArgAssumption
<1>4. phy = free
  <2>1. SUFFICES ASSUME phy \in 1 .. free - 1 PROVE FALSE
    BY <1>2, <1>3
  <2>2. T[phy][1] = next /\ T[phy][1] \in 1 .. Len(sig)
    BY <1>1, <1>2, <2>1 DEF Placed
  <2> QED
    BY <1>2, <1>3, <2>1, <2>2 DEF StoreMore
<1> QED
  BY <1>1, <1>2, <1>4 DEF Placed

\* The word and the byte of an offset.
LEMMA WordOf ==
    ASSUME NEW o \in Nat
    PROVE  /\ o % Word \in 0 .. Word - 1 /\ o \div Word \in Nat
           /\ (o \div Word) * Word + (o % Word) = o
<1>1. o % 4 \in 0 .. 3 /\ o \div 4 \in Nat
  OBVIOUS
<1>2. (o \div 4) * 4 + (o % 4) = o
  OBVIOUS
<1> QED
  BY <1>1, <1>2 DEF Word

\* Two sides on one trail find the same bytes.
LEMMA AgreeIsEnough == ArgInv /\ AgreeInv => (WholeWords => EveryByteArrives)
<1> SUFFICES ASSUME ArgInv, AgreeInv, WholeWords, pc = "done",
                    NEW i \in DOMAIN sig, NEW b \in 0 .. sig[i].size - 1
             PROVE  ParamByte(ofst[i] + b) = <<i, b>>
  BY DEF EveryByteArrives
<1>1. Placed(Len(sig) + 1) /\ LaidOut /\ Stored /\ TypeOKArg
  BY DEF AgreeInv, ArgInv
<1>2. /\ i \in 1 .. Len(sig) /\ Len(sig) \in Nat /\ Start(sig, i) \in Nat
      /\ sig[i].size \in Nat /\ b \in Nat
  BY <1>1, Sizes, StartRule
<1>3. ofst[i] = Start(sig, i)
  BY <1>1, <1>2 DEF LaidOut
<1>4. Len(home) * Word = regsz
  BY AllStored
<1> DEFINE o == Start(sig, i) + b
<1>5. o \in Nat /\ regsz \in Nat
  BY <1>1, <1>2 DEF TypeOKArg
<1>6. CASE o < regsz
  <2> DEFINE p == o \div Word + 1
             r == home[p]
             c == T[r]
  <2>1. home \in Seq(1 .. free - 1)
    BY <1>1 DEF Stored
  <2>2. p \in 1 .. Len(home) /\ (p - 1) * Word + (o % Word) = o /\ o % Word \in 0 .. Word - 1
    <3>1. Len(home) \in Nat
      BY <2>1
    <3>2. /\ o % Word \in 0 .. Word - 1 /\ o \div Word \in Nat
          /\ (o \div Word) * Word + (o % Word) = o
      BY <1>5, WordOf
    <3> DEFINE q == o \div Word
               e == o % Word
    <3> HIDE DEF q, e, o
    <3>3. q < Len(home)
      BY <1>4, <1>5, <1>6, <3>1, <3>2 DEF q, e, Word
    <3>4. p \in 1 .. Len(home) /\ p - 1 = q
      BY <3>1, <3>2, <3>3 DEF q
    <3> QED
      BY <3>2, <3>4 DEF q, e
  <2>3. r \in 1 .. free - 1
    <3> DEFINE S == 1 .. free - 1
    <3> HIDE DEF S, p
    <3>1. home \in Seq(S)
      BY <2>1 DEF S
    <3>2. home[p] \in S
      BY <2>2, <3>1
    <3> QED
      BY <3>2 DEF S
  <2>4. reg[r] = c /\ Position(c) = (p - 1) * Word
    BY <1>1, <2>2 DEF Stored
  <2>5. c[1] \in 1 .. Len(sig) /\ c[2] \in Nat /\ c[2] + Word <= sig[c[1]].size
    BY <1>1, <2>3 DEF Placed
  <2>6. ParamByte(o) = <<c[1], c[2] + (o % Word)>>
    <3> HIDE DEF c, o
    <3> QED
      BY <1>4, <1>6, <2>4 DEF ParamByte
  <2> DEFINE d == c[2] + (o % Word)
  <2>7. d \in 0 .. sig[c[1]].size - 1 /\ Start(sig, c[1]) + d = o
    <3>1. sig[c[1]].size \in Nat /\ Start(sig, c[1]) \in Nat
      <4> HIDE DEF c
      <4>1. TypeOKArg /\ WholeWords
        BY <1>1
      <4>2. /\ \A j \in 1 .. Len(sig) : sig[j].size \in Nat
            /\ \A j \in 1 .. Len(sig) + 1 : Start(sig, j) \in Nat /\ Len(sig) \in Nat
        BY <4>1, Sizes, StartRule
      <4>3. Len(sig) \in Nat /\ 1 .. Len(sig) \subseteq 1 .. Len(sig) + 1
        BY <4>1, Sizes
      <4> QED
        BY <2>5, <4>2, <4>3
    <3>2. Start(sig, c[1]) + c[2] = (p - 1) * Word /\ (p - 1) * Word \in Nat
      BY <2>2, <2>4 DEF Position, Word
    <3> DEFINE e == o % Word
               q == (p - 1) * Word
               x == Start(sig, c[1])
               y == c[2]
               z == sig[c[1]].size
    <3>3. e \in 0 .. Word - 1 /\ q + e = o
      BY <2>2
    <3>4. /\ q \in Nat /\ x + y = q /\ x \in Nat /\ y \in Nat /\ z \in Nat
          /\ y + Word <= z /\ d = y + e
      BY <2>5, <3>1, <3>2
    <3> HIDE DEF o, q, x, y, z, e, d
    <3>5. d \in 0 .. z - 1 /\ x + d = o
      BY <1>5, <3>3, <3>4 DEF Word
    <3> QED
      BY <3>5 DEF x, z
  <2>8. i = c[1] /\ b = d
    <3> HIDE DEF c, d
    <3> QED
      BY <1>1, <1>2, <2>5, <2>7, PositionsDiffer
  <2> QED
    BY <1>3, <2>6, <2>8
<1>7. CASE ~(o < regsz)
  <2>1. o - regsz \in DOMAIN stk /\ stk[o - regsz] = <<i, b>>
    <3>1. o >= regsz /\ (Len(sig) + 1) - 1 = Len(sig)
      BY <1>2, <1>5, <1>7
    <3>2. \A j \in 1 .. Len(sig) : \A d \in 0 .. sig[j].size - 1 :
            Start(sig, j) + d >= regsz
              => /\ Start(sig, j) + d - regsz \in DOMAIN stk
                 /\ stk[Start(sig, j) + d - regsz] = <<j, d>>
      BY <1>1, <3>1 DEF Placed
    <3>3. i \in 1 .. Len(sig) /\ b \in 0 .. sig[i].size - 1
      BY <1>2
    <3> DEFINE there(d) == Start(sig, i) + d >= regsz
                             => /\ Start(sig, i) + d - regsz \in DOMAIN stk
                                /\ stk[Start(sig, i) + d - regsz] = <<i, d>>
    <3>4. \A d \in 0 .. sig[i].size - 1 : there(d)
      BY <3>2, <3>3
    <3>5. there(b)
      <4> HIDE DEF there
      <4> QED
        BY <3>3, <3>4
    <3>6. Start(sig, i) + b - regsz = o - regsz
      BY <1>2, <1>5
    <3>7. Start(sig, i) + b >= regsz
      BY <3>1
    <3> QED
      BY <3>5, <3>6, <3>7
  <2> HIDE DEF o
  <2>2. ParamByte(o) = <<i, b>>
    BY <1>4, <1>7, <2>1 DEF ParamByte
  <2> QED
    BY <1>3, <2>2 DEF o
<1> QED
  BY <1>6, <1>7

\* For every signature of whole words below 2 ^ 30 bytes whose arguments need no
\* padding on the stack and have no struct of two words at an odd register or
\* at the last one: every byte of every argument the caller placed (CG::passArg)
\* is where the callee looks for it after it has stored its argument registers
\* (CG::storeRegSetToStack).  Of the two hypotheses neither can be dropped.
THEOREM ArgumentsArrive ==
    Spec /\ []NoPadding /\ []NoSkippedStruct => [](WholeWords => EveryByteArrives)
<1>1. Spec /\ []NoPadding /\ []NoSkippedStruct => []AgreeInv
  BY AgreeInit, AgreeNext, ArgInvariant, PTL DEF Spec
<1> QED
  BY <1>1, AgreeIsEnough, ArgInvariant, PTL

-----------------------------------------------------------------------------
\* Two kinds of signatures for which nothing is padded or skipped: no parameter
\* has two words or more, or every one is a number of pairs of words.
OneWordEach == \A i \in DOMAIN sig : sig[i].size < Pair
PairsOnly == \A i \in DOMAIN sig : sig[i].size % Pair = 0

Even ==
    WholeWords /\ PairsOnly => IsEvenReg(free) /\ stksz % Pair = 0

\* Initially the first pair is free.
LEMMA EvenInit == Init => Even
  BY DEF Init, Even, IsEvenReg, Pair, Word

\* Pairs leave an even register and whole pairs on the stack.
LEMMA EvenNext == ArgInv /\ Even /\ [Next]_vars => Even'
<1> SUFFICES ASSUME ArgInv, Even, [Next]_vars, WholeWords', PairsOnly'
             PROVE  IsEvenReg(free') /\ stksz' % Pair = 0
  BY DEF Even
<1>1. sig' = sig
  BY DEF Next, PassArg, ProcessRealParams, ComputeParamLayout, ReviseFormalParameter,
         StoreReg, StoreDone, vars
<1>2. WholeWords /\ PairsOnly /\ TypeOKArg
  BY <1>1 DEF WholeWords, PairsOnly, ArgInv
<1>3. IsEvenReg(free) /\ stksz % Pair = 0
  BY <1>2 DEF Even
<1>4. CASE PassArg
  <2>1. PICK f, k, src, n, tgt, c : Shaped(f, k, src, n, tgt, c)
    BY <1>2, <1>4, PassArgShape
  <2> DEFINE size == sig[next].size
  <2>2. next \in 1 .. Len(sig) /\ next \in DOMAIN sig /\ Len(sig) \in Nat
    BY <1>2, <1>4, Sizes DEF TypeOKArg, PassArg
  <2>3. /\ size \in Nat \ {0} /\ size % Pair = 0 /\ size % Word = 0
    BY <1>2, <2>2, Sizes DEF PairsOnly
  <2>4. /\ free \in 1 .. NumArgReg + 1 /\ NumArgReg \in Nat /\ NumArgReg % 2 = 0
        /\ stksz \in Nat
    BY <1>2, ArgAssumption DEF TypeOKArg, ArgAssumption
  <2>5. f = free
    <3>1. f = SkipArgRegister(size)
      BY <2>1 DEF Shaped, Fits
    <3> QED
      BY <1>3, <2>4, <3>1 DEF SkipArgRegister, Avail, IsEvenReg
  <2>6. /\ k \in Nat /\ k * Word <= size /\ c = size - k * Word
        /\ k * Word = size \/ f + k = NumArgReg + 1
        /\ free' = f + k /\ stksz' = stksz + c
    BY <2>1, <2>3 DEF Shaped, Fits, Exact, Passed
  <2> HIDE DEF size
  <2>7. k % 2 = 0
    BY <1>3, <2>3, <2>4, <2>5, <2>6 DEF Pair, Word, IsEvenReg
  <2>8. c \in Nat /\ c % 8 = 0
    BY <2>3, <2>6, <2>7 DEF Pair, Word
  <2>9. IsEvenReg(free')
    BY <1>3, <2>4, <2>5, <2>6, <2>7 DEF IsEvenReg
  <2>10. stksz' % Pair = 0
    BY <1>3, <2>4, <2>6, <2>8 DEF Pair, Word
  <2> QED
    BY <2>9, <2>10
<1>5. CASE UNCHANGED callerVars
  BY <1>3, <1>5 DEF callerVars
<1> QED
  BY <1>4, <1>5 DEF Next, ProcessRealParams, ComputeParamLayout, ReviseFormalParameter,
                    StoreReg, StoreDone, vars, callerVars

\* In neither kind of signature is an argument padded or a register skipped.
LEMMA NotPadded ==
    ArgInv /\ Even /\ WholeWords /\ (OneWordEach \/ PairsOnly)
        => NoPadding /\ NoSkippedStruct
<1> SUFFICES ASSUME ArgInv, Even, WholeWords, OneWordEach \/ PairsOnly,
                    pc = "caller", next <= Len(sig)
             PROVE  /\ CeilAlign(stksz, ComputeArgAlign(sig[next].size)) = stksz
                    /\ SkipArgRegister(sig[next].size) = free
  BY DEF NoPadding, NoSkippedStruct
<1>1. /\ TypeOKArg /\ stksz \in Nat /\ stksz % Word = 0 /\ next \in 1 .. Len(sig)
      /\ next \in DOMAIN sig /\ sig[next].size \in Nat
      /\ free \in 1 .. NumArgReg + 1 /\ NumArgReg \in Nat /\ NumArgReg % 2 = 0
  <2>1. TypeOKArg
    BY DEF ArgInv
  <2>2. /\ stksz \in Nat /\ stksz % Word = 0 /\ next \in 1 .. Len(sig)
        /\ free \in 1 .. NumArgReg + 1
    BY <2>1, Sizes DEF TypeOKArg
  <2>3. next \in DOMAIN sig /\ sig[next].size \in Nat
    BY <2>1, <2>2, Sizes
  <2> QED
    BY <2>1, <2>2, <2>3, ArgAssumption DEF ArgAssumption
<1>2. CeilAlign(stksz, Word) = stksz
  BY <1>1, CeilWord
<1>3. CASE OneWordEach
  BY <1>1, <1>2, <1>3 DEF OneWordEach, ComputeArgAlign, SkipArgRegister, Pair, Word
<1>4. CASE PairsOnly
  <2>1. stksz % Pair = 0 /\ IsEvenReg(free)
    BY <1>4 DEF Even
  <2>2. CeilAlign(stksz, Pair) = stksz
    BY <1>1, <2>1 DEF CeilAlign, Pair, Word
  <2>3. SkipArgRegister(sig[next].size) = free
    BY <1>1, <2>1 DEF SkipArgRegister, Avail, IsEvenReg
  <2> QED
    BY <1>2, <2>2, <2>3 DEF ComputeArgAlign
<1> QED
  BY <1>3, <1>4

\* The same without a hypothesis on the run: every byte of every argument arrives
\* when all arguments are single words, or all are pairs of words.
THEOREM UnpaddedArgumentsArrive ==
    Spec => [](WholeWords /\ (OneWordEach \/ PairsOnly) => EveryByteArrives)
<1> DEFINE Sure == WholeWords /\ (OneWordEach \/ PairsOnly)
           I == Sure => AgreeInv
<1>1. Init => I
  BY AgreeInit
<1>2. ArgInv /\ Even /\ I /\ [Next]_vars => I'
  <2> SUFFICES ASSUME ArgInv, Even, I, [Next]_vars, Sure' PROVE AgreeInv'
    OBVIOUS
  <2>1. sig' = sig
    BY DEF Next, PassArg, ProcessRealParams, ComputeParamLayout, ReviseFormalParameter,
           StoreReg, StoreDone, vars
  <2>2. Sure
    BY <2>1 DEF WholeWords, OneWordEach, PairsOnly
  <2> QED
    BY <2>2, NotPadded, AgreeNext
<1>3. Spec => []Even
  BY EvenInit, EvenNext, ArgInvariant, PTL DEF Spec
<1>4. Spec => []I
  <2> HIDE DEF I
  <2> QED
    BY <1>1, <1>2, <1>3, ArgInvariant, PTL DEF Spec
<1>5. ArgInv /\ I => (Sure => EveryByteArrives)
  BY AgreeIsEnough
<1> QED
  BY <1>4, <1>5, ArgInvariant, PTL
=============================================================================
