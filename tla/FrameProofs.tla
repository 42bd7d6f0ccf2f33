---------------------------- MODULE FrameProofs ----------------------------
(***************************************************************************)
(* Proofs that the frame laid out by the passes of CG::perform holds every *)
(* variable, for all functions: any sizes, any calls, any order of the     *)
(* first references.                                                       *)
(*                                                                         *)
(* The argument: the stack section only grows, by whole words, so a        *)
(* variable ends where the next may start (Packed); the argument area      *)
(* covers every call already converted, and all are converted before a     *)
(* frame size is taken (Covered); the sizes taken then stay true because   *)
(* no later pass allocates (Laid); the body moves SP down only, and the    *)
(* base of the variables is where SP was (Running).                        *)
(***************************************************************************)
EXTENDS Frame, TLAPS, WellFoundedInduction

Passes == {"param", "evaluate", "convert", "ra", "relocate", "body", "returned"}
Sized == pc \in {"relocate", "body", "returned"}

Types ==
    /\ unit \in Units /\ pc \in Passes /\ todo \subseteq unit.calls
    /\ maxarg \in Nat /\ sect \in Nat /\ psect \in Nat /\ frame \in Int /\ start \in Int
    /\ DOMAIN vd \subseteq InMemory /\ vd \in [DOMAIN vd -> Nat]
    /\ DOMAIN place \subseteq InMemory /\ place \in [DOMAIN place -> Nat]
    /\ pofst \in Seq(Nat)
    /\ sp \in Int /\ fp \in Int

\* The areas are whole words and every variable placed ends inside the section.
Packed ==
    /\ maxarg % Word = 0 /\ sect % Word = 0 /\ psect % Word = 0
    /\ \A v \in DOMAIN vd : vd[v] + unit.size[v] <= sect
    /\ VariablesDisjoint

\* The argument area holds the section of every call converted.
Covered ==
    /\ pc \notin {"param", "evaluate"} =>
          \A c \in unit.calls : c \in todo \/ c.sect <= maxarg
    /\ pc = "ra" \/ Sized => todo = {}

\* The frame was sized after the last variable and the last call.
Laid ==
    /\ Sized => /\ DOMAIN vd = InMemory
                /\ maxarg + sect <= start
                /\ frame % SpAlign = 0 /\ start + RegBytes = frame
    /\ \A v \in DOMAIN place : place[v] = maxarg + vd[v]
    /\ ~Sized => DOMAIN place = {}
    /\ LaidOut => DOMAIN place = InMemory

\* SP starts at 0, lies at or below the frame in the body, and is 0 again.
Running ==
    /\ ~LaidOut => sp = 0 /\ block = {} /\ out = {}
    /\ pc = "body" =>
          /\ BaseReg = -frame /\ sp <= -frame
          /\ \A x \in block : x \in Int /\ x < -frame
          /\ \A x \in out : x \in Int /\ \A v \in InMemory : x < place[v] - frame
          /\ ~UseFP => block = {}
    /\ pc = "returned" => sp = 0

Inv == Types /\ Packed /\ Covered /\ Laid /\ Running

-----------------------------------------------------------------------------
\* Rounding up to a word gives a multiple of it, less than a word above.
LEMMA CeilWord ==
    ASSUME NEW n \in Nat
    PROVE  /\ CeilAlign(n, Word) \in Nat /\ CeilAlign(n, Word) % Word = 0
           /\ n <= CeilAlign(n, Word) /\ CeilAlign(n, Word) < n + Word
           /\ n % Word = 0 => CeilAlign(n, Word) = n
BY DEF CeilAlign, Word

\* The same for the alignment of SP.
LEMMA CeilSp ==
    ASSUME NEW n \in Nat
    PROVE  /\ CeilAlign(n, SpAlign) \in Nat /\ CeilAlign(n, SpAlign) % SpAlign = 0
           /\ n <= CeilAlign(n, SpAlign) /\ CeilAlign(n, SpAlign) < n + SpAlign
BY DEF CeilAlign, SpAlign

\* Sums of whole words, and of multiples of the alignment of SP.
LEMMA SumWord ==
    ASSUME NEW m \in Nat, NEW n \in Nat, m % Word = 0, n % Word = 0
    PROVE  (m + n) \in Nat /\ (m + n) % Word = 0 /\ m <= m + n
BY DEF Word

LEMMA SumSp ==
    ASSUME NEW m \in Nat, NEW n \in Nat, m % SpAlign = 0, n % SpAlign = 0
    PROVE  (m + n) % SpAlign = 0
BY DEF SpAlign

\* What is assumed of the function at hand.
LEMMA UnitFacts ==
    ASSUME Types
    PROVE  /\ \A v \in InMemory : unit.size[v] \in Nat
           /\ Len(unit.formal) \in Nat
           /\ \A i \in 1 .. Len(unit.formal) : unit.formal[i].size \in Nat
           /\ \A c \in unit.calls : /\ c.early \in Nat /\ c.sect \in Nat
                                     /\ c.stk \in Nat /\ c.stk <= c.sect
           /\ AllocaSizes \subseteq Nat /\ NumArgReg \in Nat
<1>1. UnitOK(unit)
  BY FrameAssumption DEF Types
<1>2. /\ Len(unit.formal) \in Nat
      /\ \A i \in 1 .. Len(unit.formal) : unit.formal[i].size \in Nat
  <2> DEFINE Formal == [size : Nat, mc : BOOLEAN]
  <2>1. unit.formal \in Seq(Formal)
    BY <1>1 DEF UnitOK
  <2>2. \A p \in Formal : p.size \in Nat
    OBVIOUS
  <2> HIDE DEF Formal
  <2> QED
    BY <2>1, <2>2
<1> QED
  BY <1>1, <1>2, FrameAssumption DEF UnitOK, InMemory

\* The outgoing area only grows, and covers the size asked for.
LEMMA CalleeArea ==
    ASSUME NEW m \in Nat, NEW sz \in Nat
    PROVE  LET a == UpdateMaxCalleeArgSize(m, sz)
           IN  a \in Nat /\ a % Word = 0 /\ m <= a /\ sz <= a
BY CeilWord DEF UpdateMaxCalleeArgSize

\* A nonempty set of numbers has a least one: induction without a predicate.
LEMMA LeastNatural ==
    ASSUME NEW S \in SUBSET Nat, S # {} PROVE \E i \in S : \A j \in S : i <= j
<1>1. PICK i \in S : \A j \in S : ~(<<j, i>> \in OpToRel(<, Nat))
  BY NatLessThanWellFounded, WFMin
<1>2. \A j \in S : ~(j < i)
  BY <1>1 DEF OpToRel
<1> QED
  BY <1>2

\* The walk over the argument registers, up to register n.
Walked == [param : Nat, passed : Nat, size : Nat]
Walks(f, formal, n) ==
    f = [r \in 0 .. n |-> IF r = 0 THEN [param |-> 1, passed |-> 0, size |-> 0]
                          ELSE WalkRegister(formal, f[r - 1], r)]

LEMMA WalkStep ==
    ASSUME NEW formal, NEW s \in Walked, NEW r
    PROVE  WalkRegister(formal, s, r) \in Walked
<1>1. /\ s.param \in Nat /\ s.passed \in Nat
      /\ s.param + 1 \in Nat /\ s.passed + Word \in Nat /\ s.size + Word \in Nat
  BY DEF Walked, Word
<1>2. \A p, q \in Nat : [param |-> p, passed |-> q, size |-> s.size + Word] \in Walked
  BY <1>1 DEF Walked
<1> QED
  BY <1>1, <1>2 DEF WalkRegister

\* There is one, and it counts in numbers.
LEMMA WalkExists ==
    ASSUME NEW formal, NEW N \in Nat
    PROVE  \A n \in 0 .. N : \E f \in [0 .. n -> Walked] : Walks(f, formal, n)
<1> DEFINE bad == {n \in 0 .. N : ~\E f \in [0 .. n -> Walked] : Walks(f, formal, n)}
<1>1. SUFFICES ASSUME bad # {} PROVE FALSE
  OBVIOUS
<1>2. PICK n \in bad : \A m \in bad : n <= m
  <2>1. bad \in SUBSET Nat
    OBVIOUS
  <2> HIDE DEF bad
  <2> QED
    BY <1>1, <2>1, LeastNatural
<1> DEFINE first == [param |-> 1, passed |-> 0, size |-> 0]
<1>3. first \in Walked
  BY DEF Walked
<1> HIDE DEF first
<1>4. n # 0
  <2> SUFFICES \E f \in [0 .. 0 -> Walked] : Walks(f, formal, 0)
    BY <1>2
  <2> DEFINE z == [m \in 0 .. 0 |-> first]
  <2>1. z \in [0 .. 0 -> Walked]
    BY <1>3
  <2>2. z = [m \in 0 .. 0 |-> IF m = 0 THEN first
                               ELSE WalkRegister(formal, z[m - 1], m)]
    OBVIOUS
  <2> HIDE DEF z
  <2>3. Walks(z, formal, 0)
    BY <2>2 DEF Walks, first
  <2> QED
    BY <2>1, <2>3
<1>5. n \in 1 .. N /\ n - 1 \in 0 .. N /\ n - 1 \notin bad
  <2>1. n \in 1 .. N /\ n - 1 \in 0 .. N
    BY <1>2, <1>4
  <2>2. ~(n <= n - 1)
    BY <2>1
  <2> HIDE DEF bad
  <2> QED
    BY <1>2, <2>1, <2>2
<1>6. PICK f \in [0 .. n - 1 -> Walked] : Walks(f, formal, n - 1)
  BY <1>5
<1> DEFINE g == [m \in 0 .. n |-> IF m = n THEN WalkRegister(formal, f[n - 1], n) ELSE f[m]]
<1>7. g \in [0 .. n -> Walked]
  <2>1. \A m \in 0 .. n : m # n => f[m] \in Walked
    BY <1>5, <1>6
  <2>2. WalkRegister(formal, f[n - 1], n) \in Walked
    BY <1>5, <1>6, WalkStep
  <2> QED
    BY <2>1, <2>2
<1>8. Walks(g, formal, n)
  <2>1. \A m \in 0 .. n - 1 : g[m] = f[m]
    BY <1>5
  <2>2. \A m \in 0 .. n - 1 : f[m] = IF m = 0 THEN first
                                      ELSE WalkRegister(formal, f[m - 1], m)
    BY <1>6 DEF Walks, first
  <2>3. g[n] = WalkRegister(formal, g[n - 1], n)
    BY <1>5, <2>1
  <2>4. \A m \in 0 .. n : g[m] = IF m = 0 THEN first
                                  ELSE WalkRegister(formal, g[m - 1], m)
    BY <1>5, <2>1, <2>2, <2>3
  <2>5. g = [m \in 0 .. n |-> g[m]]
    OBVIOUS
  <2> HIDE DEF g
  <2> QED
    BY <2>4, <2>5 DEF Walks, first
<1> QED
  BY <1>2, <1>7, <1>8

LEMMA WalkNatural ==
    ASSUME NEW formal, NEW N \in Nat, NEW f, Walks(f, formal, N)
    PROVE  \A n \in 0 .. N : f[n] \in Walked
<1> DEFINE bad == {n \in 0 .. N : f[n] \notin Walked}
<1>1. SUFFICES ASSUME bad # {} PROVE FALSE
  OBVIOUS
<1>2. PICK n \in bad : \A m \in bad : n <= m
  <2>1. bad \in SUBSET Nat
    OBVIOUS
  <2> HIDE DEF bad
  <2> QED
    BY <1>1, <2>1, LeastNatural
<1>3. f[n] = IF n = 0 THEN [param |-> 1, passed |-> 0, size |-> 0]
             ELSE WalkRegister(formal, f[n - 1], n)
  BY <1>2 DEF Walks
<1>4. n # 0
  BY <1>2, <1>3 DEF Walked
<1>5. n - 1 \in 0 .. N /\ ~(n <= n - 1)
  BY <1>2, <1>4
<1>6. f[n - 1] \in Walked
  <2>1. n - 1 \notin bad
    <3> HIDE DEF bad
    <3> QED
      BY <1>2, <1>5
  <2> QED
    BY <1>5, <2>1
<1>7. f[n] \in Walked
  <2>1. f[n] = WalkRegister(formal, f[n - 1], n)
    BY <1>3, <1>4
  <2> QED
    BY <1>6, <2>1, WalkStep
<1> QED
  BY <1>2, <1>7

LEMMA RegBytesType ==
    ASSUME Types PROVE RegBytes \in Nat
<1>1. NumArgReg \in Nat
  BY UnitFacts
<1> DEFINE f == CHOOSE f : Walks(f, unit.formal, NumArgReg)
<1>2. Walks(f, unit.formal, NumArgReg)
  <2>1. \E g : Walks(g, unit.formal, NumArgReg)
    <3>1. NumArgReg \in 0 .. NumArgReg
      BY <1>1
    <3> QED
      BY <1>1, <3>1, WalkExists
  <2> QED
    BY <2>1
<1>3. f[NumArgReg] \in Walked
  BY <1>1, <1>2, WalkNatural
<1> QED
  BY <1>3 DEF RegBytes, SizeViaRegister, Walks, Walked

-----------------------------------------------------------------------------
\* No variable has a place and nothing ran.
LEMMA InitInv == Init => Inv
<1> SUFFICES ASSUME Init PROVE Inv
  OBVIOUS
<1>1. Types
  BY FrameAssumption DEF Init, Types, Passes, InMemory
<1>2. Packed
  BY DEF Init, Packed, VariablesDisjoint, Word
<1>3. Covered /\ Laid /\ Running
  BY DEF Init, Covered, Laid, Running, Sized, LaidOut
<1> QED
  BY <1>1, <1>2, <1>3 DEF Inv

\* A new variable starts where the section ends, which is a whole word, so it
\* is above every other one.
LEMMA AllocateInv ==
    ASSUME Inv, NEW v \in InMemory, ComputeStackVarLayout(v)
    PROVE  Inv'
<1> USE DEF Inv
<1>1. /\ pc \in {"convert", "ra"} /\ v \notin DOMAIN vd /\ DOMAIN vd' = DOMAIN vd \cup {v}
      /\ vd'[v] = sect /\ \A w \in DOMAIN vd : vd'[w] = vd[w]
  BY CeilWord DEF ComputeStackVarLayout, Allocate, Types, Packed
<1>2. sect' \in Nat /\ sect' % Word = 0 /\ sect + unit.size[v] <= sect'
  <2>1. unit.size[v] \in Nat
    BY UnitFacts
  <2>2. sect' = sect + CeilAlign(unit.size[v], Word)
    BY DEF ComputeStackVarLayout, Allocate
  <2>3. sect \in Nat /\ sect % Word = 0
    BY DEF Types, Packed
  <2>4. /\ CeilAlign(unit.size[v], Word) \in Nat /\ CeilAlign(unit.size[v], Word) % Word = 0
        /\ unit.size[v] <= CeilAlign(unit.size[v], Word)
    BY <2>1, CeilWord
  <2>5. sect' \in Nat /\ sect' % Word = 0
    BY <2>2, <2>3, <2>4, SumWord
  <2> QED
    BY <2>1, <2>2, <2>3, <2>4, <2>5
<1>3. UNCHANGED <<unit, pc, todo, maxarg, pofst, psect, frame, start, place, runVars>>
  BY DEF ComputeStackVarLayout
<1>4. Types'
  <2>1. vd' \in [DOMAIN vd' -> Nat]
    BY <1>1, CeilWord DEF ComputeStackVarLayout, Allocate, Types
  <2> QED
    BY <1>1, <1>2, <1>3, <2>1 DEF Types, InMemory, runVars
<1>5. \A w \in DOMAIN vd' : vd'[w] + unit'.size[w] <= sect'
  <2> SUFFICES ASSUME NEW w \in DOMAIN vd' PROVE vd'[w] + unit.size[w] <= sect'
    BY <1>3
  <2>1. CASE w = v
    BY <2>1, <1>1, <1>2
  <2>2. CASE w \in DOMAIN vd
    <3>1. vd[w] + unit.size[w] <= sect /\ vd[w] \in Nat /\ unit.size[w] \in Nat /\ sect <= sect'
      <4>1. unit.size[w] \in Nat /\ unit.size[v] \in Nat /\ sect \in Nat
        BY <2>2, UnitFacts DEF Types
      <4>2. vd[w] + unit.size[w] <= sect /\ vd[w] \in Nat
        BY <2>2 DEF Packed, Types
      <4>3. sect <= sect'
        BY <1>2, <4>1
      <4> QED
        BY <4>1, <4>2, <4>3
    <3>2. vd'[w] = vd[w]
      BY <1>1, <2>2
    <3>3. sect \in Nat /\ sect' \in Nat
      BY <1>2 DEF Types
    <3> QED
      BY <3>1, <3>2, <3>3
  <2> QED
    BY <1>1, <2>1, <2>2
<1>6. VariablesDisjoint'
  <2> SUFFICES ASSUME NEW w \in DOMAIN vd', NEW x \in DOMAIN vd', w # x
               PROVE  vd'[w] + unit.size[w] <= vd'[x] \/ vd'[x] + unit.size[x] <= vd'[w]
    BY <1>3 DEF VariablesDisjoint
  <2>1. CASE w \in DOMAIN vd /\ x \in DOMAIN vd
    BY <2>1, <1>1 DEF Packed, VariablesDisjoint
  <2>2. CASE w = v
    BY <2>2, <1>1 DEF Packed
  <2>3. CASE x = v
    BY <2>3, <1>1 DEF Packed
  <2> QED
    BY <1>1, <2>1, <2>2, <2>3
<1>7. Packed'
  BY <1>2, <1>3, <1>5, <1>6 DEF Packed
<1>8. Covered' /\ Running'
  BY <1>3, <1>1 DEF Covered, Running, Sized, LaidOut, BaseReg, UseFP, InMemory, runVars
<1>9. Laid'
  BY <1>3, <1>1 DEF Laid, Sized, LaidOut, InMemory, RegBytes
<1> QED
  BY <1>4, <1>7, <1>8, <1>9

\* A call converted late may widen the area; the variables keep their offsets in
\* the section, and none has a final place yet.
LEMMA CallSizeInv ==
    ASSUME Inv, NEW c \in unit.calls, EvaluateCallArgSize(c) \/ ConvertCall(c)
    PROVE  Inv'
<1> USE DEF Inv
<1>1. PICK sz \in Nat : /\ maxarg' = UpdateMaxCalleeArgSize(maxarg, sz)
                        /\ pc = "convert" => sz = c.sect
  BY UnitFacts DEF EvaluateCallArgSize, ConvertCall
<1>2. maxarg' \in Nat /\ maxarg' % Word = 0 /\ maxarg <= maxarg' /\ sz <= maxarg'
  BY <1>1, CalleeArea DEF Types
<1>3. /\ pc \in {"evaluate", "convert"} /\ todo' = todo \ {c}
      /\ UNCHANGED <<unit, pc, sect, vd, pofst, psect, frame, start, place, runVars>>
  BY DEF EvaluateCallArgSize, ConvertCall
<1>4. Types'
  BY <1>2, <1>3 DEF Types, InMemory, runVars
<1>5. Packed'
  BY <1>2, <1>3 DEF Packed, VariablesDisjoint
<1>6. Covered'
  <2> SUFFICES ASSUME pc = "convert", NEW d \in unit.calls
               PROVE  d \in todo' \/ d.sect <= maxarg'
    BY <1>3 DEF Covered, Sized
  <2>1. CASE d = c
    BY <2>1, <1>1, <1>2
  <2>2. CASE d # c
    BY SMTT(30), <2>2, <1>2, <1>3, UnitFacts DEF Covered, Types
  <2> QED
    BY <2>1, <2>2
<1>7. Laid' /\ Running'
  BY <1>3 DEF Laid, Running, Sized, LaidOut, InMemory, RegBytes, runVars
<1> QED
  BY <1>4, <1>5, <1>6, <1>7

\* The passes before the frame size is taken.
LEMMA PassInv ==
    ASSUME Inv, ComputeParamLayout \/ InitFuncUnitDone \/ ReserveParamSpace \/ PerformRA
    PROVE  Inv'
<1> USE DEF Inv
<1>1. CASE ComputeParamLayout
  <2>1. psect' \in Nat /\ psect' % Word = 0 /\ pofst' \in Seq(Nat)
    <3>1. Len(pofst) + 1 \in 1 .. Len(unit.formal)
      BY <1>1, UnitFacts DEF ComputeParamLayout, Types
    <3>2. unit.formal[Len(pofst) + 1].size \in Nat
      BY <3>1, UnitFacts
    <3>3. psect' = psect + CeilAlign(unit.formal[Len(pofst) + 1].size, Word)
      BY <1>1 DEF ComputeParamLayout
    <3>4. psect' \in Nat /\ psect' % Word = 0
      <4>1. psect \in Nat /\ psect % Word = 0
        BY DEF Types, Packed
      <4> QED
        BY <3>2, <3>3, <4>1, CeilWord, SumWord
    <3> QED
      BY <1>1, <3>4 DEF ComputeParamLayout, Types
  <2>2. /\ pc = "param"
        /\ UNCHANGED <<unit, pc, todo, maxarg, sect, vd, frame, start, place, runVars>>
    BY <1>1 DEF ComputeParamLayout
  <2>3. Types' /\ Packed'
    BY <2>1, <2>2 DEF Types, Packed, VariablesDisjoint, InMemory, runVars
  <2> QED
    BY <2>2, <2>3 DEF Covered, Laid, Running, Sized, LaidOut, runVars
<1>2. CASE InitFuncUnitDone
  <2>1. /\ pc = "param" /\ pc' = "evaluate" /\ todo' \subseteq unit.calls
        /\ UNCHANGED <<unit, maxarg, sect, vd, pofst, psect, frame, start, place, sp, fp, block, out>>
    BY <1>2 DEF InitFuncUnitDone, Pass, layoutVars, runVars
  <2>2. Types' /\ Packed'
    BY <2>1 DEF Types, Packed, VariablesDisjoint, InMemory, Passes
  <2> QED
    BY <2>1, <2>2 DEF Covered, Laid, Running, Sized, LaidOut
<1>3. CASE ReserveParamSpace
  <2>1. /\ pc = "evaluate" /\ pc' = "convert" /\ todo' = unit.calls /\ sect' = sect + maxarg
        /\ UNCHANGED <<unit, maxarg, vd, pofst, psect, frame, start, place, sp, fp, block, out>>
    BY <1>3 DEF ReserveParamSpace, Pass, runVars
  <2>2. sect' \in Nat /\ sect' % Word = 0 /\ sect <= sect'
    BY <2>1, SumWord DEF Types, Packed
  <2>3. Types'
    BY <2>1, <2>2 DEF Types, InMemory, Passes
  <2>4. Packed'
    <3>1. \A v \in DOMAIN vd : vd[v] + unit.size[v] <= sect'
      <4>1. sect \in Nat /\ sect' \in Nat /\ sect <= sect'
        BY <2>2 DEF Types
      <4>2. \A v \in DOMAIN vd : /\ vd[v] \in Nat /\ unit.size[v] \in Nat
                                 /\ vd[v] + unit.size[v] <= sect
        BY UnitFacts DEF Types, Packed
      <4> QED
        BY <4>1, <4>2
    <3> QED
      BY <2>1, <2>2, <3>1 DEF Packed, VariablesDisjoint
  <2> QED
    BY <2>1, <2>3, <2>4 DEF Covered, Laid, Running, Sized, LaidOut
<1>4. CASE PerformRA
  <2>1. /\ pc = "convert" /\ pc' = "ra" /\ todo = {}
        /\ UNCHANGED <<todo, unit, maxarg, sect, vd, pofst, psect, frame, start, place, sp, fp, block, out>>
    BY <1>4 DEF PerformRA, Pass, layoutVars, runVars
  <2>2. Types' /\ Packed'
    BY <2>1 DEF Types, Packed, VariablesDisjoint, InMemory, Passes
  <2> QED
    BY <2>1, <2>2 DEF Covered, Laid, Running, Sized, LaidOut
<1> QED
  BY <1>1, <1>2, <1>3, <1>4

\* The frame is sized: the section and the area are below the parameters, and the
\* padding is below the registers stored.
LEMMA SizeInv ==
    ASSUME Inv, ReviseFormalParameterAndSpadjust
    PROVE  Inv'
<1> USE DEF Inv
<1> DEFINE f == CeilAlign(sect + maxarg, SpAlign)
           r == CeilAlign(RegBytes, SpAlign)
<1>1. /\ pc = "ra" /\ pc' = "relocate" /\ DOMAIN vd = InMemory
      /\ start' = f + (r - RegBytes) /\ frame' = f + (r - RegBytes) + RegBytes
      /\ UNCHANGED <<unit, todo, maxarg, sect, vd, pofst, psect, place, sp, fp, block, out>>
  BY DEF ReviseFormalParameterAndSpadjust, ReviseSpadjust, Pass, runVars
<1>2. RegBytes \in Nat /\ RegBytes' = RegBytes
  BY <1>1, RegBytesType DEF RegBytes
<1>3. f \in Nat /\ f % SpAlign = 0 /\ maxarg + sect <= f
  <2>1. sect + maxarg \in Nat
    BY DEF Types
  <2> QED
    BY <2>1, CeilSp DEF Types
<1>4. r \in Nat /\ r % SpAlign = 0 /\ RegBytes <= r
  BY <1>2, CeilSp
<1> HIDE DEF f, r
<1>5. /\ start' \in Int /\ frame' \in Int /\ frame' % SpAlign = 0
      /\ start' + RegBytes = frame' /\ maxarg + sect <= start'
  <2>1. frame' = f + r
    BY <1>1, <1>2, <1>3, <1>4
  <2>2. frame' % SpAlign = 0
    BY <2>1, <1>3, <1>4, SumSp
  <2> QED
    BY SMTT(30), <2>1, <2>2, <1>1, <1>2, <1>3, <1>4 DEF Types
<1>6. Types'
  BY <1>1, <1>5 DEF Types, InMemory, Passes
<1>7. Packed'
  BY <1>1 DEF Packed, VariablesDisjoint
<1>8. Covered'
  BY <1>1 DEF Covered, Sized
<1>9. Laid'
  BY <1>1, <1>2, <1>5 DEF Laid, Sized, LaidOut, InMemory
<1>10. Running'
  BY <1>1 DEF Running, LaidOut
<1> QED
  BY <1>6, <1>7, <1>8, <1>9, <1>10

\* Offsets are final when the size of the area is.
LEMMA RelocateInv ==
    ASSUME Inv, NEW v \in InMemory, RelocateStackVar(v)
    PROVE  Inv'
<1> USE DEF Inv
<1>1. /\ pc = "relocate" /\ DOMAIN place' = DOMAIN place \cup {v}
      /\ \A w \in DOMAIN place' : place'[w] = maxarg + vd[w]
      /\ place' = [w \in DOMAIN place \cup {v} |-> IF w = v THEN maxarg + vd[v] ELSE place[w]]
      /\ UNCHANGED <<unit, pc, todo, maxarg, sect, vd, pofst, psect, frame, start, sp, fp, block, out>>
  BY DEF RelocateStackVar, ComputeOffset, Laid, runVars
<1>2. \A w \in InMemory : maxarg + vd[w] \in Nat
  BY <1>1 DEF Types, Laid, Sized
<1>3. place' \in [DOMAIN place' -> Nat]
  BY <1>1, <1>2 DEF Types
<1>4. Types'
  BY <1>1, <1>3 DEF Types, InMemory
<1>5. Packed'
  BY <1>1 DEF Packed, VariablesDisjoint
<1>6. Covered' /\ Running'
  BY <1>1 DEF Covered, Running, Sized, LaidOut
<1>7. Laid'
  BY <1>1 DEF Laid, Sized, LaidOut, InMemory, RegBytes
<1> QED
  BY <1>4, <1>5, <1>6, <1>7

\* The body moves SP down only, and takes it back from where the variables are.
LEMMA RunInv ==
    ASSUME Inv, \/ Enter \/ \E n \in AllocaSizes : Alloca(n)
                \/ (\E c \in unit.calls : Call(c)) \/ Leave
    PROVE  Inv'
<1> USE DEF Inv
<1>1. UNCHANGED <<todo, unit, maxarg, sect, vd, pofst, psect, frame, start, place>>
  BY DEF Enter, Alloca, Call, Leave, layoutVars
<1>2. /\ pc \in {"relocate", "body"} /\ pc' \in {"body", "returned"}
      /\ DOMAIN place = InMemory
  BY DEF Enter, Alloca, Call, Leave, Pass, Laid, LaidOut
<1>3. Packed' /\ Covered' /\ Laid'
  BY <1>1, <1>2 DEF Packed, VariablesDisjoint, Covered, Laid, Sized, LaidOut, InMemory, RegBytes
<1>4. sp' \in Int /\ fp' \in Int
  BY SMTT(30), UnitFacts DEF Enter, Alloca, Call, Leave, SPAtExit, Types
<1>5. Types'
  BY <1>1, <1>2, <1>4 DEF Types, InMemory, Passes
<1>6. Running'
  <2>1. CASE Enter
    BY <2>1 DEF Enter, Pass, Running, LaidOut, BaseReg, UseFP, Types, layoutVars
  <2>2. ASSUME NEW n \in AllocaSizes, Alloca(n) PROVE Running'
    <3>1. n \in Nat /\ pc = "body" /\ pc' = "body" /\ UseFP /\ UseFP' /\ sp' = sp - n /\ fp' = fp
          /\ out' = out /\ block' = Range2(sp', n)
      BY <2>2, UnitFacts DEF Alloca, layoutVars, UseFP
    <3>2. \A x \in block' : x \in Int /\ x < -frame
      BY SMTT(30), <3>1, <1>4 DEF Range2, Running, Types
    <3>3. sp' <= -frame
      BY <3>1 DEF Running, Types
    <3> QED
      BY <3>1, <3>2, <3>3, <1>1 DEF Running, LaidOut, BaseReg, UseFP, InMemory
  <2>3. ASSUME NEW c \in unit.calls, Call(c) PROVE Running'
    <3>1. pc = "body" /\ pc' = "body" /\ out' = Range2(sp, c.stk) /\ UNCHANGED <<sp, fp, block>>
      BY <2>3 DEF Call
    <3>2. ASSUME NEW x \in out', NEW v \in InMemory PROVE x \in Int /\ x < place[v] - frame
      <4>1. c.stk <= maxarg /\ c.stk \in Nat
        <5>1. c.stk \in Nat /\ c.sect \in Nat /\ c.stk <= c.sect
          BY UnitFacts
        <5>2. c.sect <= maxarg /\ maxarg \in Nat
          BY <3>1 DEF Covered, Sized, Types
        <5> QED
          BY <5>1, <5>2
      <4>2. maxarg <= place[v] /\ place[v] \in Nat
        BY <1>2, <3>1 DEF Laid, Sized, Types
      <4>3. x \in Int /\ x < sp + c.stk
        BY SMTT(30), <3>1, <3>2, <4>1 DEF Range2, Types
      <4> QED
        BY SMTT(30), <4>1, <4>2, <4>3, <3>1 DEF Running, Types
    <3>3. \A x \in out' : x \in Int
      BY <3>1, UnitFacts DEF Range2, Types
    <3> QED
      BY <1>1, <3>1, <3>2, <3>3 DEF Running, LaidOut, BaseReg, UseFP, InMemory
  <2>4. CASE Leave
    BY <2>4 DEF Leave, Pass, SPAtExit, Running, LaidOut, BaseReg, Types
  <2> QED
    BY <2>1, <2>2, <2>3, <2>4
<1> QED
  BY <1>3, <1>5, <1>6

\* Every step keeps the invariant.
LEMMA NextInv == Inv /\ [Next]_vars => Inv'
<1> SUFFICES ASSUME Inv, [Next]_vars PROVE Inv'
  OBVIOUS
<1>1. CASE UNCHANGED vars
  BY <1>1 DEF vars, Inv, Types, Packed, VariablesDisjoint, Covered, Laid, Running, Sized,
              LaidOut, BaseReg, UseFP, InMemory, RegBytes
<1>2. CASE Next
  BY <1>2, AllocateInv, CallSizeInv, PassInv, SizeInv, RelocateInv, RunInv DEF Next
<1> QED
  BY <1>1, <1>2

\* The invariant holds in every reachable state.
LEMMA Invariance == Spec => []Inv
BY InitInv, NextInv, PTL DEF Spec

-----------------------------------------------------------------------------
\* No two variables of a frame share a byte (computeStackVarLayout).
THEOREM FrameVariablesDisjoint == Spec => []VariablesDisjoint
<1>1. Inv => VariablesDisjoint
  BY DEF Inv, Packed
<1> QED
  BY <1>1, Invariance, PTL

\* Every variable lies above the arguments of every call and below the stored
\* parameters, although the argument area may grow after its offset was given.
THEOREM FrameHoldsVariables == Spec => []VariablesInFrame
<1>1. Inv => VariablesInFrame
  <2> SUFFICES ASSUME Inv, LaidOut, NEW v \in InMemory
               PROVE  /\ \A c \in unit.calls : c.stk <= place[v]
                      /\ place[v] + unit.size[v] <= start
    BY DEF VariablesInFrame
  <2>1. /\ place[v] = maxarg + vd[v] /\ vd[v] + unit.size[v] <= sect
        /\ maxarg + sect <= start
    BY DEF Inv, Laid, Packed, LaidOut, Sized
  <2>2. maxarg \in Nat /\ vd[v] \in Nat /\ unit.size[v] \in Nat /\ sect \in Nat /\ start \in Int
    BY UnitFacts DEF Inv, Types, Laid, LaidOut, Sized
  <2>3. ASSUME NEW c \in unit.calls PROVE c.stk <= place[v]
    <3>1. c.sect <= maxarg /\ c.stk <= c.sect /\ c.stk \in Nat /\ c.sect \in Nat
      BY UnitFacts DEF Inv, Covered, LaidOut, Sized
    <3> QED
      BY <3>1, <2>1, <2>2
  <2> QED
    BY <2>1, <2>2, <2>3
<1> QED
  BY <1>1, Invariance, PTL

\* The stack pointer keeps its alignment and the parameters passed on the stack
\* follow the registers stored (reviseFormalParameterAndSpadjust).
THEOREM FrameKeepsAlignment == Spec => []FrameAligned
<1>1. Inv => FrameAligned
  BY DEF Inv, Laid, FrameAligned, LaidOut, Sized
<1> QED
  BY <1>1, Invariance, PTL

\* With and without alloca, the function returns with the SP it was called with.
THEOREM FrameRestoresSP == Spec => []SPRestored
<1>1. Inv => SPRestored
  BY DEF Inv, Running, SPRestored
<1> QED
  BY <1>1, Invariance, PTL

\* A variable is found through SP or FP all through the body, out of reach of
\* what alloca returned and of the arguments of calls.
THEOREM FrameVariablesReachable == Spec => []VariablesReachable
<1>1. Inv => VariablesReachable
  <2> SUFFICES ASSUME Inv, pc = "body", NEW v \in InMemory
               PROVE  /\ BaseReg + place[v] = place[v] - frame
                      /\ {BaseReg + b : b \in BytesOf(v)} \cap (block \cup out) = {}
    BY DEF VariablesReachable
  <2>1. BaseReg = -frame /\ frame \in Int /\ place[v] \in Nat /\ unit.size[v] \in Nat
    BY UnitFacts DEF Inv, Types, Running, Laid, LaidOut
  <2>2. ASSUME NEW b \in BytesOf(v) PROVE b \in Int /\ b >= place[v]
    BY <2>1, <2>2 DEF BytesOf, Range2
  <2>3. ASSUME NEW x \in block \cup out PROVE x \in Int /\ x < place[v] - frame
    BY <2>1, <2>3 DEF Inv, Running
  <2>4. ASSUME NEW b \in BytesOf(v), BaseReg + b \in block \cup out PROVE FALSE
    BY <2>1, <2>2, <2>3, <2>4
  <2> QED
    BY <2>1, <2>4
<1> QED
  BY <1>1, Invariance, PTL
=============================================================================
