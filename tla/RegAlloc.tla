------------------------------ MODULE RegAlloc ------------------------------
(***************************************************************************)
(* The allocation of a function's registers, CG::perform from              *)
(* generateFuncUnitDedicatedCode to performRA with GRA switched off: the   *)
(* registers that several blocks use are localised, LRA gives every block  *)
(* registers and splits life times until each has one, and RaMgr saves the *)
(* callee saved registers that were used.                                  *)
(***************************************************************************)
EXTENDS SplitLT

CONSTANTS
    Programs,       \* the functions considered
    Allocable,      \* tmMapRegFile2RegSetAllocable
    CalleeSaved     \* tmGetRegSetOfCalleeSaved

(***************************************************************************)
(* A function: its blocks, its symbol registers, the paths that execution  *)
(* takes through the blocks, and the dedicated registers it mentions: the  *)
(* return address and the return values, 0 and {} if it does not.          *)
(***************************************************************************)
ASSUME FunctionsAreWellFormed ==
    \A p \in Programs :
        /\ \A path \in p.paths : path[1] = 1 /\ path[Len(path)] = Len(p.bbs)
        /\ \A b \in DOMAIN p.bbs : \A i \in DOMAIN p.bbs[b] :
             Range(p.bbs[b][i].res) \cup Range(p.bbs[b][i].opnd) \subseteq DOMAIN p.sr
        /\ \A s \in DOMAIN p.sr : p.sr[s].global <=> p.sr[s].phy # 0

ASSUME SavedRegisters == Allocable # {} /\ CalleeSaved \subseteq Nat \ {0}

VARIABLES
    prog,       \* the function
    bbs,        \* the OR lists of its blocks
    cg,         \* registers and slots: the record of SpillCode without "ors"
    phase,      \* where CG::perform is
    todo,       \* the registers that are still to be localised
    cur,        \* the block that LRA works on
    uncolored,  \* uncolored_list
    used        \* m_lra_used_callee_saved_reg

vars == <<prog, bbs, cg, phase, todo, cur, uncolored, used>>

\* The block as the functions of SpillCode take it, and back.
Work(b) == [ ors |-> bbs[b] ] @@ cg
CG(w) == [ k \in DOMAIN w \ {"ors"} |-> w[k] ]

Init ==
    /\ prog \in Programs
    /\ bbs = prog.bbs
    /\ cg = [ sr |-> prog.sr, nid |-> 100, vars |-> 0, bbvars |-> <<>>, free |-> <<>> ]
    /\ phase = "dedicated"
    /\ todo = {}
    /\ cur = 1
    /\ uncolored = {}
    /\ used = {}

HasCall == \E b \in DOMAIN bbs : \E i \in DOMAIN bbs[b] : bbs[b][i].kind = "call"

Spadjust(id) == Op(id, "spadjust", <<>>, <<>>, "al")

\* Where the code at the end of a block goes: in front of a final branch.
ExitPlace(ors) ==
    IF ors # <<>> /\ Leaves(Last(ors)) THEN Len(ors) ELSE Len(ors) + 1

\* generateFuncUnitDedicatedCodeForEntryBB and ...ForExitBB: the frame is made
\* and removed, and the return address saved in it if there is a call.
EntryCode(w, lr) ==
    LET saved == GenSpillVar(w, lr)
        w1 == IF ~HasCall THEN w
              ELSE Insert(saved, 1, SpillOR(w.nid, lr, saved.sr[lr].spill, "al"))
    IN  Insert(w1, 1, Spadjust(w1.nid))

ExitCode(w, lr) ==
    LET w1 == IF ~HasCall THEN w
              ELSE Insert(w, ExitPlace(w.ors), ReloadOR(w.nid, lr, w.sr[lr].spill, "al"))
    IN  Insert(w1, ExitPlace(w1.ors), Spadjust(w1.nid))

ExitBB == Len(bbs)

\* The registers, other than dedicated ones, that several blocks mention.
Crossing ==
    LET In(b) == UNION {Range(o.res) \cup Range(o.opnd) : o \in Range(bbs[b])}
    IN  {s \in DOMAIN cg.sr : ~cg.sr[s].global /\
            \E a, b \in DOMAIN bbs : a # b /\ s \in In(a) /\ s \in In(b)}

GenerateFuncUnitDedicatedCode ==
    /\ phase = "dedicated"
    /\ LET entry == EntryCode(Work(1), prog.lr)
           bbs1 == [bbs EXCEPT ![1] = entry.ors]
           exit == ExitCode([entry EXCEPT !.ors = bbs1[ExitBB]], prog.lr)
       IN  /\ bbs' = [bbs1 EXCEPT ![ExitBB] = exit.ors]
           /\ cg' = CG(exit)
    /\ todo' = Crossing
    /\ phase' = "localize"
    /\ UNCHANGED <<prog, cur, uncolored, used>>

Mentions(b, s) == \E o \in Range(bbs[b]) : Occurs(o, s)

\* CG::localizeBBTab for one register.
Localize ==
    /\ phase = "localize"
    /\ \E s \in todo :
         LET Step(acc, b) ==
                 LET w == LocalizeBB([ ors |-> acc.bbs[b] ] @@ acc.cg, s)
                 IN  [ bbs |-> [acc.bbs EXCEPT ![b] = w.ors], cg |-> CG(w) ]
             done == FoldLeft(Step, [ bbs |-> bbs, cg |-> cg ],
                              SetToSortSeq({b \in DOMAIN bbs : Mentions(b, s)}, <))
         IN  /\ bbs' = done.bbs
             /\ cg' = done.cg
             /\ todo' = todo \ {s}
    /\ UNCHANGED <<prog, phase, cur, uncolored, used>>

EndLocalize ==
    /\ phase = "localize"
    /\ todo = {}
    /\ phase' = "alloc"
    /\ UNCHANGED <<prog, bbs, cg, todo, cur, uncolored, used>>
-----------------------------------------------------------------------------
(* Local register allocation *)

\* Return values live at the end of the exit block.
LiveAtEnd(b) == IF b = ExitBB THEN prog.ret ELSE {}

LTs(w, b) == LifeTimes(w.ors, w.sr, LiveAtEnd(b))

\* The registers of the life times in near, when f says what the waiting get.
Taken(w, near, f) == {IF t \in DOMAIN f THEN f[t] ELSE w.sr[t].phy : t \in near}

\* What computePrioList makes of the life times without a register, whatever
\* the order and the preferences of assignRegister: those it leaves have all
\* registers around them taken.
Colourings(w, lts) ==
    LET waiting == {s \in DOMAIN lts : ~w.sr[s].global /\ ~Allocated(w, s)}
        near == [s \in waiting |-> Neighbours(w, lts, s)] @@ <<>>
        Extend(s, fs) ==
            UNION {{f @@ (s :> r) : r \in {0} \cup (Allocable \ Taken(w, near[s], f))} : f \in fs}
    IN  {f \in FoldSet(Extend, {<<>>}, waiting) :
            \A s \in waiting : f[s] = 0 => Allocable \subseteq Taken(w, near[s], f)}

\* computePrioList, with updateCallee of RaMgr for the registers it assigns.
ComputePrioList(w) ==
    \E f \in Colourings(w, LTs(w, cur)) :
        /\ bbs' = [bbs EXCEPT ![cur] = w.ors]
        /\ cg' = [CG(w) EXCEPT !.sr = [s \in DOMAIN @ |->
                     IF s \in DOMAIN f THEN [@[s] EXCEPT !.phy = f[s]] ELSE @[s]]]
        /\ uncolored' = {s \in DOMAIN f : f[s] = 0}
        /\ used' = used \cup ({f[s] : s \in DOMAIN f} \cap CalleeSaved)

\* The first allocation of a block.
AllocateBB ==
    /\ phase = "alloc"
    /\ ComputePrioList(Work(cur))
    /\ phase' = "solve"
    /\ UNCHANGED <<prog, todo, cur>>

\* solveConflict: there is one register file, so none is reassigned and no
\* neighbour moved; the first of the uncolored life times, which the priorities
\* say, or a neighbour is split, and what has no register is coloured again
\* (reallocateLifeTime).
SolveConflict ==
    /\ phase = "solve"
    /\ \E s \in uncolored :
         LET w == Work(cur)
             lts == LTs(w, cur)
         IN  \E c \in BestSpillCands(w, lts, s) :
                ComputePrioList(Split(w, lts, s, c[1], c[2]))
    /\ UNCHANGED <<prog, phase, todo, cur>>

\* LRA::postLRA and the end of the loop of RaMgr::performLRA.
PostLRA ==
    /\ phase = "solve"
    /\ uncolored = {}
    /\ cg' = CG(FreeAll(FreeAll(Work(cur))))
    /\ cur' = IF cur < Len(bbs) THEN cur + 1 ELSE cur
    /\ phase' = IF cur < Len(bbs) THEN "alloc" ELSE "save"
    /\ UNCHANGED <<prog, bbs, todo, uncolored, used>>
-----------------------------------------------------------------------------
(* Callee saved registers *)

\* The registers that stand for physical register reg: the dedicated one, or
\* a new global one.
DedicatedSR(w, reg) ==
    LET have == {s \in DOMAIN w.sr : w.sr[s].global /\ w.sr[s].phy = reg}
    IN  IF have = {} THEN NewSR(w) ELSE Min(have)

PlaceOfSpadjust(ors) == CHOOSE i \in DOMAIN ors : ors[i].kind = "spadjust"

\* Mutant: the reload goes behind the OR that removes the frame.
MutReloadPlace(ors) == PlaceOfSpadjust(ors) + 1

\* Where spillIntRegisterAtEntry stores and reloadIntRegisterAtExit reloads.
SpillPlace(ors) == PlaceOfSpadjust(ors) + 1
ReloadPlace(ors) ==
    CHOOSE i \in DOMAIN ors : ors[i].kind = "spadjust" /\
        \A j \in DOMAIN ors : ors[j].kind = "spadjust" => j <= i

\* One register: w1 is the entry block, the result the entry and the exit.
SaveRegister(acc, reg) ==
    LET w == [ ors |-> acc.bbs[1] ] @@ acc.cg
        s == DedicatedSR(w, reg)
        w1 == GenSpillVar(IF s \in DOMAIN w.sr THEN w
                          ELSE [w EXCEPT !.sr = Append(@, GlobalSR(reg))], s)
        v == w1.sr[s].spill
        entry == Insert(w1, SpillPlace(w1.ors), SpillOR(w1.nid, s, v, "al"))
        bbs1 == [acc.bbs EXCEPT ![1] = entry.ors]
        w2 == [entry EXCEPT !.ors = bbs1[ExitBB]]
        exit == Insert(w2, ReloadPlace(w2.ors), ReloadOR(w2.nid, s, v, "al"))
    IN  [ bbs |-> [bbs1 EXCEPT ![ExitBB] = exit.ors], cg |-> CG(exit) ]

\* RaMgr::saveCallee.  The LRA that it runs again finds all allocated.
SaveCallee ==
    /\ phase = "save"
    /\ LET done == FoldLeft(SaveRegister, [ bbs |-> bbs, cg |-> cg ], SetToSortSeq(used, <))
       IN  /\ bbs' = done.bbs
           /\ cg' = done.cg
    /\ phase' = "done"
    /\ UNCHANGED <<prog, todo, cur, uncolored, used>>

Done == phase = "done" /\ UNCHANGED vars

Next ==
    \/ GenerateFuncUnitDedicatedCode
    \/ Localize
    \/ EndLocalize
    \/ AllocateBB
    \/ SolveConflict
    \/ PostLRA
    \/ SaveCallee
    \/ Done

\* WF_vars(Next), with its ENABLED written out: each phase but the last goes on.
Fairness == []<>(phase = "done") \/ []<><<Next>>_vars

Spec == Init /\ [][Next]_vars /\ Fairness
-----------------------------------------------------------------------------
(***************************************************************************)
(* What a function computes along a path.  A value is named by the number  *)
(* of the OR executed and the result it comes from; 0 is the entry, where  *)
(* every physical register has a value.  A register lives in its physical  *)
(* register once it has one and in a place of its own before.  A slot can  *)
(* be used while there is a frame.                                         *)
(***************************************************************************)
Place(sr, s) == IF sr[s].phy # 0 THEN <<"reg", sr[s].phy>> ELSE <<"sr", s>>

NoValue == <<0, 0>>

ValueAt(mem, place) ==
    IF place \in DOMAIN mem THEN mem[place]
    ELSE IF place[1] = "reg" THEN <<0, place[2]>> ELSE NoValue

Execute(m, o, sr) ==
    CASE o.kind = "store" ->
           IF m.frame
           THEN [m EXCEPT !.mem = (<<"var", o.var>> :> ValueAt(@, Place(sr, o.opnd[1]))) @@ @]
           ELSE m
      [] o.kind = "load" ->
           [m EXCEPT !.mem = (Place(sr, o.res[1]) :>
               (IF m.frame THEN ValueAt(@, <<"var", o.var>>) ELSE NoValue)) @@ @]
      [] o.kind = "spadjust" -> [m EXCEPT !.frame = ~@]
      [] OTHER ->
           [m EXCEPT !.n = @ + 1,
                     !.seen = Append(@, << o.id, [i \in DOMAIN o.opnd |->
                                               ValueAt(m.mem, Place(sr, o.opnd[i]))] >>),
                     !.mem = [p \in {Place(sr, s) : s \in Range(o.res)} |->
                         << m.n + 1, CHOOSE i \in DOMAIN o.res : Place(sr, o.res[i]) = p >>] @@ @]

\* The run along a path when the ORs of predicate "flag" are executed.
Run(blocks, sr, path, flag) ==
    LET Step(m, o) == IF o.pred \in {"al", flag} THEN Execute(m, o, sr) ELSE m
        code == FoldLeft(LAMBDA acc, b : acc \o blocks[b], <<>>, path)
    IN  FoldLeft(Step, [ mem |-> <<>>, n |-> 0, seen |-> <<>>, frame |-> FALSE ], code)

Flags == {"eq", "ne"}

\* What the function reads before anything is inserted.
SeenInSource ==
    [p \in Programs |-> [path \in p.paths |-> [flag \in Flags |->
        Run(p.bbs, p.sr, path, flag).seen]]]
-----------------------------------------------------------------------------
(* Properties *)

\* Localisation, spilling, splitting and the sharing of registers and slots
\* change no value: along every path, whatever predicated ORs are executed,
\* every OR of the source reads what it reads in the source, at every moment of
\* the allocation.
ValuesSurvive ==
    \A path \in prog.paths : \A flag \in Flags :
        Run(bbs, cg.sr, path, flag).seen = SeenInSource[prog][path][flag]

\* The caller finds its registers as they were: a callee saved register that
\* LRA used at any time is saved while the frame exists and before it is
\* written, and comes back before the function returns.
CalleeSavedKept ==
    phase = "done" =>
        \A path \in prog.paths : \A flag \in Flags : \A r \in CalleeSaved :
            ValueAt(Run(bbs, cg.sr, path, flag).mem, <<"reg", r>>) = <<0, r>>

\* solveConflict comes to an end: no split leaves the conflict as it was, whatever
\* the order of the uncolored life times and the choice of the candidate.  This
\* is so for the functions of the run; README.md shows one for which it is not.
SolveConflictEnds == <>(phase = "done")
=============================================================================
