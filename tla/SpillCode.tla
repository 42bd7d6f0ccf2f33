----------------------------- MODULE SpillCode -----------------------------
(***************************************************************************)
(* The code that local register allocation inserts into a basic block, as  *)
(* functions of the block: the localisation of a symbol register that      *)
(* several blocks use (CG::localizeBB), the stores and reloads of a life   *)
(* time that is spilled or split (or_lra.cpp), and the slots they use.     *)
(*                                                                         *)
(* The optimising phases of LRA do not run: RaMgr::performLRA sets the     *)
(* option LRA_VERIFY_REG only.                                             *)
(***************************************************************************)
EXTENDS Integers, Sequences, SequencesExt, FiniteSets, FiniteSetsExt, TLC

(***************************************************************************)
(* An OR: its identity, its results and operands (numbers of symbol        *)
(* registers), its predicate, what it is, and the slot of a spilling store *)
(* or a reload.  What lowering made of the source is an "op", a "call", or *)
(* a "br" or "ret" that ends a block.                                      *)
(***************************************************************************)
Op(id, kind, res, opnd, pred) ==
    [ id |-> id, kind |-> kind, res |-> res, opnd |-> opnd, pred |-> pred, var |-> 0 ]

\* CG::buildSpill and CG::buildReload
SpillOR(id, s, v, pred) ==
    [ id |-> id, kind |-> "store", res |-> <<>>, opnd |-> <<s>>, pred |-> pred, var |-> v ]
ReloadOR(id, s, v, pred) ==
    [ id |-> id, kind |-> "load", res |-> <<s>>, opnd |-> <<>>, pred |-> pred, var |-> v ]

(***************************************************************************)
(* What the functions below change: the ORs of the block, the symbol       *)
(* registers (their physical register, whether they are global, their      *)
(* slot), the next free identity, the number of slots, the list of the     *)
(* slots that belong to one block and the free ones among them.            *)
(***************************************************************************)
LocalSR(v) == [ phy |-> 0, global |-> FALSE, spill |-> v ]
GlobalSR(reg) == [ phy |-> reg, global |-> TRUE, spill |-> 0 ]

IndexOf(ors, id) == CHOOSE i \in DOMAIN ors : ors[i].id = id
OrOf(w, id) == w.ors[IndexOf(w.ors, id)]

NewSR(w) == Len(w.sr) + 1

\* CG::genReg of a register that has slot v.
GenReg(w, v) == [w EXCEPT !.sr = Append(@, LocalSR(v))]

\* Put OR o, of a new identity, at place i.
Insert(w, i, o) == [w EXCEPT !.ors = InsertAt(@, i, o), !.nid = @ + 1]
InsertBefore(w, id, o) == Insert(w, IndexOf(w.ors, id), o)
InsertAfter(w, id, o) == Insert(w, IndexOf(w.ors, id) + 1, o)

Replaced(list, old, new) == [i \in DOMAIN list |-> IF list[i] = old THEN new ELSE list[i]]

\* renameOpnd and renameResult of the ORs with these identities.
RenameOpnd(w, ids, old, new) ==
    [w EXCEPT !.ors = [i \in DOMAIN @ |->
        IF @[i].id \in ids THEN [@[i] EXCEPT !.opnd = Replaced(@, old, new)] ELSE @[i]]]
RenameResult(w, ids, old, new) ==
    [w EXCEPT !.ors = [i \in DOMAIN @ |->
        IF @[i].id \in ids THEN [@[i] EXCEPT !.res = Replaced(@, old, new)] ELSE @[i]]]
Rename(w, ids, old, new) == RenameResult(RenameOpnd(w, ids, old, new), ids, old, new)

\* CG::genSpillVar and genTempVar: the slot the register has, or a new one for
\* the whole function if the register is global, or a free one of the block.
GenSpillVar(w, s) ==
    IF w.sr[s].spill # 0 THEN w
    ELSE IF ~w.sr[s].global /\ w.free # <<>>
    THEN [w EXCEPT !.sr[s].spill = Last(w.free), !.free = Front(@)]
    ELSE [w EXCEPT !.sr[s].spill = w.vars + 1, !.vars = @ + 1,
                   !.bbvars = IF w.sr[s].global THEN @ ELSE Append(@, w.vars + 1)]

\* BBVarList::freeAll, which LRA::postLRA and RaMgr::performLRA both call.
FreeAll(w) == [w EXCEPT !.free = @ \o w.bbvars]
-----------------------------------------------------------------------------
(* Localisation *)

\* BBORList::append_tail_ex: in front of the ORs that leave the block.
Leaves(o) == o.kind \in {"br", "ret", "call"}
TailPlace(ors) ==
    1 + Max({0} \cup {i \in DOMAIN ors : ~Leaves(ors[i])})

Occurs(o, s) == s \in Range(o.opnd) \cup Range(o.res)

\* The upward exposed use of s is reloaded into a new register, which the ORs
\* up to the first definition get, or all of them if there is none.
LocalizeUse(w, s) ==
    LET first == Min({i \in DOMAIN w.ors : Occurs(w.ors[i], s)})
        defs == {i \in DOMAIN w.ors : s \in Range(w.ors[i].res)}
        range == IF defs = {} THEN first .. Len(w.ors) ELSE first .. (Min(defs) - 1)
        new == NewSR(w)
        renamed == IF first \in defs
                   THEN RenameOpnd(GenReg(w, 0), {w.ors[first].id}, s, new)
                   ELSE Rename(GenReg(w, 0), {w.ors[i].id : i \in range}, s, new)
    IN  IF s \in Range(w.ors[first].opnd)
        THEN Insert(renamed, first, ReloadOR(w.nid, new, w.sr[s].spill, "al"))
        ELSE w

\* The last definition and what follows it get a new register, which is
\* stored at the end under the definition's predicate.
LocalizeDef(w, s) ==
    LET defs == {i \in DOMAIN w.ors : s \in Range(w.ors[i].res)}
        last == Max(defs)
        new == NewSR(w)
    IN  IF defs = {} THEN w
        ELSE Insert(Rename(GenReg(w, 0), {w.ors[i].id : i \in last .. Len(w.ors)}, s, new),
                    TailPlace(w.ors),
                    SpillOR(w.nid, new, w.sr[s].spill, w.ors[last].pred))

\* CG::localizeBB
LocalizeBB(w, s) == LocalizeDef(LocalizeUse(GenSpillVar(w, s), s), s)
-----------------------------------------------------------------------------
(***************************************************************************)
(* Life times, as LifeTime.tla constructs them: OR k has the positions     *)
(* 2k - 1 for its operands and 2k for its results, 0 is the entry of the   *)
(* block and 2n + 1 its end.  Two registers are never the same physical    *)
(* one here while both live, except a global one and itself.               *)
(***************************************************************************)
Undef == -1         \* BS_UNDEF
FirstPos == 0       \* LT_FIRST_POS
LastPos(ors) == 2 * Len(ors) + 1

Results(o) == Range(o.res)

\* What lives before each OR, and at the end.  ("@@ <<>>", here and below, is
\* the function itself; TLC then computes it once.)
LiveBefore(ors, atend) ==
    LET live[k \in 1 .. Len(ors) + 1] ==
          IF k > Len(ors) THEN atend
          ELSE (live[k + 1] \ (IF ors[k].pred = "al" THEN Results(ors[k]) ELSE {}))
                 \cup Range(ors[k].opnd)
    IN  live @@ <<>>

SRsOf(ors, atend) ==
    atend \cup UNION {Results(ors[k]) \cup Range(ors[k].opnd) : k \in DOMAIN ors}

\* Where s occurs, and how.
Desc(ors, s) ==
    [p \in {2 * k - 1 : k \in {j \in DOMAIN ors : s \in Range(ors[j].opnd)}}
         \cup {2 * k : k \in {j \in DOMAIN ors : s \in Results(ors[j])}}
       |-> IF p % 2 = 0 THEN "def" ELSE "use"]

\* The life times of the block: where each register lives and where it occurs.
\* A local one that seems to live at the entry starts where it occurs first.
LifeTimes(ors, sr, atend) ==
    LET live == LiveBefore(ors, atend)
        Lives(s) == {2 * k - 1 : k \in {j \in DOMAIN ors : s \in live[j]}}
            \cup {2 * k : k \in {j \in DOMAIN ors : s \in live[j + 1] \cup Results(ors[j])}}
            \cup (IF s \in live[1] THEN {FirstPos} ELSE {})
            \cup (IF s \in atend THEN {LastPos(ors)} ELSE {})
        Revised(s) == {p \in Lives(s) : \E d \in DOMAIN Desc(ors, s) : d <= p}
    IN  [s \in SRsOf(ors, atend) |->
            [ pos |-> IF sr[s].global THEN Lives(s) ELSE Revised(s),
              desc |-> Desc(ors, s) ]] @@ <<>>

First(lt) == Min(lt.pos)
LastOf(lt) == Max(lt.pos)

\* The positions where the register occurs or is live at an end of the block.
Occs(ors, lt) == (DOMAIN lt.desc) \cup (lt.pos \cap {FirstPos, LastPos(ors)})
IsDefAt(lt, p) == p = FirstPos \/ (p \in DOMAIN lt.desc /\ lt.desc[p] = "def")

\* getForwardOcc, getForwardOccForDEF and getBackwardOccForDEF
ForwardOcc(ors, lt, p) ==
    LET later == {q \in Occs(ors, lt) : q > p}
    IN  IF later = {} THEN Undef ELSE Min(later)
ForwardDef(lt, p) ==
    LET later == {q \in DOMAIN lt.desc : q > p /\ lt.desc[q] = "def"}
    IN  IF later = {} THEN Undef ELSE Min(later)
BackwardDef(lt, p) ==
    LET earlier == {q \in (DOMAIN lt.desc) \cup (lt.pos \cap {FirstPos}) : q < p /\ IsDefAt(lt, q)}
    IN  IF earlier = {} THEN Undef ELSE Max(earlier)

\* The OR at position p of the block the life times were made for.
OrAt(ors, p) == ors[(p + 1) \div 2]
-----------------------------------------------------------------------------
(* Stores and reloads *)

\* CG::isOpndSameWithResult looks at the first result only that is an operand.
SharedSR(o) ==
    LET both == {i \in DOMAIN o.res : o.res[i] \in Range(o.opnd)}
    IN  IF both = {} THEN 0 ELSE o.res[Min(both)]
IsOpndSameWithResult(s, o) == SharedSR(o) = s

\* LRA::genSpill behind the OR id, or at the head of the block: the result is
\* renamed unless it has to be the register of an operand; otherwise the
\* register, if it is local, has to be allocated again.
GenSpill(w, s, id, v, rename, pred) ==
    IF id = 0
    THEN Insert(w, 1, SpillOR(w.nid, s, v, pred))
    ELSE IF rename /\ ~IsOpndSameWithResult(s, OrOf(w, id))
    THEN InsertAfter(RenameResult(GenReg(w, v), {id}, s, NewSR(w)), id,
                     SpillOR(w.nid, NewSR(w), v, pred))
    ELSE IF rename
    THEN InsertAfter(w, id, SpillOR(w.nid, s, v, pred))
    ELSE InsertAfter([w EXCEPT !.sr[s].phy = IF w.sr[s].global THEN @ ELSE 0,
                               !.sr[s].spill = v],
                     id, SpillOR(w.nid, s, v, pred))

\* genNewReloadSR: a global register is reloaded as it is.
ReloadSR(w, s) == IF w.sr[s].global THEN s ELSE NewSR(w)

\* LRA::genReload in front of the OR id, whose operand becomes ReloadSR(w, s),
\* and its result too if both are one register.
GenReload(w, s, id, v, pred) ==
    LET new == ReloadSR(w, s)
        w1 == IF new = s THEN w ELSE GenReg(w, v)
        w2 == IF IsOpndSameWithResult(s, OrOf(w, id))
              THEN RenameResult(w1, {id}, s, new) ELSE w1
    IN  InsertBefore(RenameOpnd(w2, {id}, s, new), id, ReloadOR(w.nid, new, v, pred))

\* genReload at the end of the block.
ReloadAtEnd(w, s, v) == Insert(w, Len(w.ors) + 1, ReloadOR(w.nid, s, v, "al"))

\* CG::setORListWithSamePredicate
PredOf(o) == o.pred

\* LRA::spillLSR and spillGSR: each definition is stored, each use reloaded,
\* under the predicate of its OR; a global register is also stored at the
\* head and reloaded at the end of the block if it lives there; ors is the block
\* that the life time was made for.
PureSpill(w, ors, s, lt) ==
    LET v == GenSpillVar(w, s).sr[s].spill
        w0 == GenSpillVar(w, s)
        w1 == IF FirstPos \in lt.pos THEN GenSpill(w0, s, 0, v, TRUE, "al") ELSE w0
        w2 == IF LastPos(ors) \in lt.pos THEN ReloadAtEnd(w1, s, v) ELSE w1
        Step(acc, p) ==
            LET o == OrAt(ors, p)
                new == ReloadSR(acc.w, s)
                reloaded == GenReload(acc.w, s, o.id, v, PredOf(o))
            IN  IF lt.desc[p] = "def"
                THEN [ w |-> GenSpill(acc.w, IF acc.same # 0 THEN acc.same ELSE s,
                                      o.id, v, TRUE, PredOf(o)),
                       same |-> 0 ]
                ELSE [ w |-> reloaded,
                       same |-> IF IsOpndSameWithResult(new, OrOf(reloaded, o.id))
                                THEN new ELSE acc.same ]
    IN  FoldLeft(Step, [ w |-> w2, same |-> 0 ],
                 SetToSortSeq(DOMAIN lt.desc, <)).w

\* renameOpndsFollowedLT and renameOpndInRange
RenameFollowed(w, ors, lt, p, old, new) ==
    Rename(w, {OrAt(ors, q).id : q \in {q \in DOMAIN lt.desc : q >= p}}, old, new)
RenameInRange(w, ors, lt, p, q, old, new) ==
    LET At(kind) == {OrAt(ors, r).id : r \in {r \in DOMAIN lt.desc :
                        r \in p .. q /\ lt.desc[r] = kind}}
    IN  RenameResult(RenameOpnd(w, At("use"), old, new), At("def"), old, new)
=============================================================================
