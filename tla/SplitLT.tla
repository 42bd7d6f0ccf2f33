------------------------------ MODULE SplitLT ------------------------------
(***************************************************************************)
(* LRA::split of or_lra.cpp: the choice of the life time to split when one *)
(* gets no register (computeBestSpillCand), and the stores and reloads     *)
(* that split it.  Everything is a function of the block and its life      *)
(* times; RegAlloc.tla runs it until all life times have a register.       *)
(*                                                                         *)
(* The cost of a life time is the number of its neighbours without a       *)
(* register divided by a priority, a floating point number that depends on *)
(* the critical path.  The model knows only whether the number is zero: a  *)
(* choice by cost is one of the life times for which it is not, if any.    *)
(***************************************************************************)
EXTENDS SpillCode

\* BitSet::is_contained_in_range of a life time, strictly: the range lies
\* between the ends of the set.  This is what splitTwoLT, splitTwoLTContained
\* and computeLTResideInHole expect of it.
ContainedInRange(first, last, low, high) == first < low /\ high < last

Allocated(w, s) == w.sr[s].phy # 0

\* InterfGraph::isInterferred
Interfere(w, lts, s, t) ==
    /\ s # t
    /\ lts[s].pos \cap lts[t].pos # {}
    /\ ~(Allocated(w, s) /\ Allocated(w, t))

Neighbours(w, lts, s) == {t \in DOMAIN lts : Interfere(w, lts, s, t)}

\* LRA::canBeSpilled: not if it only goes from an OR to the next one.
CanBeSpilled(lts, s) ==
    /\ Cardinality(lts[s].pos) > 1
    /\ Cardinality(lts[s].pos) = 2 => ~\E p \in lts[s].pos : p + 1 \in lts[s].pos

\* LRA::canBeSpillCandidate
CanBeSpillCandidate(lts, s, cand) ==
    s = cand \/ DOMAIN lts[s].desc \cap DOMAIN lts[cand].desc = {}

\* The stretches of a life time between one occurrence and the next.
Holes(ors, lt) ==
    {h \in Occs(ors, lt) \X Occs(ors, lt) :
        /\ h[1] < h[2]
        /\ h[1] .. h[2] \subseteq lt.pos
        /\ \A p \in Occs(ors, lt) : p <= h[1] \/ p >= h[2]}

\* getMaxHole: the first of the longest holes.
MaxHole(ors, lt) ==
    LET longest == {h \in Holes(ors, lt) :
                      \A g \in Holes(ors, lt) : g[2] - g[1] <= h[2] - h[1]}
    IN  CHOOSE h \in longest : \A g \in longest : h[1] <= g[1]

\* computeLTResideInHole
ResideInHole(ors, lts, s) ==
    IF Holes(ors, lts[s]) = {} THEN {}
    ELSE {t \in DOMAIN lts \ {s} :
            LET h == MaxHole(ors, lts[s])
            IN  ContainedInRange(h[1], h[2], First(lts[t]), LastOf(lts[t]))}

\* computeBestSpillCand: the candidates it may return for s, and whether it
\* says that they have a hole.
BestSpillCands(w, lts, s) ==
    LET cands == {c \in Neighbours(w, lts, s) \cup {s} :
                    CanBeSpilled(lts, c) /\ CanBeSpillCandidate(lts, s, c)}
        Reside(c) == ResideInHole(w.ors, lts, c)
        Unallocated(c) == {t \in Reside(c) : ~Allocated(w, t)}
        Most(set, N(_)) == {c \in set : \A d \in set : N(d) <= N(c)}
        waiting == {c \in cands : Unallocated(c) # {}}
        holding == {c \in cands : Reside(c) # {}}
    IN  IF waiting # {}
        THEN {<<c, TRUE>> : c \in Most(waiting, LAMBDA c : Cardinality(Unallocated(c)))}
        ELSE IF holding # {}
        THEN {<<c, TRUE>> : c \in Most(holding, LAMBDA c : Cardinality(Reside(c)))}
        ELSE LET apart == {c \in cands : c = s \/
                   (First(lts[c]) # First(lts[s]) /\ LastOf(lts[c]) # LastOf(lts[s]))}
                 crowded == {c \in apart : \E t \in Neighbours(w, lts, c) : ~Allocated(w, t)}
             IN  {<<c, FALSE>> : c \in IF crowded = {} THEN apart ELSE crowded}

\* getResideinHole: the first hole of the owner that the other life time is in.
HolesFor(ors, owner, inner) ==
    {h \in Holes(ors, owner) : ContainedInRange(First(inner), LastOf(inner), h[1], h[2])}
ResideinHole(ors, owner, inner) ==
    LET holes == HolesFor(ors, owner, inner)
    IN  CHOOSE h \in holes : \A g \in holes : h[1] <= g[1]
-----------------------------------------------------------------------------
(***************************************************************************)
(* selectReasonableSplitPos: where to store before hole h and where to     *)
(* reload at its end, Undef for not at all.  A definition under a predicate *)
(* counts as a use at the end of the hole.                                 *)
(***************************************************************************)
SplitPos(w, s, lt, h) ==
    LET startdef == IsDefAt(lt, h[1])
        enddef == /\ h[2] # LastPos(w.ors)
                  /\ IsDefAt(lt, h[2])
                  /\ OrAt(w.ors, h[2]).pred = "al"
        def == BackwardDef(lt, h[1])
    IN  IF startdef /\ enddef THEN <<Undef, Undef>>
        ELSE << IF startdef \/ (def = Undef /\ w.sr[s].global) THEN h[1] ELSE def,
                IF enddef THEN Undef ELSE h[2] >>

IdAt(ors, p) == IF p = FirstPos THEN 0 ELSE OrAt(ors, p).id

\* What splitLTAt renames after a reload at p: up to the next definition, or
\* everything that follows if that is a result of the same OR.
RenameAfterReload(w, ors, lt, p, old, new) ==
    LET def == ForwardDef(lt, p)
    IN  IF def \notin {Undef, p + 1}
        THEN RenameInRange(w, ors, lt, p, def - 1, old, new)
        ELSE RenameFollowed(w, ors, lt, p, old, new)

\* LRA::splitLTAt
SplitLTAt(w, s, lt, pos) ==
    LET w0 == GenSpillVar(w, s)
        v == w0.sr[s].spill
        w1 == IF pos[1] = Undef THEN w0
              ELSE GenSpill(w0, s, IdAt(w.ors, pos[1]), v, FALSE, "al")
        new == ReloadSR(w1, s)
        end == OrAt(w.ors, pos[2])
        w2 == GenReload(w1, s, end.id, v, "al")
        again == /\ ForwardDef(lt, pos[2]) = pos[2] + 1
                 /\ SharedSR(OrOf(w2, end.id)) = 0
    IN  IF pos[2] = Undef THEN w1
        ELSE IF pos[2] = LastPos(w.ors) THEN ReloadAtEnd(w1, s, v)
        ELSE IF new = s THEN w2
        ELSE IF again
        THEN RenameFollowed(GenReg(w2, v), w.ors, lt, pos[2], s, NewSR(w2))
        ELSE RenameAfterReload(w2, w.ors, lt, pos[2], s, new)

\* spillFirstDef: the second definition of lt1 if it is before lt2, or else its
\* first position, is stored.
SpillFirstDef(w, s, lt1, lt2) ==
    LET def == ForwardDef(lt1, First(lt1))
        p == IF def = Undef \/ def > First(lt2) THEN First(lt1) ELSE def
        w0 == GenSpillVar(w, s)
    IN  GenSpill(w0, s, IdAt(w.ors, p), w0.sr[s].spill, FALSE, "al")

\* Reload s at the use p, and rename what follows.  The result is a pair of
\* the block and the register that stands for s from there on.
ReloadAndRename(acc, ors, lt, p) ==
    LET v == acc.w.sr[acc.s].spill
        new == ReloadSR(acc.w, acc.s)
        w1 == GenReload(acc.w, acc.s, IdAt(ors, p), v, "al")
    IN  IF p = LastPos(ors) THEN [acc EXCEPT !.w = ReloadAtEnd(@, acc.s, v)]
        ELSE IF new = acc.s THEN [acc EXCEPT !.w = w1]
        ELSE [ w |-> RenameFollowed(w1, ors, lt, p, acc.s, new), s |-> new ]

\* The occurrences of a life time between two positions, one after the other
\* (the loops of splitTwoLTContained and splitTwoLTCross).
SpillRange(acc, ors, lt, low, high) ==
    LET Step(a, p) ==
            IF IsDefAt(lt, p)
            THEN LET w0 == GenSpillVar(a.w, a.s)
                 IN  [a EXCEPT !.w = GenSpill(w0, a.s, IdAt(ors, p), w0.sr[a.s].spill, TRUE, "al")]
            ELSE ReloadAndRename([a EXCEPT !.w = GenSpillVar(a.w, a.s)], ors, lt, p)
    IN  FoldLeft(Step, acc,
                 SetToSortSeq(Occs(ors, lt) \cap (low .. high), <))

\* Mutant: the use behind the hole is not reloaded.
MutReloadRemainder(acc, ors, lt, p) == acc

\* The first use of the life time behind the hole.
ReloadRemainder(acc, ors, lt, p) ==
    LET next == ForwardOcc(ors, lt, p)
    IN  IF next = Undef \/ IsDefAt(lt, next) THEN acc
        ELSE ReloadAndRename(acc, ors, lt, next)

\* splitTwoLTContained: the occurrences of s1 where s2 lives and the use behind
\* are stored and reloaded; if there was one, so are all those of s2.
SplitTwoLTContained(w, ors, lts, s1, s2) ==
    LET low == First(lts[s2])
        high == LastOf(lts[s2])
        one == SpillRange([ w |-> w, s |-> s1 ], ors, lts[s1], low, high)
        rest == ReloadRemainder(one, ors, lts[s1], high).w
    IN  IF Occs(ors, lts[s1]) \cap (low .. high) = {} THEN rest
        ELSE PureSpill(rest, ors, s2, lts[s2])

\* splitTwoLTCross: the occurrences of both where both live.
SplitTwoLTCross(w, ors, lts, s1, s2) ==
    LET low == First(lts[s2])
        high == LastOf(lts[s1])
        one == SpillRange([ w |-> w, s |-> s1 ], ors, lts[s1], low, high)
        two == SpillRange([ w |-> one.w, s |-> s2 ], ors, lts[s2], low, high)
    IN  ReloadRemainder(two, ors, lts[s2], high).w

\* splitTwoLT: the one that starts first is stored, then they are split.  Two that
\* start together and neither inside the other are asserted not to come; without
\* the assertion only the store of the first definition is left.
SplitTwoLT(w, lts, a, b) ==
    LET In(s, t) == ContainedInRange(First(lts[s]), LastOf(lts[s]),
                                     First(lts[t]), LastOf(lts[t]))
        swap == In(b, a) \/ First(lts[a]) > First(lts[b])
        s1 == IF swap THEN b ELSE a
        s2 == IF swap THEN a ELSE b
        w0 == SpillFirstDef(w, s1, lts[s1], lts[s2])
    IN  IF In(s1, s2) THEN SplitTwoLTContained(w0, w.ors, lts, s1, s2)
        ELSE IF First(lts[s1]) < First(lts[s2]) THEN SplitTwoLTCross(w0, w.ors, lts, s1, s2)
        ELSE w0

\* Mutant: the candidate gives its register away and waits in its turn.
MutSplit(w, lts, s, cand, hashole) ==
    [w EXCEPT !.sr[s].phy = w.sr[cand].phy,
              !.sr[cand].phy = IF w.sr[cand].global \/ cand = s THEN @ ELSE 0]

\* LRA::split of s, when cand is the best candidate.
Split(w, lts, s, cand, hashole) ==
    LET holes == HolesFor(w.ors, lts[cand], lts[s])
    IN  IF hashole /\ cand # s /\ holes # {}
        THEN SplitLTAt(w, cand, lts[cand],
                       SplitPos(w, cand, lts[cand], ResideinHole(w.ors, lts[cand], lts[s])))
        ELSE IF cand = s \/ ~CanBeSpilled(lts, s)
        THEN PureSpill(w, w.ors, cand, lts[cand])
        ELSE SplitTwoLT(w, lts, s, cand)
=============================================================================
