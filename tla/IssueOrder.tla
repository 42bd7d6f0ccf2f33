----------------------------- MODULE IssueOrder -----------------------------
(***************************************************************************)
(* What a scheduler of a basic block promises, whatever it chooses: it     *)
(* gives the ORs of the block cycles in increasing order, an OR after      *)
(* everything it depends on and not before the results it waits for; it    *)
(* never gives an OR a second cycle, unless it starts all over again.      *)
(***************************************************************************)
EXTENDS Block

VARIABLES
    now,    \* the cycle being filled
    when    \* the cycle of each OR issued, Unissued for the others

Unissued == -1

Init ==
    /\ now = 0
    /\ when = [o \in ORsOf |-> Unissued]

\* What o waits for has been issued (or is a NOP, which may be left out).
Permitted(o) ==
    \A p \in ORsOf : DepsOf(p, o) # {} =>
        /\ when[p] # Unissued \/ bb[p].nop
        /\ when[p] # Unissued => LandedBy(p, o, when[p], now)

\* A set of ORs, perhaps none, is issued in this cycle.
Issue ==
    \E B \in SUBSET {o \in ORsOf : when[o] = Unissued} :
        /\ \A o \in B : Permitted(o)
        /\ when' = [o \in ORsOf |-> IF o \in B THEN now ELSE when[o]]
        /\ now' > now
        /\ UNCHANGED <<bb, edge>>

Restart ==
    /\ now' = 0
    /\ when' = [o \in ORsOf |-> Unissued]
    /\ UNCHANGED <<bb, edge>>

Next == Issue \/ Restart

Spec == Init /\ [][Next]_<<bb, edge, now, when>>
=============================================================================
