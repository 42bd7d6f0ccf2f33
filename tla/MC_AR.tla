------------------------------- MODULE MC_AR -------------------------------
(***************************************************************************)
(* AssignReg on every block of OrCount ORs of a menu with a pair load and  *)
(* a pair store, predicated definitions and copies from and to a dedicated *)
(* and a global SR.                                                        *)
(***************************************************************************)
EXTENDS AssignReg, TLC

CONSTANTS a, b, c, r0, g, OrCount, Menu

MCPhyReg == (a :> 0) @@ (b :> 0) @@ (c :> 0) @@ (r0 :> 1) @@ (g :> 5)

Op(res, opnd, cond, pair, copy) ==
    [res |-> res, opnd |-> opnd, cond |-> cond, pair |-> pair, copy |-> copy]

PairMenu == {
    Op(<<a, b>>, {r0}, FALSE, <<a, b>>, <<>>),      \* ldrd a, b = [r0]
    Op(<<>>, {a, b, c}, FALSE, <<a, b>>, <<>>),     \* strd a, b = [c]
    Op(<<c>>, {r0}, FALSE, <<>>, <<c, r0>>),        \* mov c, r0
    Op(<<c>>, {b}, TRUE, <<>>, <<c, b>>),           \* moveq c, b
    Op(<<r0>>, {a, c}, FALSE, <<>>, <<>>),          \* add r0, a, c
    Op(<<a>>, {g}, FALSE, <<>>, <<a, g>>),          \* mov a, g
    Op(<<g>>, {b}, FALSE, <<>>, <<g, b>>) }         \* mov g, b

\* The pair and the other operations of a function without global SRs.
LocalMenu == {o \in PairMenu : g \notin Results(o) \cup o.opnd}

MCBBs ==
    [ors : [1 .. OrCount -> Menu], exit : {TRUE}, livein : {{g}}, liveout : {{g}}]
=============================================================================
