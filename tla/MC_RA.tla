------------------------------- MODULE MC_RA -------------------------------
(***************************************************************************)
(* Small functions for RegAlloc, with two or three registers to allocate.  *)
(* r0 is register 1, r4 is 5, lr is 15.                                    *)
(***************************************************************************)
EXTENDS RegAlloc

CONSTANT Cases      \* the functions that a configuration considers

Ded(s) == IF s = 1 THEN GlobalSR(1) ELSE IF s = 2 THEN GlobalSR(15) ELSE LocalSR(0)
SRs(n) == [s \in 1 .. n |-> Ded(s)]

Function(blocks, n, paths) ==
    [ bbs |-> blocks, sr |-> SRs(n), paths |-> paths, lr |-> 2, ret |-> {1} ]

Def(id, s) == Op(id, "op", <<s>>, <<>>, "al")
Use(id, d, uses) == Op(id, "op", <<d>>, uses, "al")
Ret(id) == Op(id, "ret", <<>>, <<1>>, "al")
Br(id) == Op(id, "br", <<>>, <<>>, "al")

\* Three values that are used in the order of their definitions.
Fifo == Function(<< << Def(1, 3), Def(2, 4), Def(3, 5), Use(4, 6, <<3>>),
                       Use(5, 7, <<4, 6>>), Use(6, 1, <<5, 7>>), Ret(7) >> >>, 7, {<<1>>})

\* ... in the opposite order, with one that is changed on the way.
Lifo == Function(<< << Def(1, 3), Def(2, 4), Def(3, 5), Use(4, 4, <<4, 5>>),
                       Use(5, 6, <<4>>), Use(6, 1, <<3, 6>>), Ret(7) >> >>, 6, {<<1>>})

\* Two definitions under opposite predicates, and a use under one.
Pred == Function(<< << Def(1, 3), Def(2, 4), Def(3, 5),
                       Op(4, "op", <<6>>, <<3>>, "eq"), Op(5, "op", <<7>>, <<6, 4>>, "eq"),
                       Use(6, 8, <<3, 4>>), Use(7, 1, <<5, 8>>), Ret(8) >> >>, 8, {<<1>>})

\* A loop that counts in a register of three blocks.
Loop == Function(<< << Def(1, 3), Br(2) >>,
                    << Def(3, 4), Use(4, 3, <<3, 4>>), Br(5) >>,
                    << Use(6, 1, <<3>>), Ret(7) >> >>, 4,
                 {<<1, 2, 3>>, <<1, 2, 2, 3>>})

\* A value that lives across a call.
Call == Function(<< << Def(1, 3), Use(2, 1, <<3>>), Op(3, "call", <<2, 1>>, <<1>>, "al") >>,
                    << Use(4, 4, <<1>>), Use(5, 1, <<3, 4>>), Ret(6) >> >>, 4, {<<1, 2>>})

\* Two blocks that have nothing in common; the second finds the slot of the first.
Blocks == Function(<< << Def(1, 3), Def(2, 4), Def(3, 5), Use(4, 6, <<3, 4>>),
                         Op(5, "op", <<>>, <<5, 6>>, "al"), Br(6) >>,
                      << Def(7, 7), Def(8, 8), Def(9, 9), Use(10, 10, <<7, 8>>),
                         Use(11, 1, <<9, 10>>), Ret(12) >> >>, 10, {<<1, 2>>})

\* A value that is used, changed and used again inside the life of another.
Redef == Function(<< << Def(1, 3), Def(2, 4), Def(3, 5), Use(4, 6, <<4>>),
                        Use(5, 4, <<3, 6>>), Use(6, 8, <<4, 4>>), Use(7, 1, <<5, 8>>),
                        Ret(8) >> >>, 8, {<<1>>})

\* A value that is changed where its hole ends.
Upd == Function(<< << Def(1, 3), Def(2, 5), Def(3, 6), Use(4, 7, <<5, 6>>),
                      Use(5, 3, <<3, 7>>), Def(6, 8), Use(7, 1, <<3, 8>>), Ret(8) >> >>,
                8, {<<1>>})

\* The dedicated register of the return value is written before it must be, and
\* the second time also read.
Early == Function(<< << Def(1, 1), Def(2, 5), Def(3, 6), Def(4, 3), Use(5, 7, <<5, 6>>),
                        Use(6, 1, <<3, 7>>), Ret(7) >> >>, 7, {<<1>>})
Kept == Function(<< << Def(1, 1), Def(2, 5), Def(3, 6), Def(4, 3), Use(5, 7, <<5, 6>>),
                       Use(6, 8, <<3, 7>>), Use(7, 1, <<1, 8>>), Ret(8) >> >>, 8, {<<1>>})

\* A value of three blocks, and a block between that needs two slots.
Slots == Function(<< << Def(1, 3), Br(2) >>,
                     << Def(3, 4), Def(4, 5), Def(5, 6), Use(6, 7, <<4>>),
                        Use(7, 8, <<5, 7>>), Use(8, 1, <<6, 8>>), Br(9) >>,
                     << Use(10, 1, <<1, 3>>), Ret(11) >> >>, 8, {<<1, 2, 3>>})

All == [ fifo |-> Fifo, lifo |-> Lifo, pred |-> Pred, loop |-> Loop, call |-> Call,
         blocks |-> Blocks, redef |-> Redef, upd |-> Upd, early |-> Early, kept |-> Kept,
         slots |-> Slots ]

\* Three values that a chain of operations reads in every order, once or more
\* often, and one of whose operations may put its result over a value read.
Chain(u, y, x, r) ==
    Function(<< << Def(1, 3), Def(2, 4), Def(3, 5), Use(4, 6, u), Use(5, r, <<6, y>>),
                   Use(6, 1, <<r, x>>), Ret(7) >> >>, 7, {<<1>>})
Chains == {Chain(u, y, x, r) : u \in {<<3, 4>>, <<3, 5>>, <<4, 5>>}, y \in 3 .. 5,
                               x \in 3 .. 6, r \in {3, 4, 5, 7}}

MC_Programs == {All[c] : c \in Cases \cap DOMAIN All}
               \cup (IF "chains" \in Cases THEN Chains ELSE {})
=============================================================================
