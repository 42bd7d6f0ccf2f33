------------------------------ MODULE MC_Frame ------------------------------
(***************************************************************************)
(* Frame for functions of up to three variables of several sizes, up to    *)
(* two calls and up to five parameters: words, a pair of words after a word,*)
(* a struct of two words and a byte.                                       *)
(***************************************************************************)
EXTENDS Frame

CONSTANTS a, b, c

Sizes == {1, 4, 6}
\* Calls: a statement with seven words, one with five bytes of arguments, and a
\* call of the run-time library conversion adds.
Seven == [early |-> 28, sect |-> 28, stk |-> 12]
Five  == [early |-> 5, sect |-> 8, stk |-> 0]
Lib   == [early |-> 0, sect |-> 32, stk |-> 16]

Scalar(n) == [size |-> n, mc |-> FALSE]
Struct(n) == [size |-> n, mc |-> TRUE]
Params(n) == [i \in 1 .. n |-> Scalar(4)]
\* A skipped register, none, and a byte that takes all the registers.
Mixed == {<<Scalar(4), Scalar(8), Scalar(4)>>, <<Scalar(4), Struct(8)>>, <<Scalar(1)>>}
VarSizes == UNION {[V -> Sizes] : V \in {{}, {a, b}}} \cup [{a, b, c} -> {4, 6}]

MCUnits == [size : VarSizes, formal : {Params(n) : n \in {0, 1, 5}} \cup Mixed,
            calls : {{}, {Seven}, {Five, Lib}, {Seven, Lib}}, alloca : BOOLEAN]

\* A function that calls alloca and passes arguments on the stack.
AllocaUnits == {u \in MCUnits : u.alloca /\ u.calls = {Seven}}
=============================================================================
