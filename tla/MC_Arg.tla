------------------------------- MODULE MC_Arg -------------------------------
(***************************************************************************)
(* ArgPass with r0 to r3 and the signatures of up to five parameters of a  *)
(* menu of scalars and structs.                                            *)
(***************************************************************************)
EXTENDS ArgPass

Scalar(n) == [size |-> n, mc |-> FALSE]
Struct(n) == [size |-> n, mc |-> TRUE]
I8 == Scalar(1)
I16 == Scalar(2)
I32 == Scalar(4)
I64 == Scalar(8)

SigsOver(S, n) == UNION {[1 .. k -> S] : k \in 0 .. n}
Wide(s) == {i \in DOMAIN s : s[i].size >= 8}

\* One argument of two words or more among words: it never follows an odd
\* number of words on the stack.  A struct of two words that follows an odd
\* number of registers is left out: the caller skips a register for it, the
\* callee does not.
OneWide == {s \in SigsOver({I32, I64, Struct(8), Struct(12), Struct(20)}, 5) :
              /\ \A i, j \in Wide(s) : i = j
              /\ \A i \in DOMAIN s : s[i] = Struct(8) => i \notin {2, 4}}
\* Everything a multiple of two words.
AllWide == SigsOver({I64, Struct(8), Struct(16)}, 4)
\* Narrow scalars without a two word scalar.
Narrow == SigsOver({I8, I16, I32, Struct(4), Struct(12)}, 3)
          \cup SigsOver({I8, I32}, 6)

MCSignatures == OneWide \cup AllWide \cup Narrow

=============================================================================
