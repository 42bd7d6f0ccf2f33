------------------------------ MODULE MC_Code ------------------------------
(***************************************************************************)
(* Bytes of 2 bits: a word has the 256 values of 8 bits, two words 16      *)
(* bits.  Operands take the values at the ends of the ranges and on both   *)
(* sides of every carry; variables are local or global, near (an offset an *)
(* OR can hold) or far.                                                    *)
(***************************************************************************)
EXTENDS Lower

CONSTANTS Members   \* copies out of members of a structure behind a pointer

MC_Fill(x) == (3 * x + x \div 4) % 4

Cut(v, sz) == v % 2 ^ (ByteBits * sz)
Var(g, at_, sz, sg, v) ==
    [k |-> "var", g |-> g, at |-> at_, sz |-> sz, sg |-> sg, v |-> IF sz > 8 THEN 0 ELSE Cut(v, sz)]
Const(sz, sg, v) == [k |-> "const", sz |-> sz, sg |-> sg, v |-> v]
FpConst(sz, v) == [k |-> "fconst", sz |-> sz, sg |-> TRUE, v |-> v]
Ind(p, ofst, sz, sg, v) ==
    [k |-> "ind", base |-> p, ofst |-> ofst, sz |-> sz, sg |-> sg,
     v |-> IF sz > 8 THEN 0 ELSE Cut(v, sz)]
None == Const(4, TRUE, 0)

A1(sz, sg, v) == Var(FALSE, 4, sz, sg, v)       \* local, near
B1(sz, sg, v) == Var(TRUE, 20, sz, sg, v)       \* global
D1(sz) == Var(FALSE, 36, sz, TRUE, 0)           \* local, far
Ptr(v) == Var(FALSE, 56, 4, FALSE, v)           \* local, far

E(op, a, b, sz, sg) == [op |-> op, a |-> a, b |-> b, sz |-> sz, sg |-> sg]
S(k, e, d) == [k |-> k, e |-> e, d |-> d]
St(e) == S("st", e, D1(e.sz))

W == {0, 1, 127, 128, 255}
DW == {0, 1, 255, 256, 32767, 32768, 65535}
Vals(sz) == CASE sz = 1 -> {1, 2} [] sz = 2 -> {1, 8} [] sz = 4 -> W [] sz = 8 -> DW

Arithmetic ==
    {St(E(op, A1(sz, TRUE, x), B1(sz, TRUE, y), sz, TRUE)) :
        op \in {"add", "sub", "band", "xor", "mul"}, sz \in {4}, x \in W, y \in W}
    \cup {St(E(op, A1(sz, TRUE, x), B1(sz, TRUE, y), sz, TRUE)) :
        op \in {"add", "sub", "band", "xor", "mul"}, sz \in {8}, x \in DW, y \in DW}
    \cup {St(E("bor", A1(4, TRUE, x), B1(4, TRUE, y), 4, TRUE)) : x \in W, y \in W}

Division ==
    {St(E(op, A1(sz, sg, x), B1(sz, sg, y), sz, sg)) :
        op \in {"div", "rem"}, sz \in {4, 8}, sg \in BOOLEAN, x \in {1, 128, 255}, y \in {1, 127, 255}}

Unary ==
    {St(E("neg", a, None, sz, TRUE)) : sz \in {8}, a \in {A1(8, TRUE, x) : x \in DW} \cup {Const(8, TRUE, 256)}}
    \cup {St(E(op, A1(4, TRUE, x), None, 4, TRUE)) : op \in {"neg", "bnot"}, x \in W}
    \cup {St(E("neg", Const(4, TRUE, 5), None, 4, TRUE))}
    \cup {S("return", E("cvt", Var(g, at_, ssz, sg, x), None, dsz, TRUE), D1(4)) :
            <<ssz, dsz>> \in {<<1, 8>>, <<2, 4>>, <<4, 8>>, <<8, 4>>, <<8, 8>>}, sg \in BOOLEAN, x \in {1, 2, 128},
            g \in BOOLEAN, at_ \in {8, 24}}

Shifts ==
    {St(E(op, A1(sz, op # "lsr", x), b, sz, op # "lsr")) :
        op \in {"asr", "lsr", "lsl"}, sz \in {4, 8}, x \in {90, 129},
        b \in {Const(4, TRUE, n) : n \in {0, 1, 7, 8, 9, 15, 16, 17}}
              \cup {B1(4, TRUE, n) : n \in {0, 1, 7, 8, 9, 15, 16}}}
    \cup {St(E(op, A1(8, op # "lsr", x), b, 8, op # "lsr")) :
        op \in {"asr", "lsr", "lsl"}, x \in {23130, 33153},
        b \in {Const(4, TRUE, n) : n \in {0, 1, 7, 8, 9, 15, 16, 17}}
              \cup {B1(4, TRUE, n) : n \in {0, 1, 7, 8, 9, 15, 16}}}

Compare ==
    {S(k, E(op, A1(sz, sg, x), B1(sz, sg, y), 1, FALSE), D1(1)) :
        k \in {"st", "truebr", "falsebr"}, op \in Relations, sg \in BOOLEAN, sz \in {4},
        x \in {0, 127, 128, 255}, y \in {1, 127, 128}}
    \cup {S(k, E(op, A1(sz, sg, x), B1(sz, sg, y), 1, FALSE), D1(1)) :
        k \in {"truebr"}, op \in Relations, sg \in BOOLEAN, sz \in {8},
        x \in {0, 255, 256, 32768, 65535}, y \in {0, 1, 256, 32767, 32768}}
    \cup {S(k, E(op, A1(8, sg, x), B1(4, sg, y), 1, FALSE), D1(1)) :
        k \in {"st", "falsebr"}, op \in Relations, sg \in BOOLEAN,
        x \in {0, 128, 255, 65408}, y \in {0, 128}}

Floats ==
    {S(k, E(op, A1(4, TRUE, x), B1(4, TRUE, y), 1, FALSE), D1(1)) :
        k \in {"st", "truebr"}, op \in FpRelations, x \in {1, 254, 255}, y \in {1, 2}}
    \cup {S("falsebr", E(op, A1(4, TRUE, x), B1(4, TRUE, 1), 1, FALSE), D1(1)) :
        op \in FpRelations, x \in {1, 254}}
    \cup {St(E(op, A1(4, TRUE, 6), B1(4, TRUE, 3), 4, TRUE)) : op \in FpOps}
    \cup {St(E(x[1], A1(ssz, x[2], v), None, dsz, x[3])) :
        x \in {<<"i2f", FALSE, TRUE>>, <<"f2i", TRUE, FALSE>>} \cup FpConversions \X {TRUE} \X {TRUE},
        ssz \in {4, 8}, dsz \in {4, 8}, v \in {6, 60}}
    \cup {St(E(op, A1(ssz, TRUE, 200), None, dsz, TRUE)) :
        op \in FpConversions, ssz \in {4, 8}, dsz \in {4, 8}}

    \cup {St(E("fadd", FpConst(4, x), B1(4, TRUE, 3), 4, TRUE)) : x \in {6, 200}}
    \cup {St(E("f2f", FpConst(8, x), None, 4, TRUE)) : x \in {60, 65000}}
    \cup {St(E("leaf", FpConst(sz, 200), None, sz, TRUE)) : sz \in {4, 8}}

\* The adjustments of the stack pointer, parameters stored back, and goto.
Stack ==
    {S("alloca", E("leaf", a, None, 4, FALSE), D1(4)) :
        a \in {A1(4, FALSE, v) : v \in {0, 8, 40}} \cup {Const(4, FALSE, 16)}}
    \cup {S("spadjust", E("leaf", Const(4, TRUE, n), None, 4, TRUE), D1(4)) :
        n \in {-40, -8, -4, 4, 8, 40}}
    \cup {S("param", E("arg", Const(4, FALSE, k), None, 4, FALSE), Var(FALSE, at_, 4, FALSE, 0)) :
        k \in 1 .. 4, at_ \in {4, 12, 16, 40}}
    \cup {S("goto", E("leaf", None, None, 4, TRUE), D1(4))}

\* Loads and stores of every size, kind and distance.
Places(sz) ==
    {Var(g, at_, sz, TRUE, 0) : g \in BOOLEAN, at_ \in {12, 36}}
    \cup {Ind(Ptr(36), ofst, sz, TRUE, 0) : ofst \in {0, 10, 14, 18} \cap 0 .. 20 - sz}
    \cup {Ind(Ptr(40), -4, sz, TRUE, 0)}
Leaves(sz, v) ==
    {Var(g, at_, sz, sg, v) : g \in BOOLEAN, at_ \in {4, 24}, sg \in BOOLEAN}
    \cup {Const(sz, sg, v) : sg \in BOOLEAN}
    \cup {Ind(Var(TRUE, 8, 4, FALSE, 20), ofst, sz, TRUE, v) : ofst \in {0, 7, 14}}
Moves ==
    {S(IF d.k = "ind" THEN "ist" ELSE "st", E("leaf", a, None, a.sz, a.sg), d) :
        a \in UNION {Leaves(sz, v) : sz \in {1}, v \in {1, 2}} \cup UNION {Leaves(2, v) : v \in {7, 8}},
        d \in Places(1) \cup Places(4)}
    \cup {S(IF d.k = "ind" THEN "ist" ELSE "st", E("leaf", a, None, a.sz, a.sg), d) :
        a \in Leaves(4, 129) \cup Leaves(8, 33153),
        d \in Places(1) \cup Places(2) \cup Places(4)}
    \cup {S(IF d.k = "ind" THEN "ist" ELSE "st", E("leaf", a, None, a.sz, a.sg), d) :
        a \in Leaves(4, 129) \cup Leaves(8, 33153), d \in Places(8)}

Copies ==
    {S(k, E("leaf", a, None, n, FALSE), d) :
        <<k, d>> \in {<<"st_mc", Var(FALSE, 36, 16, FALSE, 0)>>,
                      <<"return_mc", Var(FALSE, 36, 16, FALSE, 0)>>,
                      <<"ist_mc", Ind(Ptr(32), 4, 16, FALSE, 0)>>,
                      <<"ist_mc", Ind(Ptr(36), 0, 16, FALSE, 0)>>},
        n \in {16},
        a \in {Var(FALSE, 4, 16, FALSE, 0), Var(TRUE, 4, 16, FALSE, 0),
               Ind(Var(TRUE, 60, 4, FALSE, 10), 0, 16, FALSE, 0)}}
    \cup {S("return_mc", E("leaf", Var(g, 4, n, FALSE, 0), None, n, FALSE),
            Var(FALSE, 36, n, FALSE, 0)) : n \in {9, 10, 11, 12, 13, 14, 16, 18}, g \in BOOLEAN}

MC_Stmts ==
    IF Members
    THEN {S("st_mc", E("leaf", Ind(Var(TRUE, 60, 4, FALSE, 10), ofst, 12, FALSE, 0), None, 12, FALSE),
            Var(FALSE, 36, 12, FALSE, 0)) : ofst \in {0, 4}}
    ELSE Arithmetic \cup Division \cup Unary \cup Shifts \cup Compare \cup Floats \cup Stack \cup Moves \cup Copies
=============================================================================
