------------------------------ MODULE MC_Tree ------------------------------
(***************************************************************************)
(* FrontEnd on small functions: every expression of two levels over a menu *)
(* of variables, fields, array elements and what changes them, as a        *)
(* statement, a value returned, a condition, and a loop.                   *)
(*                                                                         *)
(*   int i, j, g, a[2], m[2][2], *p = a; char c;                           *)
(*   struct pair {int x, y;} s, *q = &s; struct triple {int x, y, z;} t;   *)
(*   struct outer {struct pair in; int v[2];} o, *r = &o;                  *)
(*   int f(int), h a pointer to f; struct pair mk2(int);                   *)
(*   struct triple mk3(int);                                               *)
(***************************************************************************)
EXTENDS FrontEnd

MCSize == [int |-> 1, char |-> 1, bool |-> 1, fun |-> 1, pint |-> 1, ppair |-> 1,
           pouter |-> 1, pfun |-> 1, parr |-> 1, pmat |-> 1, pair |-> 2, triple |-> 3,
           arr |-> 2, mat |-> 4, outer |-> 4]
MCLimit == [int |-> 64, char |-> 4, bool |-> 2, fun |-> 64, pint |-> 64, ppair |-> 64,
            pouter |-> 64, pfun |-> 64, parr |-> 64, pmat |-> 64]
MCTo == [pint |-> "int", ppair |-> "pair", pouter |-> "outer", pfun |-> "fun",
         parr |-> "arr", pmat |-> "mat", arr |-> "int", mat |-> "arr"]
MCFieldOfst == [pair |-> [x |-> 0, y |-> 1], triple |-> [x |-> 0, y |-> 1, z |-> 2],
                outer |-> [in |-> 0, v |-> 2]]
MCFunctions == <<[ty |-> "int", what |-> "count"], [ty |-> "pair", what |-> "words"],
                 [ty |-> "triple", what |-> "words"]>>

\* The variables, with their addresses.
Var(ty, n) == Tree("id", ty, "", <<>>, n)
i == Var("int", 1)
j == Var("int", 2)
c == Var("char", 3)
g == Var("int", 4)
p == Var("pint", 5)
q == Var("ppair", 6)
r == Var("pouter", 7)
h == Var("pfun", 8)
a == Var("arr", 9)
m == Var("mat", 11)
s1 == Var("pair", 15)
t1 == Var("triple", 17)
o == Var("outer", 20)
MCVariables == 1 .. 23
MCParamRetBuf == 24
MCParamBuf == 25
MCRetBuf(n) == 28 + n
MCLocalCopy(k) == 35 + 2 * k
MCMemory0 == [x \in 1 .. 40 |->
    CASE x = 1 -> 1 [] x = 2 -> 0 [] x = 3 -> 3 [] x = 4 -> 2 [] x = 5 -> 9 [] x = 6 -> 15
      [] x = 7 -> 20 [] x = 8 -> 1 [] x = 24 -> 25 [] x \in 9 .. 23 -> x - 8 [] OTHER -> 0]

Imm(n) == Tree("imm", "int", "", <<>>, n)
Un(k, ty, e) == Tree(k, ty, "", <<e>>, 0)
Bin(op, x, y) == Tree("bin", x.ty, op, <<x, y>>, 0)
AndThen(x, y) == Tree("and", "int", "", <<x, y>>, 0)
OrElse(x, y) == Tree("or", "int", "", <<x, y>>, 0)
Cond(x, y, z) == Tree("cond", "int", "", <<x, y, z>>, 0)
List(es) == Tree("list", Last(es).ty, "", es, 0)
None == Tree("none", "", "", <<>>, 0)
Set(op, x, y) == Tree("assign", x.ty, op, <<x, y>>, 0)
Inc(k, op, x) == Tree(k, x.ty, op, <<x>>, 0)
LdaOf(e, ty) == Tree("lda", ty, "", <<e>>, 0)
Elem(x, k) == Tree("array", To[To[x.ty]], "", <<x, k>>, 0)
Sub(x, k) == Tree("array", To[x.ty], "", <<x, k>>, 0)
Dot(e, fd, ty) == Tree("dmem", ty, fd, <<e>>, 0)
Arrow(e, fd, ty) == Tree("indmem", ty, fd, <<e>>, 0)
Fun(n) == Tree("fun", "fun", "", <<>>, n)
CallOf(f, x) == Tree("call", Functions_[f].ty, "", <<Fun(f), x>>, 0)
CallBy(x) == Tree("call", "int", "", <<Un("deref", "fun", h), x>>, 0)
Scope(ts) == Tree("scope", "", "", ts, 0)
IfElse(x, y, z) == Tree("if", "", "", <<x, y, z>>, 0)
While(x, y) == Tree("while", "", "", <<x, y>>, 0)
DoUntil(y, x) == Tree("do", "", "", <<y, x>>, 0)
For(x, y, z, b) == Tree("for", "", "", <<x, y, z, b>>, 0)
SwitchOn(x, ts) == Tree("switch", "", "", <<x, Scope(ts)>>, 0)
Case(n) == Tree("case", "", "", <<>>, n)
Default == Tree("default", "", "", <<>>, 0)
Break == Tree("break", "", "", <<>>, 0)
Continue == Tree("continue", "", "", <<>>, 0)
Ret(e) == Tree("return", "", "", <<e>>, 0)

Deref(e) == Un("deref", To[e.ty], e)
A == LdaOf(a, "parr")
M == LdaOf(m, "pmat")
OV == LdaOf(Dot(o, "v", "arr"), "parr")

\* What can be read and written.
Lvalues == {i, j, c, Deref(p), Elem(A, i), Sub(p, Imm(1)), Sub(Elem(M, i), j),
            Dot(s1, "y", "int"), Arrow(q, "y", "int"), Dot(Dot(o, "in", "pair"), "y", "int"),
            Dot(Arrow(r, "in", "pair"), "x", "int"), Elem(OV, j), Arrow(q, "x", "int"),
            Elem(LdaOf(Arrow(r, "v", "arr"), "parr"), i), Dot(Deref(q), "y", "int")}
Atoms == {Imm(2), i, j, c, g}

\* What changes something.
Steps == {Inc(k, op, x) : k \in {"pre", "post"}, op \in {"+", "-"}, x \in {i, j}}
         \cup {Inc(k, "+", x) : k \in {"pre", "post"}, x \in Lvalues \cup {p}}
Sets == {Set(op, x, y) : op \in {"=", "+"}, x \in {i, j, c}, y \in Atoms}
Calls == {CallOf(1, i), CallOf(1, j), CallBy(i), Dot(CallOf(2, i), "y", "int"),
          Dot(CallOf(3, i), "z", "int")}
Effects == {Inc("post", "+", i), Inc("pre", "-", j), Set("=", i, j), Set("+", j, i),
            CallOf(1, i), CallOf(1, Inc("post", "+", i)), Set("=", c, Imm(6))}
Reads == {Elem(A, i), Deref(p), Sub(p, i), Dot(s1, "y", "int"), Arrow(q, "y", "int"),
          Deref(Bin("+", p, Imm(1))), Un("deref", "int", A), Deref(LdaOf(i, "pint")),
          Sub(LdaOf(Sub(p, Imm(0)), "pint"), Imm(1)),
          Sub(LdaOf(Sub(Elem(M, i), Imm(0)), "pint"), j), Un("cvt", "char", Imm(6)),
          Deref(LdaOf(Arrow(q, "y", "int"), "pint")), Deref(Inc("post", "+", p)),
          Deref(LdaOf(Elem(OV, i), "pint"))}

Simple == Atoms \cup Steps \cup Sets \cup Calls \cup Reads
Operands == {Imm(1), i, j} \cup Effects
Compound ==
    {Bin(op, x, y) : op \in {"+", "-", "*", "<", "=="}, x \in Operands, y \in Operands}
    \cup {Bin(op, i, Imm(3)) : op \in {"/", "%", "&", "|", "^", "<<", ">>", ">", "<=", ">=", "!="}}
    \cup {AndThen(x, y) : x \in Operands, y \in Operands}
    \cup {OrElse(x, y) : x \in Operands, y \in Operands}
    \cup {Cond(x, y, z) : x \in Operands, y \in {i, j, Inc("post", "+", j)}, z \in {Imm(3), Set("=", i, Imm(3))}}
    \cup {Cond(AndThen(x, j), i, List(<<i, j>>)) : x \in Operands}
    \cup {Un(k, "int", x) : k \in {"minus", "rev", "not"}, x \in Operands}
Deep == {AndThen(OrElse(x, y), z) : x, y, z \in {i, Inc("post", "+", i), Inc("pre", "-", j), CallOf(1, j)}}
        \cup {OrElse(AndThen(x, y), z) : x, y, z \in {i, Inc("post", "+", i), Inc("pre", "-", j), CallOf(1, j)}}

Exprs == Simple \cup Compound \cup Deep

\* Assignments of whole structures, and large values returned.
Structs == {Set("=", s1, CallOf(2, i)), Set("=", t1, CallOf(3, Inc("post", "+", i))),
            Set("=", Deref(q), CallOf(2, j)), Set("=", s1, Arrow(r, "in", "pair")),
            Set("=", Dot(o, "in", "pair"), s1), CallOf(3, i)}

Assigned == {Set(op, x, y) : op \in {"=", "+"}, x \in Lvalues,
                             y \in Effects \cup Reads \cup {Bin("*", i, Inc("post", "+", j)), AndThen(i, j)}}
            \cup {Set("=", j, e) : e \in Compound}
            \cup {Set("=", p, e) : e \in {A, Bin("+", A, i), LdaOf(Elem(A, i), "pint"),
                                          LdaOf(Dot(s1, "y", "int"), "pint"), Inc("post", "+", p),
                                          LdaOf(Sub(Elem(M, i), j), "pint"), Bin("+", p, i),
                                          LdaOf(Arrow(q, "y", "int"), "pint"),
                                          LdaOf(Dot(Arrow(r, "in", "pair"), "y", "int"), "pint")}}
            \cup {Set("=", Deref(Inc("post", "+", p)), e) : e \in {i, Inc("post", "+", i), CallOf(1, i)}}

Conditions == {i, Inc("post", "-", i), Bin("<", Inc("post", "+", i), Imm(3)),
               AndThen(Bin("<", i, Imm(3)), Inc("pre", "+", i)), Bin("<", CallOf(1, i), Imm(6)),
               AndThen(Bin("<", i, Imm(3)), CallOf(1, i)), List(<<Inc("pre", "+", i), Bin("<", i, Imm(4))>>),
               OrElse(Bin("<", i, Imm(3)), Bin("<", Set("=", i, Bin("+", i, j)), Imm(3)))}
Bump == Inc("post", "+", j)
Bodies == {Scope(<<Bump, Inc("pre", "+", i)>>),
           Scope(<<Inc("post", "+", i), IfElse(Bin("==", j, Imm(1)), Break, None), Bump>>),
           Scope(<<Inc("post", "+", i), Bump, IfElse(Bin("==", i, Imm(2)), Continue, None),
                   Set("+", g, Imm(2))>>),
           Scope(<<SwitchOn(j, <<Case(1), Break, Case(0), Bump, Continue, Default, Bump>>),
                   Set("+", g, Imm(3)), Inc("post", "+", i)>>),
           Scope(<<For(Set("=", j, Imm(0)), Bin("<", j, Imm(2)), Bump,
                       IfElse(j, Break, Continue)), Inc("pre", "+", i)>>)}
Loops == {While(x, y) : x \in Conditions, y \in Bodies}
         \cup {DoUntil(y, x) : x \in Conditions, y \in Bodies}
         \cup {For(Set("=", i, Imm(0)), x, z, y) : x \in Conditions \cup {None}, y \in Bodies,
                                                   z \in {Inc("post", "+", i), List(<<Inc("pre", "+", i), Set("=", g, i)>>)}}
Switches == {SwitchOn(x, y) : x \in {i, j, Bin("+", i, j), Inc("post", "+", i), CallOf(1, i), Set("=", i, j)},
                y \in {<<Case(0), Bump, Break, Case(1), Set("=", g, Imm(7)), Case(2), Bump>>,
                       <<Default, Bump, Case(1), Break, Case(2), Inc("pre", "+", g)>>,
                       <<Case(3), Ret(i), Default, Ret(j)>>}}

Functions == {<<e, Ret(Imm(0))>> : e \in Exprs \cup Assigned \cup Structs}
             \cup {<<Ret(e)>> : e \in Exprs \cup {CallOf(2, i), CallOf(3, i), s1, t1}}
             \cup {<<IfElse(e, Set("=", g, i), Set("=", g, j))>> : e \in Exprs}
             \cup {<<l, Ret(i)>> : l \in Loops \cup Switches}

-----------------------------------------------------------------------------
(* What is left out: functions C does not define, and those with one of    *)
(* the known divergences.                                                  *)

RECURSIVE Within(_)
Within(x) == {x} \cup UNION {Within(x.kids[n]) : n \in DOMAIN x.kids}
Has(kinds, x) == \E y \in Within(x) : y.k \in kinds
Changes == {"assign", "pre", "post", "call"}

\* A conditional expression whose arms change something: both are done.
ArmsChange(x) == x.k = "cond" /\ (Has(Changes, x.kids[2]) \/ Has(Changes, x.kids[3]))

\* An increment left to the end of an assignment or of the condition of a do,
\* with a sequence point before that.
Delayed(x) ==
    \E y \in CASE x.k = "assign" -> Within(x) [] x.k = "do" -> Within(x.kids[2]) [] OTHER -> {} :
        y.k \in {"and", "or", "cond", "call", "list"} /\ Has({"post"}, y)

\* The value of an assignment is what its right side is worth afterwards.
ValueReread(x) ==
    \E n \in DOMAIN x.kids :
       LET y == x.kids[n]
       IN  /\ x.k \notin {"scope", "for"} \/ (x.k = "for" /\ n = 2)
           /\ y.k = "assign"
           /\ \/ y.op # "=" \/ y.ty = "char" \/ Has({"post"}, y)
              \/ Lchild(y) \in Within(Rchild(y))

\* ++ of a field does not add its offset.
FieldChanged(x) ==
    /\ x.k \in {"pre", "post"}
    /\ Lchild(x).k \in {"dmem", "indmem"}
    /\ ~(x.k = "post" /\ ~Has({"indmem", "deref"}, Lchild(x)))

\* The statements of the condition of a switch are dropped.
SwitchChanges(x) == x.k = "switch" /\ Has(Changes, x.kids[1])

\* A continue does not repeat the statements of the condition.
RECURSIVE Continues(_)
Continues(x) ==
    x.k = "continue" \/ (x.k \notin {"while", "do", "for"} /\ \E n \in DOMAIN x.kids : Continues(x.kids[n]))
ContinueSkips(x) ==
    CASE x.k = "while" -> Continues(x.kids[2]) /\ Has(Changes, x.kids[1])
      [] x.k = "do" -> Continues(x.kids[1]) /\ Has(Changes, x.kids[2])
      [] x.k = "for" -> Continues(x.kids[4]) /\ Has(Changes, x.kids[2])
      [] OTHER -> FALSE

\* The address of a field of a field of what a pointer points to.
AddressOfField(x) ==
    x.k = "lda" /\ Lchild(x).k = "dmem" /\ Has({"indmem", "deref"}, Lchild(Lchild(x)))

Known(ts) ==
    \E n \in DOMAIN ts : \E x \in Within(ts[n]) :
        \/ ArmsChange(x) \/ Delayed(x) \/ ValueReread(x) \/ FieldChanged(x)
        \/ SwitchChanges(x) \/ ContinueSkips(x) \/ AddressOfField(x)

MCPrograms == {ts \in Functions : ~Known(ts) /\ Exec(ts, MCMemory0, Fuel).ok}
=============================================================================
