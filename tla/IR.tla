--------------------------------- MODULE IR ---------------------------------
(***************************************************************************)
(* The IR of the xoc library as Tree2IR uses it: how expressions and       *)
(* statements are built and what an expression is worth.  An expression or *)
(* a statement is [k, ty, op, n, ofst, kids, body]: kind, type, operator,  *)
(* constant, address or number, offset, expressions, and lists of          *)
(* statements.                                                             *)
(***************************************************************************)
EXTENDS CTree

IR(k, ty, op, n, ofst, kids, body) ==
    [k |-> k, ty |-> ty, op |-> op, n |-> n, ofst |-> ofst, kids |-> kids, body |-> body]

ImmInt(n) == IR("const", "int", "", n, 0, <<>>, <<>>)
Id(f) == IR("id", "fun", "", f, 0, <<>>, <<>>)
Lda(a, ty) == IR("lda", ty, "", a, 0, <<>>, <<>>)
Load(a, ty) == IR("ld", ty, "", a, 0, <<>>, <<>>)
ILoad(base, ty) == IR("ild", ty, "", 0, 0, <<base>>, <<>>)
PR(n, ty) == IR("pr", ty, "", n, 0, <<>>, <<>>)
Unary(k, e) == IR(k, e.ty, "", 0, 0, <<e>>, <<>>)
Cvt(e, ty) == IR("cvt", ty, "", 0, 0, <<e>>, <<>>)
Cmp(op, l, r) == IR("bin", "bool", op, 0, 0, <<l, r>>, <<>>)
Select(det, texp, fexp, ty) == IR("select", ty, "", 0, 0, <<det, texp, fexp>>, <<>>)

\* An array element: base, subscripts from the lowest dimension up, the numbers
\* of elements of the dimensions, and the words of an element.
ArrayElem(base, subs, nums, ty) == IR("array", ty, nums, Size[ty], 0, <<base>> \o subs, <<>>)

\* buildBinaryOp counts in what a pointer points to, buildBinaryOpSimp does not.
BinaryOpSimp(op, ty, l, r) == IR("bin", ty, op, 0, 0, <<l, r>>, <<>>)
BinaryOp(op, ty, l, r) ==
    BinaryOpSimp(op, ty, l,
                 IF op \in {"+", "-"} /\ Scale(ty) # 1
                 THEN BinaryOpSimp("*", "int", r, ImmInt(Scale(ty))) ELSE r)

IsJudge(e) == e.k \in {"land", "lor", "lnot"} \/ (e.k = "bin" /\ e.ty = "bool")
Judge(e) == IF IsJudge(e) THEN e ELSE Cmp("!=", e, ImmInt(0))
Invert(e) == IR("lnot", "bool", "", 0, 0, <<Judge(e)>>, <<>>)

HasOffset(e) == e.k \in {"ld", "ild", "lda", "array"}
IsPR(e) == e.k = "pr"

Store(a, ty, ofst, rhs) == IR("st", ty, "", a, ofst, <<rhs>>, <<>>)
IStore(base, ty, ofst, rhs) == IR("ist", ty, "", 0, ofst, <<rhs, base>>, <<>>)
StoreArray(l, ofst, rhs) == IR("starray", l.ty, l.op, l.n, ofst, <<rhs>> \o l.kids, <<>>)
StorePR(n, ty, rhs) == IR("stpr", ty, "", n, 0, <<rhs>>, <<>>)
Call(pr, ty, callee, args) == IR("call", ty, "", pr, 0, <<callee>> \o args, <<>>)
If(det, truebody, falsebody) == IR("if", "", "", 0, 0, <<det>>, <<truebody, falsebody>>)
WhileDo(det, body) == IR("while", "", "", 0, 0, <<det>>, <<body>>)
DoWhile(det, body) == IR("do", "", "", 0, 0, <<det>>, <<body>>)
Jump(k) == IR(k, "", "", 0, 0, <<>>, <<>>)
Ilabel(lab) == IR("label", "", "", lab, 0, <<>>, <<>>)
Return(exps) == IR("return", "", "", 0, 0, exps, <<>>)

\* cases gives a value the label it goes to, deflab is 0 if there is none.
Switch(vexp, cases, body, deflab) == IR("switch", "", cases, deflab, 0, <<vexp>>, <<body>>)

Stmts == {"st", "ist", "starray", "stpr", "call", "if", "while", "do", "switch", "break",
          "continue", "label", "return"}
IsStmt(e) == e.k \in Stmts
RHS(s) == s.kids[1]

RECURSIVE Val(_, _, _), Subscript(_, _, _, _)

\* The number of an element: subs and nums begin with the lowest dimension.
Subscript(subs, nums, m, prs) ==
    IF subs = <<>> THEN 0
    ELSE Val(Head(subs), m, prs) + Head(nums) * Subscript(Tail(subs), Tail(nums), m, prs)

\* kids are the base and the subscripts, e an array element or a store to one.
ElemAddr(e, kids, m, prs) ==
    Val(Head(kids), m, prs) + e.ofst + e.n * Subscript(Tail(kids), e.op, m, prs)

\* The value of an expression in memory m with the PRs prs.
Val(e, m, prs) ==
    LET v == [j \in DOMAIN e.kids |-> Val(e.kids[j], m, prs)]
    IN  CASE e.k \in {"const", "id"} -> e.n
          [] e.k = "lda" -> e.n + e.ofst
          [] e.k = "ld" -> Read(m, e.n + e.ofst, e.ty)
          [] e.k = "ild" -> Read(m, v[1] + e.ofst, e.ty)
          [] e.k = "array" -> Read(m, ElemAddr(e, e.kids, m, prs), e.ty)
          [] e.k = "pr" -> IF e.n \in DOMAIN prs THEN prs[e.n] ELSE 0
          [] e.k = "cvt" -> Fit(e.ty, v[1])
          [] e.k = "neg" -> Wrapped(-v[1])
          [] e.k = "bnot" -> Wrapped(-1 - v[1])
          [] e.k = "lnot" -> Bool(v[1] = 0)
          [] e.k = "land" -> Bool(v[1] # 0 /\ v[2] # 0)
          [] e.k = "lor" -> Bool(v[1] # 0 \/ v[2] # 0)
          [] e.k = "select" -> IF v[1] # 0 THEN v[2] ELSE v[3]
          [] e.k = "bin" -> Op2(e.op, v[1], v[2])

\* The PRs an expression reads.
RECURSIVE PRsOf(_)
PRsOf(e) == (IF IsPR(e) THEN {e.n} ELSE {}) \cup UNION {PRsOf(e.kids[j]) : j \in DOMAIN e.kids}
=============================================================================
