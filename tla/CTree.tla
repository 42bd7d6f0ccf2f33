------------------------------- MODULE CTree -------------------------------
(***************************************************************************)
(* The trees of C functions that CTree2IR converts, as the front end       *)
(* leaves them (typed, an array as the address of the array), and what C   *)
(* says they do: Eval and Exec.                                            *)
(*                                                                         *)
(* Everything is made of words: a number or a pointer is one, a structure  *)
(* or an array several.  Numbers are not negative.  A tree is              *)
(* [k, ty, op, kids, n]: kind, type, operator or field, subtrees, and      *)
(* constant, address of a variable or number of a function.                *)
(***************************************************************************)
EXTENDS Integers, SequencesExt, Bitwise

CONSTANTS
    Size,       \* type -> words
    Limit,      \* type of one word -> number of its values
    To,         \* pointer or array type -> type of what it points to or holds
    FieldOfst,  \* structure type -> field -> offset
    Functions_, \* number of a function -> [ty, what], ty is what it returns
    G           \* the address of the variable that functions change

Values == Limit["int"]
Wrapped(n) == n % Values

Pointers == {ty \in DOMAIN To : Size[ty] = 1}
Arrays == DOMAIN To \ Pointers

Tree(k, ty, op, kids, n) == [k |-> k, ty |-> ty, op |-> op, kids |-> kids, n |-> n]
Lchild(t) == t.kids[1]
Rchild(t) == t.kids[2]

\* A tree and its siblings.
Siblings(t) == CASE t.k = "list" -> t.kids
                 [] t.k = "none" -> <<>>
                 [] OTHER -> <<t>>

Bool(b) == IF b THEN 1 ELSE 0

\* What an operator gives on two words.
Op2(op, x, y) ==
    CASE op = "+" -> Wrapped(x + y)
      [] op = "-" -> Wrapped(x - y)
      [] op = "*" -> Wrapped(x * y)
      [] op = "/" -> IF y = 0 THEN 0 ELSE x \div y
      [] op = "%" -> IF y = 0 THEN 0 ELSE x % y
      [] op = "&" -> x & y
      [] op = "|" -> x | y
      [] op = "^" -> x ^^ y
      [] op = "<<" -> Wrapped(x * 2 ^ (y % 6))
      [] op = ">>" -> x \div 2 ^ (y % 6)
      [] op = "<" -> Bool(x < y)
      [] op = ">" -> Bool(x > y)
      [] op = "<=" -> Bool(x <= y)
      [] op = ">=" -> Bool(x >= y)
      [] op = "==" -> Bool(x = y)
      [] op = "!=" -> Bool(x # y)

\* Pointers count in what they point to.
Scale(ty) == IF ty \in Pointers THEN Size[To[ty]] ELSE 1
Scaled(ty, op, v) == IF op \in {"+", "-"} THEN v * Scale(ty) ELSE v

\* A value as one of a type.
Fit(ty, v) == IF Size[ty] = 1 THEN v % Limit[ty] ELSE v

Cells(a, ty) == a .. a + Size[ty] - 1
At(m, a) == IF a \in DOMAIN m THEN m[a] ELSE 0
Read(m, a, ty) == IF Size[ty] = 1 THEN At(m, a) ELSE [j \in 1 .. Size[ty] |-> At(m, a + j - 1)]
Write(m, a, ty, v) ==
    [x \in DOMAIN m |->
        IF x \notin Cells(a, ty) THEN m[x]
        ELSE IF Size[ty] = 1 THEN Fit(ty, v) ELSE v[x - a + 1]]

\* A function returns n, n + 1 and so on, and one that counts its calls adds
\* their number.
Returned(f, n, m) ==
    IF Functions_[f].what = "count" THEN Wrapped(n + m[G])
    ELSE [j \in 1 .. Size[Functions_[f].ty] |-> Wrapped(n + j - 1)]
After(f, m) ==
    IF Functions_[f].what = "count" THEN [m EXCEPT ![G] = Wrapped(@ + 1)] ELSE m

(***************************************************************************)
(* Expressions.  A result is a value (or an address) with the memory, the  *)
(* words read and written, and whether C defines it: not if one operand    *)
(* writes what the other reads or writes without a sequence point.         *)
(***************************************************************************)
Res(v, m, rd, wr, ok) == [v |-> v, m |-> m, rd |-> rd, wr |-> wr, ok |-> ok]

Unsequenced(x, y) ==
    \/ x.wr \cap (y.rd \cup y.wr) # {}
    \/ y.wr \cap (x.rd \cup x.wr) # {}

\* y was evaluated after x: together they give v.
Both(x, y, v, sequenced) ==
    Res(v, y.m, x.rd \cup y.rd, x.wr \cup y.wr,
        x.ok /\ y.ok /\ (sequenced \/ ~Unsequenced(x, y)))

RECURSIVE Eval(_, _), Loc(_, _), EvalList(_, _), InCall(_)

\* A part of a structure that a call returned: a value without an address.
InCall(t) == t.k = "call" \/ (t.k = "dmem" /\ InCall(Lchild(t)))

\* The address of an lvalue.
Loc(t, m) ==
    CASE t.k = "id" -> Res(t.n, m, {}, {}, TRUE)
      [] t.k = "deref" -> Eval(Lchild(t), m)
      [] t.k = "dmem" -> LET b == Loc(Lchild(t), m)
                         IN  [b EXCEPT !.v = @ + FieldOfst[Lchild(t).ty][t.op]]
      [] t.k = "indmem" -> LET b == Eval(Lchild(t), m)
                           IN  [b EXCEPT !.v = @ + FieldOfst[To[Lchild(t).ty]][t.op]]
      [] t.k = "array" ->
            LET b == IF Lchild(t).ty \in Arrays THEN Loc(Lchild(t), m) ELSE Eval(Lchild(t), m)
                i == Eval(Rchild(t), b.m)
            IN  Both(b, i, b.v + i.v * Size[t.ty], FALSE)

\* Store v at the location l of a tree of type ty; the value is out.
Put(l, ty, v, out) ==
    Res(out, Write(l.m, l.v, ty, v), l.rd, l.wr \cup Cells(l.v, ty),
        l.ok /\ l.wr \cap Cells(l.v, ty) = {})

\* One after the other, the value of the last.
EvalList(ts, m) ==
    IF ts = <<>> THEN Res(1, m, {}, {}, TRUE)
    ELSE LET x == EvalList(Front(ts), m)
             y == Eval(Last(ts), x.m)
         IN  Both(x, y, y.v, TRUE)

Eval(t, m) ==
    CASE t.k \in {"list", "none"} -> EvalList(Siblings(t), m)
      [] t.k \in {"imm", "fun"} -> Res(t.n, m, {}, {}, TRUE)
      [] t.k = "lda" -> Loc(Lchild(t), m)
      [] t.k = "cvt" -> LET x == Eval(Lchild(t), m) IN [x EXCEPT !.v = Fit(t.ty, @)]
      [] t.k = "dmem" /\ InCall(t) ->
            LET b == Eval(Lchild(t), m)
                o == FieldOfst[Lchild(t).ty][t.op]
            IN  [b EXCEPT !.v = IF Size[t.ty] = 1 THEN @[o + 1]
                                ELSE SubSeq(@, o + 1, o + Size[t.ty])]
      [] t.k \in {"id", "deref", "dmem", "indmem", "array"} /\ ~InCall(t) ->
            LET l == Loc(t, m)
            IN  IF t.ty \in Arrays THEN l
                ELSE Res(Read(l.m, l.v, t.ty), l.m, l.rd \cup Cells(l.v, t.ty), l.wr, l.ok)
      [] t.k = "bin" ->
            LET x == Eval(Lchild(t), m)
                y == Eval(Rchild(t), x.m)
            IN  Both(x, y, Op2(t.op, x.v, Scaled(t.ty, t.op, y.v)), FALSE)
      [] t.k = "minus" -> LET x == Eval(Lchild(t), m) IN [x EXCEPT !.v = Wrapped(-@)]
      [] t.k = "rev" -> LET x == Eval(Lchild(t), m) IN [x EXCEPT !.v = Wrapped(-1 - @)]
      [] t.k = "not" -> LET x == Eval(Lchild(t), m) IN [x EXCEPT !.v = Bool(@ = 0)]
      [] t.k \in {"and", "or"} ->
            LET x == Eval(Lchild(t), m)
                y == Eval(Rchild(t), x.m)
            IN  IF (x.v # 0) = (t.k = "or") THEN [x EXCEPT !.v = Bool(@ # 0)]
                ELSE Both(x, y, Bool(y.v # 0), TRUE)
      [] t.k = "cond" ->
            LET x == Eval(Lchild(t), m)
                y == Eval(t.kids[IF x.v # 0 THEN 2 ELSE 3], x.m)
            IN  Both(x, y, y.v, TRUE)
      [] t.k = "assign" ->
            LET l == Loc(Lchild(t), m)
                r == Eval(Rchild(t), l.m)
                v == Fit(t.ty, IF t.op = "=" THEN r.v
                               ELSE Op2(t.op, Read(r.m, l.v, t.ty), Scaled(t.ty, t.op, r.v)))
            IN  Put(Both(l, r, l.v, FALSE), t.ty, v, v)
      [] t.k \in {"pre", "post"} ->
            LET l == Loc(Lchild(t), m)
                old == Read(l.m, l.v, t.ty)
                v == Fit(t.ty, Op2(t.op, old, Scale(t.ty)))
            IN  Put([l EXCEPT !.rd = @ \cup Cells(l.v, t.ty)], t.ty, v,
                    IF t.k = "pre" THEN v ELSE old)
      [] t.k = "call" ->
            LET fn == Eval(IF Lchild(t).k = "deref" THEN Lchild(Lchild(t)) ELSE Lchild(t), m)
                a == Eval(Rchild(t), fn.m)
                g == IF Functions_[fn.v].what = "count" THEN {G} ELSE {}
            IN  Res(Returned(fn.v, a.v, a.m), After(fn.v, a.m),
                    fn.rd \cup a.rd \cup g, fn.wr \cup a.wr \cup g,
                    fn.ok /\ a.ok /\ ~Unsequenced(fn, a))

(***************************************************************************)
(* Statements: how they are left (out), the value returned, and the number *)
(* of loop iterations that are still allowed.                              *)
(***************************************************************************)
Left(m, out, v, ok, fuel) == [m |-> m, out |-> out, v |-> v, ok |-> ok, fuel |-> fuel]

RECURSIVE Exec(_, _, _), ExecOne(_, _, _), Loop(_, _, _)

\* The statements that follow one that was left as x.
Follow(ts, x) == IF x.ok /\ x.out = "next" THEN Exec(ts, x.m, x.fuel) ELSE x
Exec(ts, m, fuel) ==
    IF ts = <<>> THEN Left(m, "next", 0, TRUE, fuel)
    ELSE Follow(Tail(ts), ExecOne(Head(ts), m, fuel))

\* A loop [det, body, step] that tests first, when its condition gave d, when
\* its body was left as x, and when its step was.
Tested(l, d, fuel) ==
    IF fuel = 0 \/ ~d.ok THEN Left(d.m, "next", 0, FALSE, 0)
    ELSE IF d.v = 0 THEN Left(d.m, "next", 0, TRUE, fuel)
    ELSE Loop(l, "body", Exec(l.body, d.m, fuel - 1))
Loop(l, part, x) ==
    CASE ~x.ok \/ x.out = "return" -> x
      [] x.ok /\ x.out = "break" -> [x EXCEPT !.out = "next"]
      [] x.ok /\ x.out \in {"next", "continue"} ->
            IF part = "body" THEN Loop(l, "step", Exec(l.step, x.m, x.fuel))
            ELSE Tested(l, Eval(l.det, x.m), x.fuel)
LoopOf(det, body, step) == [det |-> det, body |-> body, step |-> step]

\* A branch whose condition gave d.
Branch(t, d, fuel) ==
    IF d.ok THEN ExecOne(t.kids[IF d.v # 0 THEN 2 ELSE 3], d.m, fuel)
    ELSE Left(d.m, "next", 0, FALSE, fuel)

\* The statements of a switch from the case of a value on.
From(body, v) ==
    LET cases == {i \in DOMAIN body : body[i].k = "case" /\ body[i].n = v}
        from == IF cases # {} THEN cases ELSE {i \in DOMAIN body : body[i].k = "default"}
    IN  IF from = {} THEN <<>> ELSE SubSeq(body, CHOOSE i \in from : TRUE, Len(body))
LeaveSwitch(x) == IF x.out = "break" THEN [x EXCEPT !.out = "next"] ELSE x
Switched(body, d, fuel) ==
    IF d.ok THEN LeaveSwitch(Exec(From(body, d.v), d.m, fuel))
    ELSE Left(d.m, "next", 0, FALSE, fuel)

Evaluated(e, out, fuel) == Left(e.m, out, e.v, e.ok, fuel)

ExecOne(t, m, fuel) ==
    CASE t.k = "scope" -> Exec(t.kids, m, fuel)
      [] t.k = "if" -> Branch(t, Eval(t.kids[1], m), fuel)
      [] t.k = "while" ->
            Loop(LoopOf(t.kids[1], <<t.kids[2]>>, <<>>), "step", Left(m, "next", 0, TRUE, fuel))
      [] t.k = "for" ->
            Loop(LoopOf(t.kids[2], <<t.kids[4]>>, <<t.kids[3]>>), "step",
                 Exec(<<t.kids[1]>>, m, fuel))
      [] t.k = "do" ->
            Loop(LoopOf(t.kids[2], <<t.kids[1]>>, <<>>), "body", Exec(<<t.kids[1]>>, m, fuel))
      [] t.k = "switch" -> Switched(t.kids[2].kids, Eval(t.kids[1], m), fuel)
      [] t.k \in {"case", "default"} -> Left(m, "next", 0, TRUE, fuel)
      [] t.k \in {"break", "continue"} -> Left(m, t.k, 0, TRUE, fuel)
      [] t.k = "return" -> Evaluated(Eval(t.kids[1], m), "return", fuel)
      [] OTHER -> Evaluated(Eval(t, m), "next", fuel)
=============================================================================
