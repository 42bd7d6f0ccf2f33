------------------------------ MODULE Tree2IR ------------------------------
(***************************************************************************)
(* CTree2IR: C trees become IR.  An expression becomes an IR expression,   *)
(* and what it does on the way (assignments, calls, increments) becomes    *)
(* statements of the list the context collects, or of the list of what is  *)
(* done after the statement.                                               *)
(*                                                                         *)
(* A world w is what conversion changes: the list top, the list epi of     *)
(* what is done afterwards, the numbers of PRs, local copies and labels    *)
(* used, and the case list of the innermost switch.                        *)
(***************************************************************************)
EXTENDS IR

CONSTANTS
    RetSize,      \* the words of a value returned in registers
    RetBuf(_),    \* words of a structure -> the buffer calls return it in
    LocalCopy(_), \* k -> the k-th local copy of a returned structure
    ParamRetBuf   \* the variable that points to the buffer of the caller

World0 == [top |-> <<>>, epi |-> <<>>, pr |-> 0, loc |-> 0, lab |-> 0, cases |-> <<>>]

\* What the context hands down: whether increments are done afterwards, an
\* address is wanted, the tree is a callee.
Ctx(rec, addr, callee) == [rec |-> rec, addr |-> addr, callee |-> callee]
FreshCtx == Ctx(FALSE, FALSE, FALSE)

Out(e, w) == [e |-> e, w |-> w]
Top(w, stmts) == [w EXCEPT !.top = @ \o stmts]
NewPR(w) == [w EXCEPT !.pr = @ + 1]

RECURSIVE Convert(_, _, _), ConvertAll(_, _, _)

\* The value of a list of expressions.
OnlyLeftLast(es) == IF es = <<>> THEN Judge(ImmInt(1)) ELSE Last(es)

\* Trees as statements, in the list of w: one after the other, what each is
\* worth behind the statements it gave.
Listed(r) == Top(r.w, r.e)
ConvertStmts(ts, w) ==
    FoldLeft(LAMBDA v, t : Listed(ConvertAll(<<t>>, FreshCtx, v)), w, ts)

\* Trees in a list of their own.
TakeList(r, w) == [list |-> r.top, w |-> [r EXCEPT !.top = w.top]]
InOwnList(ts, w) == TakeList(ConvertStmts(ts, [w EXCEPT !.top = <<>>]), w)

\* A condition: its value, and its statements in a list of their own.
TakeDet(r, w) ==
    [det |-> Judge(OnlyLeftLast(r.e)), prolog |-> r.w.top, epilog |-> r.w.epi,
     w |-> [r.w EXCEPT !.top = w.top, !.epi = w.epi]]
Det(t, rec, w) ==
    TakeDet(ConvertAll(Siblings(t), Ctx(rec, FALSE, FALSE), [w EXCEPT !.top = <<>>, !.epi = <<>>]), w)

\* Both operands, the left one first.
BothSides(t, c, w) ==
    LET l == Convert(Lchild(t), c, w)
        r == Convert(Rchild(t), c, l.w)
    IN  [l |-> l.e, r |-> r.e, w |-> r.w]

ConvertMulti(t, c, w) ==
    LET b == BothSides(t, c, w) IN Out(BinaryOp(t.op, t.ty, b.l, b.r), b.w)

\* The left operand of a sum gets the type of the sum.
ConvertAdditive(t, c, w) ==
    LET b == BothSides(t, c, w)
    IN  Out(BinaryOp(t.op, t.ty, IF t.op = "+" THEN [b.l EXCEPT !.ty = t.ty] ELSE b.l, b.r), b.w)

\* Numbers are not negative: the two shifts to the right are one.
ConvertShift(t, c, w) ==
    LET b == BothSides(t, c, w) IN Out(BinaryOp(t.op, t.ty, b.l, b.r), b.w)

ConvertRelation(t, c, w) ==
    LET b == BothSides(t, c, w) IN Out(Cmp(t.op, b.l, b.r), b.w)

\* convertExclusiveOR, convertInclusiveAND and convertInclusiveOR.
ConvertBitwise(t, c, w) ==
    LET b == BothSides(t, c, w) IN Out(BinaryOp(t.op, t.ty, b.l, b.r), b.w)

ConvertUnary(k, t, c, w) ==
    LET r == Convert(Lchild(t), c, w) IN Out(Unary(k, r.e), r.w)

ConvertCVT(t, c, w) == LET r == Convert(Lchild(t), c, w) IN Out(Cvt(r.e, t.ty), r.w)

ConvertImm(t, w) == Out(ImmInt(t.n), w)

BuildId(t) == Id(t.n)
BuildLda(t) == Lda(t.n, t.ty)
BuildLoad(t) == Load(t.n, t.ty)

ConvertId(t, c, w) ==
    Out(IF t.k = "fun" THEN IF c.callee THEN BuildId(t) ELSE BuildLda(t)
        ELSE IF c.addr THEN BuildLda(t) ELSE BuildLoad(t), w)

ConvertLDA(t, c, w) ==
    LET kid == Lchild(t)
        r == CASE kid.k = "deref" -> Convert(Lchild(kid), [c EXCEPT !.addr = FALSE], w)
               [] kid.k = "id" -> Out(BuildLda(kid), w)
               [] OTHER -> Convert(kid, [c EXCEPT !.addr = TRUE], w)
    IN  Out([r.e EXCEPT !.ty = t.ty], r.w)

\* Dereferencing a pointer to an array gives the array, its address; that of
\* a variable is loaded.
DerefPointToArray(addr, base, t) == IF base.k = "lda" THEN ILoad(addr, t.ty) ELSE addr

ConvertDeref(t, c, w) ==
    LET r == Convert(Lchild(t), c, w)
    IN  Out(CASE c.addr -> r.e
              [] ~c.addr /\ To[Lchild(t).ty] \in Arrays -> DerefPointToArray(r.e, Lchild(t), t)
              [] ~c.addr /\ To[Lchild(t).ty] \notin Arrays -> ILoad(r.e, t.ty), r.w)

\* A subscript of a pointer.
ConvertPointerDeref(t, c, w) ==
    LET base == Convert(Lchild(t), [c EXCEPT !.addr = FALSE], w)
        index == Convert(Rchild(t), [c EXCEPT !.addr = FALSE], base.w)
        addr == BinaryOp("+", base.e.ty, base.e, index.e)
    IN  Out(IF c.addr THEN addr ELSE ILoad(addr, t.ty), index.w)

RECURSIVE SubTrees(_), ArrayBase(_), Dimension(_, _)

\* The subscripts of an array element, the lowest dimension first.
SubTrees(t) ==
    IF t.k = "array" THEN <<Rchild(t)>> \o SubTrees(Lchild(t)) ELSE <<>>
ArrayBase(t) ==
    IF Lchild(t).k = "array" /\ Lchild(t).ty \in Arrays THEN ArrayBase(Lchild(t)) ELSE Lchild(t)

\* How many elements dimension dim of an array has, 0 is the highest.
Dimension(ty, dim) ==
    IF dim = 0 THEN Size[ty] \div Size[To[ty]] ELSE Dimension(To[ty], dim - 1)

ConvertArraySubExp(t, c, w) ==
    LET subs == ConvertAll(SubTrees(t), [c EXCEPT !.addr = FALSE], w)
        n == Len(subs.e)
        of == To[ArrayBase(t).ty]
    IN  [subs |-> subs.e, w |-> subs.w,
         nums |-> IF of \in Arrays THEN [i \in 1 .. n |-> Dimension(of, n - i)] ELSE <<0>>]

\* The address of an array element as additions.
ComputeArrayAddr(e) ==
    LET terms[i \in 1 .. Len(e.op)] ==
            LET sub == e.kids[i + 1]
            IN  IF i = Len(e.op) THEN sub
                ELSE BinaryOpSimp("+", "int", sub,
                       BinaryOpSimp("*", "int", terms[i + 1], ImmInt(e.op[i])))
    IN  BinaryOpSimp("+", e.kids[1].ty, e.kids[1],
                     BinaryOpSimp("*", "int", terms[1], ImmInt(e.n)))

ConvertArray(t, c, w) ==
    IF ArrayBase(t).k # "lda" THEN ConvertPointerDeref(t, c, w)
    ELSE LET base == Convert(ArrayBase(t), [c EXCEPT !.addr = FALSE], w)
             s == ConvertArraySubExp(t, c, base.w)
             e == ArrayElem(base.e, s.subs, s.nums, t.ty)
         IN  Out(IF t.ty \in Arrays \/ c.addr THEN ComputeArrayAddr(e) ELSE e, s.w)

\* A structure in PRs goes to a local copy, so that its fields have offsets.
ConvertFieldAccessForReturnValAggr(t, e, w) ==
    LET a == LocalCopy(w.loc)
    IN  Out(Load(a, t.ty), Top([w EXCEPT !.loc = @ + 1], <<Store(a, t.ty, 0, e)>>))

ConvertDirectMemAccess(t, c, w) ==
    LET base == Lchild(t)
        fo == FieldOfst[base.ty][t.op]
        r == Convert(base, c, w)
        v == IF base.k = "call" /\ IsPR(r.e)
             THEN ConvertFieldAccessForReturnValAggr(base, r.e, r.w) ELSE r
    IN  IF c.addr
        THEN Out(IF HasOffset(r.e) THEN [r.e EXCEPT !.ofst = @ + fo]
                 ELSE IF fo # 0 THEN BinaryOpSimp("+", r.e.ty, r.e, ImmInt(fo)) ELSE r.e, r.w)
        ELSE Out([v.e EXCEPT !.ofst = @ + fo, !.ty = t.ty], v.w)

ConvertIndirectMemAccess(t, c, w) ==
    LET base == Convert(Lchild(t), [c EXCEPT !.addr = FALSE], w)
        fo == FieldOfst[To[Lchild(t).ty]][t.op]
    IN  Out(IF c.addr \/ t.ty \in Arrays
            THEN IF fo # 0 THEN BinaryOpSimp("+", base.e.ty, base.e, ImmInt(fo)) ELSE base.e
            ELSE [ILoad(base.e, t.ty) EXCEPT !.ofst = fo], base.w)

\* Mutant: the statements of the right side are not kept apart.
ConvertLogicalTogether(isAnd, t, c, w) ==
    LET op0 == Convert(Lchild(t), c, w)
        op1 == Convert(Rchild(t), c, op0.w)
    IN  Out(IR(IF isAnd THEN "land" ELSE "lor", "bool", "", 0, 0, <<op0.e, op1.e>>, <<>>), op1.w)

\* Mutant: no value when the right side need not be looked at.
ConvertLogicalNoValue(isAnd, t, c, w) ==
    LET op0 == Convert(Lchild(t), c, w)
        op1 == Convert(Rchild(t), c, [op0.w EXCEPT !.top = <<>>])
        res == op1.w.pr + 1
        set(b) == <<StorePR(res, "bool", ImmInt(b))>>
    IN  IF op1.w.top = <<>>
        THEN Out(IR(IF isAnd THEN "land" ELSE "lor", "bool", "", 0, 0, <<op0.e, op1.e>>, <<>>),
                 [op1.w EXCEPT !.top = op0.w.top])
        ELSE Out(PR(res, "bool"),
                 [NewPR(op1.w) EXCEPT !.top =
                     Append(op0.w.top,
                            If(IF isAnd THEN Invert(op0.e) ELSE Judge(op0.e), <<>>,
                               Append(op1.w.top, If(Judge(op1.e), set(1), set(0)))))])

\* convertLogicalAND and convertLogicalOR: the statements of the right side
\* run only if its value is needed.
ConvertLogical(isAnd, t, c, w) ==
    LET op0 == Convert(Lchild(t), c, w)
        op1 == Convert(Rchild(t), c, [op0.w EXCEPT !.top = <<>>])
        res == op1.w.pr + 1
        set(b) == <<StorePR(res, "bool", ImmInt(b))>>
    IN  IF op1.w.top = <<>>
        THEN Out(IR(IF isAnd THEN "land" ELSE "lor", "bool", "", 0, 0, <<op0.e, op1.e>>, <<>>),
                 [op1.w EXCEPT !.top = op0.w.top])
        ELSE Out(PR(res, "bool"),
                 [NewPR(op1.w) EXCEPT !.top =
                     Append(op0.w.top,
                            If(IF isAnd THEN Invert(op0.e) ELSE Judge(op0.e),
                               set(Bool(~isAnd)),
                               Append(op1.w.top, If(Judge(op1.e), set(1), set(0)))))])

\* Both arms are converted into the list of the whole expression.
ConvertSelect(t, c, w) ==
    LET det == Convert(t.kids[1], c, w)
        texp == ConvertAll(Siblings(t.kids[2]), c, det.w)
        fexp == ConvertAll(Siblings(t.kids[3]), c, texp.w)
    IN  Out(Select(Judge(det.e), Last(texp.e), Last(fexp.e), t.ty), fexp.w)

\* What stores a value where l is loaded from.
StoreTo(l, ty, v) ==
    CASE l.k = "ild" -> IStore(l.kids[1], ty, l.ofst, v)
      [] l.k = "ld" -> Store(l.n, l.ty, l.ofst, v)
      [] l.k = "array" -> StoreArray(l, l.ofst, v)

\* An address that is an array element goes to a PR first.
AssignImpl(l, r, ty, w) ==
    LET isArrayCase == l.k = "ild" /\ l.kids[1].k = "array"
        addr == StorePR(w.pr + 1, l.kids[1].ty, l.kids[1])
    IN  IF isArrayCase
        THEN Out(IStore(PR(addr.n, addr.ty), ty, l.ofst, r), Top(NewPR(w), <<addr>>))
        ELSE Out(StoreTo(l, ty, r), w)

InPlaceAssignImpl(op, l, r, ty, w) == Out(StoreTo(l, ty, BinaryOp(op, ty, l, r)), w)

\* The right hand side of the last statement is the value.
ConvertAssign(t, c, w) ==
    LET tc == Ctx(TRUE, FALSE, c.callee)
        l == Convert(Lchild(t), tc, [w EXCEPT !.epi = <<>>])
        r == Convert(Rchild(t), tc, l.w)
        st == IF t.op = "=" THEN AssignImpl(l.e, r.e, t.ty, r.w)
              ELSE InPlaceAssignImpl(t.op, l.e, r.e, t.ty, r.w)
        stmts == <<st.e>> \o r.w.epi
        done == [Top(st.w, stmts) EXCEPT !.epi = w.epi]
    IN  IF c.addr THEN Convert(Lchild(t), Ctx(FALSE, TRUE, c.callee), done)
        ELSE Out(RHS(Last(stmts)), done)

\* What ++ adds to a value of a type.
Addend(ty) == ImmInt(Scale(ty))

ConvertIncDec(t, c, w) ==
    LET x == Convert(Lchild(t), c, w)
        rhs == BinaryOpSimp(t.op, x.e.ty, x.e, Addend(x.e.ty))
        st == CASE x.e.k = "ild" -> IStore(x.e.kids[1], x.e.ty, 0, rhs)
                [] x.e.k = "array" -> StoreArray(x.e, 0, rhs)
                [] x.e.k = "ld" -> Store(x.e.n, x.e.ty, 0, rhs)
    IN  Out(x.e, Top(x.w, <<st>>))

\* The old value is kept in a PR; the increment comes after the statement if
\* the context says so.
ConvertPostIncDec(t, c, w) ==
    LET x == Convert(Lchild(t), c, w)
        res == x.w.pr + 1
        rhs == BinaryOp(t.op, x.e.ty, x.e, ImmInt(1))
        inc == CASE x.e.k = "ild" -> IStore(x.e.kids[1], x.e.ty, 0, rhs)
                 [] x.e.k = "array" -> StoreArray(x.e, 0, rhs)
                 [] x.e.k = "ld" -> Store(x.e.n, x.e.ty, x.e.ofst, rhs)
        kept == Top(NewPR(x.w), <<StorePR(res, x.e.ty, x.e)>>)
    IN  Out(PR(res, x.e.ty),
            IF c.rec THEN [kept EXCEPT !.epi = Append(@, inc)] ELSE Top(kept, <<inc>>))

RECURSIVE RealCallee(_)
RealCallee(e) == IF e.k = "ild" THEN RealCallee(e.kids[1]) ELSE e

ConvertCallee(t, c, w) ==
    LET r == Convert(Lchild(t), [c EXCEPT !.callee = TRUE], w)
        e == RealCallee(r.e)
    IN  Out(IF e.k = "cvt" THEN e.kids[1] ELSE e, r.w)

IsReturnValueNeedBuffer(ty) == Size[ty] > RetSize

\* The address of a returned structure; PRs are first stored in the buffer of
\* the structures of no size.
ConvertTakenAddrOfCallRetVal(t, e, w) ==
    IF IsPR(e) THEN Out(Lda(RetBuf(0), t.ty), Top(w, <<Store(RetBuf(0), t.ty, 0, e)>>))
    ELSE Out(Lda(e.n, t.ty), w)

\* A large structure is returned in a buffer, whose address is the first
\* argument; all calls that return so many words share it.
ConvertCall(t, c, w) ==
    LET callee == ConvertCallee(t, c, w)
        inBuf == IsReturnValueNeedBuffer(t.ty)
        buf == IF inBuf THEN <<Lda(RetBuf(Size[t.ty]), t.ty)>> ELSE <<>>
        args == ConvertAll(Siblings(Rchild(t)), c, callee.w)
        res == IF inBuf THEN 0 ELSE args.w.pr + 1
        done == Top(IF inBuf THEN args.w ELSE NewPR(args.w),
                    <<Call(res, t.ty, callee.e, buf \o args.e)>>)
        retval == IF inBuf THEN Load(RetBuf(Size[t.ty]), t.ty) ELSE PR(res, t.ty)
    IN  IF c.addr THEN ConvertTakenAddrOfCallRetVal(t, retval, done) ELSE Out(retval, done)

\* A large structure is stored where the caller's hidden argument says.
GenReturnValBuf(e, w) ==
    IF IsReturnValueNeedBuffer(e.ty)
    THEN Out(Return(<<>>), Top(w, <<IStore(Load(ParamRetBuf, "int"), e.ty, 0, e)>>))
    ELSE Out(Return(<<e>>), w)

\* The statements that evaluate the condition are dropped.
ConvertSwitch(t, w) ==
    LET v == InOwnList(Siblings(t.kids[1]), w)
        b == InOwnList(<<t.kids[2]>>, [v.w EXCEPT !.cases = <<>>])
        valued == SelectSeq(b.w.cases, LAMBDA x : x.v # <<>>)
        deflab == SelectSeq(b.w.cases, LAMBDA x : x.v = <<>>)
    IN  Out(Switch(OnlyLeftLast(v.list), valued, b.list,
                   IF deflab = <<>> THEN 0 ELSE deflab[1].lab),
            [b.w EXCEPT !.cases = w.cases])

ConvertCase(t, w) ==
    LET lab == w.lab + 1
    IN  Out(Ilabel(lab), [w EXCEPT !.lab = lab, !.cases = Append(@, [v |-> <<t.n>>, lab |-> lab])])
ConvertDefault(t, w) ==
    LET lab == w.lab + 1
    IN  Out(Ilabel(lab), [w EXCEPT !.lab = lab, !.cases = <<[v |-> <<>>, lab |-> lab]>> \o @])

\* prependStepBeforeContinue.  isCFSThatControlledBySCO, of the absent library, is
\* taken to hold of the loops: a continue inside a switch belongs to the loop around.
RECURSIVE StepBeforeContinue(_, _)
StepBeforeContinue(step, list) ==
    FlattenSeq([i \in DOMAIN list |->
        LET s == list[i]
        IN  IF s.k = "continue" THEN step \o <<s>>
            ELSE IF s.k \in {"while", "do"} THEN <<s>>
            ELSE <<[s EXCEPT !.body = [j \in DOMAIN @ |-> StepBeforeContinue(step, @[j])]]>>])

\* Mutant: no step before a continue.
ConvertForNoStep(t, w) ==
    LET init == InOwnList(Siblings(t.kids[1]), w)
        d == Det(t.kids[2], FALSE, init.w)
        body == InOwnList(Siblings(t.kids[4]), d.w)
        step == InOwnList(Siblings(t.kids[3]), body.w)
    IN  Out(WhileDo(d.det, body.list \o step.list \o d.prolog), Top(step.w, init.list \o d.prolog))

ConvertFor(t, w) ==
    LET init == InOwnList(Siblings(t.kids[1]), w)
        d == Det(t.kids[2], FALSE, init.w)
        body == InOwnList(Siblings(t.kids[4]), d.w)
        step == InOwnList(Siblings(t.kids[3]), body.w)
        whole == StepBeforeContinue(step.list, body.list \o step.list \o d.prolog)
    IN  Out(WhileDo(d.det, whole), Top(step.w, init.list \o d.prolog))

ConvertWhileDo(t, w) ==
    LET d == Det(t.kids[1], FALSE, w)
        body == InOwnList(Siblings(t.kids[2]), d.w)
    IN  Out(WhileDo(d.det, body.list \o d.prolog), Top(body.w, d.prolog))

ConvertDoWhile(t, w) ==
    LET d == Det(t.kids[2], TRUE, w)
        body == InOwnList(Siblings(t.kids[1]), d.w)
    IN  Out(DoWhile(d.det, body.list \o d.prolog \o d.epilog), body.w)

ConvertIF(t, c, w) ==
    LET d == ConvertAll(Siblings(t.kids[1]), c, w)
        truebody == InOwnList(Siblings(t.kids[2]), d.w)
        falsebody == InOwnList(Siblings(t.kids[3]), truebody.w)
    IN  Out(If(Judge(OnlyLeftLast(d.e)), truebody.list, falsebody.list), falsebody.w)

ConvertReturn(t, c, w) ==
    LET r == ConvertAll(Siblings(t.kids[1]), c, w)
    IN  IF r.e = <<>> THEN Out(Return(<<>>), w) ELSE GenReturnValBuf(r.e[1], r.w)

\* A tree: what it is worth, or the statement that it is.
Convert(t, c, w) ==
    CASE t.k = "imm" -> ConvertImm(t, w)
      [] t.k \in {"id", "fun"} -> ConvertId(t, c, w)
      [] t.k = "bin" /\ t.op \in {"*", "/", "%"} -> ConvertMulti(t, c, w)
      [] t.k = "bin" /\ t.op \in {"+", "-"} -> ConvertAdditive(t, c, w)
      [] t.k = "bin" /\ t.op \in {"<<", ">>"} -> ConvertShift(t, c, w)
      [] t.k = "bin" /\ t.op \in {"<", ">", "<=", ">=", "==", "!="} -> ConvertRelation(t, c, w)
      [] t.k = "bin" /\ t.op \in {"&", "|", "^"} -> ConvertBitwise(t, c, w)
      [] t.k = "minus" -> ConvertUnary("neg", t, c, w)
      [] t.k = "rev" -> ConvertUnary("bnot", t, c, w)
      [] t.k = "not" -> ConvertUnary("lnot", t, c, w)
      [] t.k \in {"and", "or"} -> ConvertLogical(t.k = "and", t, c, w)
      [] t.k = "cond" -> ConvertSelect(t, c, w)
      [] t.k = "cvt" -> ConvertCVT(t, c, w)
      [] t.k = "lda" -> ConvertLDA(t, c, w)
      [] t.k = "deref" -> ConvertDeref(t, c, w)
      [] t.k = "dmem" -> ConvertDirectMemAccess(t, c, w)
      [] t.k = "indmem" -> ConvertIndirectMemAccess(t, c, w)
      [] t.k = "array" -> ConvertArray(t, c, w)
      [] t.k = "assign" -> ConvertAssign(t, c, w)
      [] t.k = "pre" -> ConvertIncDec(t, c, w)
      [] t.k = "post" -> ConvertPostIncDec(t, c, w)
      [] t.k = "call" -> ConvertCall(t, c, w)
      [] t.k = "if" -> ConvertIF(t, c, w)
      [] t.k = "while" -> ConvertWhileDo(t, w)
      [] t.k = "do" -> ConvertDoWhile(t, w)
      [] t.k = "for" -> ConvertFor(t, w)
      [] t.k = "switch" -> ConvertSwitch(t, w)
      [] t.k = "case" -> ConvertCase(t, w)
      [] t.k = "default" -> ConvertDefault(t, w)
      [] t.k \in {"break", "continue"} -> Out(Jump(t.k), w)
      [] t.k = "return" -> ConvertReturn(t, c, w)

\* A list of trees, where a scope is what its statements are.
OneOf(r) == Out(<<r.e>>, r.w)
ListOf(r) == Out(r.list, r.w)
Behind(es, r) == Out(es \o r.e, r.w)
ConvertAll(ts, c, w) ==
    FoldLeft(LAMBDA r, t :
                Behind(r.e, CASE t.k = "scope" -> ListOf(InOwnList(t.kids, r.w))
                              [] t.k \in {"list", "none"} -> ConvertAll(Siblings(t), c, r.w)
                              [] t.k \notin {"scope", "list", "none"} -> OneOf(Convert(t, c, r.w))),
             Out(<<>>, w), ts)

(***************************************************************************)
(* Canon: expressions leave the lists of statements, and the condition of  *)
(* a conditional expression becomes one.                                   *)
(***************************************************************************)
RECURSIVE HandleExp(_), HandleStmtList(_)
HandleSelect(e) ==
    [e EXCEPT !.kids = <<Judge(HandleExp(@[1])), HandleExp(@[2]), HandleExp(@[3])>>]

HandleExp(e) ==
    CASE e.k = "select" -> HandleSelect(e)
      [] e.k \in {"ild", "bin", "land", "lor", "neg", "bnot", "lnot", "cvt", "array"} ->
            [e EXCEPT !.kids = [j \in DOMAIN @ |-> HandleExp(@[j])]]
      [] e.k \in {"ld", "const", "id", "lda", "pr"} -> e

\* The callee stays what it is.
HandleCall(s) ==
    [s EXCEPT !.kids = [j \in DOMAIN @ |-> IF j = 1 THEN @[j] ELSE HandleExp(@[j])]]

\* The right hand side or the condition; what a store stores to stays.
HandleStmt(s) ==
    CASE s.k = "call" -> HandleCall(s)
      [] s.k \in {"st", "ist", "starray", "stpr", "if", "while", "do", "switch"} ->
            [s EXCEPT !.kids = <<HandleExp(Head(@))>> \o Tail(@),
                      !.body = [j \in DOMAIN @ |-> HandleStmtList(@[j])]]
      [] s.k \in {"break", "continue", "label", "return"} -> s

HandleStmtList(list) ==
    LET stmts == SelectSeq(list, IsStmt) IN [i \in DOMAIN stmts |-> HandleStmt(stmts[i])]

AddReturn(list) ==
    IF list # <<>> /\ Last(list).k = "return" THEN list ELSE Append(list, Return(<<>>))

\* The IR of a function.
ConvertTreeStmtList(ts) == HandleStmtList(AddReturn(ConvertStmts(ts, World0).top))
=============================================================================
