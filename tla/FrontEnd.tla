------------------------------ MODULE FrontEnd ------------------------------
(***************************************************************************)
(* A function is converted by Tree2IR and the IR is run: the statements    *)
(* left to do, with a mark behind what a break or a continue leaves.       *)
(***************************************************************************)
EXTENDS Tree2IR

CONSTANTS
    Programs,   \* lists of statements: bodies of functions
    Memory0,    \* the memory before
    Variables,  \* the addresses of what belongs to the program
    ParamBuf,   \* the buffer of the caller for a large structure
    Fuel        \* the iterations of loops C is given

VARIABLES
    prog,       \* the body
    phase,      \* "tree", "run" or "done"
    todo,       \* statements left
    mem, prs,   \* memory and the PRs assigned so far
    ret         \* the value returned, none or one
fevars == <<prog, phase, todo, mem, prs, ret>>

InitFE ==
    /\ prog \in Programs
    /\ phase = "tree" /\ todo = <<>>
    /\ mem = Memory0 /\ prs = <<>> /\ ret = <<>>

ConvertFunction ==
    /\ phase = "tree"
    /\ todo' = ConvertTreeStmtList(prog)
    /\ phase' = "run"
    /\ UNCHANGED <<prog, mem, prs, ret>>

s == Head(todo)
Doing(kinds) == phase = "run" /\ s.k \in kinds
Value(e) == Val(e, mem, prs)
SetPR(n, v) == [x \in DOMAIN prs \cup {n} |-> IF x = n THEN v ELSE prs[x]]

Assign ==
    /\ Doing({"st", "ist", "starray", "stpr"})
    /\ todo' = Tail(todo)
    /\ LET v == Value(RHS(s))
       IN  IF s.k = "stpr"
           THEN prs' = SetPR(s.n, Fit(s.ty, v)) /\ mem' = mem
           ELSE /\ prs' = prs
                /\ mem' = Write(mem,
                                CASE s.k = "st" -> s.n + s.ofst
                                  [] s.k = "ist" -> Value(s.kids[2]) + s.ofst
                                  [] s.k = "starray" -> ElemAddr(s, Tail(s.kids), mem, prs),
                                s.ty, v)
    /\ UNCHANGED <<prog, phase, ret>>

\* The callee stores a large structure where its first argument says.
CallFunction ==
    /\ Doing({"call"})
    /\ todo' = Tail(todo)
    /\ LET f == Value(s.kids[1])
           v == Returned(f, Value(Last(s.kids)), mem)
       IN  IF s.n = 0
           THEN mem' = Write(After(f, mem), Value(s.kids[2]), s.ty, v) /\ prs' = prs
           ELSE mem' = After(f, mem) /\ prs' = SetPR(s.n, v)
    /\ UNCHANGED <<prog, phase, ret>>

\* The mark a loop or a switch leaves behind its body.
Again == [s EXCEPT !.k = "again"]
End == [s EXCEPT !.k = "end"]

BranchOrLoop ==
    /\ Doing({"if", "while", "do", "again", "end", "label"})
    /\ todo' = CASE s.k = "if" ->
                      s.body[IF Value(s.kids[1]) # 0 THEN 1 ELSE 2] \o Tail(todo)
                 [] s.k \in {"while", "again"} ->
                      IF Value(s.kids[1]) # 0 THEN s.body[1] \o <<Again>> \o Tail(todo)
                      ELSE Tail(todo)
                 [] s.k = "do" -> s.body[1] \o <<Again>> \o Tail(todo)
                 [] s.k \in {"end", "label"} -> Tail(todo)
    /\ UNCHANGED <<prog, phase, mem, prs, ret>>

\* A switch goes to the label of its value, to the default one, or past.
DoSwitch ==
    /\ Doing({"switch"})
    /\ LET v == Value(s.kids[1])
           hit == {i \in DOMAIN s.op : s.op[i].v = <<v>>}
           lab == IF hit # {} THEN s.op[CHOOSE i \in hit : TRUE].lab ELSE s.n
           at == SelectInSeq(s.body[1], LAMBDA x : x.k = "label" /\ x.n = lab)
       IN  todo' = IF at = 0 THEN Tail(todo)
                   ELSE SubSeq(s.body[1], at, Len(s.body[1])) \o <<End>> \o Tail(todo)
    /\ UNCHANGED <<prog, phase, mem, prs, ret>>

BreakOrContinue ==
    /\ Doing({"break", "continue"})
    /\ LET marks == IF s.k = "break" THEN {"again", "end"} ELSE {"again"}
           at == SelectInSeq(todo, LAMBDA x : x.k \in marks)
       IN  todo' = SubSeq(todo, IF s.k = "break" THEN at + 1 ELSE at, Len(todo))
    /\ UNCHANGED <<prog, phase, mem, prs, ret>>

ReturnValue ==
    /\ Doing({"return"})
    /\ ret' = [i \in DOMAIN s.kids |-> Value(s.kids[i])]
    /\ phase' = "done" /\ todo' = <<>>
    /\ UNCHANGED <<prog, mem, prs>>

NextFE ==
    \/ ConvertFunction
    \/ Assign
    \/ CallFunction
    \/ BranchOrLoop
    \/ DoSwitch
    \/ BreakOrContinue
    \/ ReturnValue

\* WF_fevars(NextFE), with its ENABLED written out: there is a step until done.
Fairness == []<>(phase = "done") \/ []<><<NextFE>>_fevars

SpecFE == InitFE /\ [][NextFE]_fevars /\ Fairness

-----------------------------------------------------------------------------
(* Properties *)

\* What is left behind is what C leaves, c.
Agrees(c) ==
    /\ \A a \in Variables : mem[a] = c.m[a]
    /\ c.out = "return" =>
         IF ret # <<>> THEN ret[1] = c.v
         ELSE \A j \in DOMAIN c.v : mem[ParamBuf + j - 1] = c.v[j]

\* The IR does what C says the function does: the variables end with the same
\* values and the same value is returned, whatever order the statements taken
\* out of the expressions have.
TreeMeant == phase = "done" => Agrees(Exec(prog, Memory0, Fuel))

\* No statement reads a PR that no statement before it has assigned: what was
\* taken out of an expression is there on every path to its use.
PRsAssigned ==
    Doing(Stmts \cup {"again"}) /\ s.k # "do" =>
        \A i \in DOMAIN s.kids : PRsOf(s.kids[i]) \subseteq DOMAIN prs

\* What ends in C ends in the IR: loops whose condition has statements repeat
\* them.
IREnds == <>(phase = "done")
=============================================================================
