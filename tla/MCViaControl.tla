---------------------------- MODULE MCViaControl ----------------------------
(* The programs that end, with throws, catches and continuations in the      *)
(* middle of argument lists, and what the host may run after each.           *)
EXTENDS MCViaPrograms, ViaControl

Throw1 == L(<<Sym("+"), One, Sym("y")>>)
Try(body, handler) == L(<<Sym("catch"), body, handler>>)

Crossings ==
    {L(<<Sym("list"), One, Try(L(<<Sym("list"), One, Throw1, One>>), One),
         Try(Throw1, L(<<Sym("exception-type"), TheException>>))>>),
     Try(L(<<Sym("list"), Try(Throw1, L(<<Sym("throw"), TheException>>)), One>>),
         L(<<Sym("list"), One, TheException>>)),
     Try(Try(One, One), Throw1),
     L(<<Sym("list"), Try(Throw1, Throw1), One>>),
     Begin(L(<<Sym("set!"), F, L(<<Sym("list"), One, L(<<Sym("continuation")>>)>>)>>),
           L(<<Sym("list"), L(<<Sym("eval"), L(<<Sym("car"),
                L(<<Sym("cdr"), F>>)>>)>>), One>>))}

ControlPrograms == Endings \cup Crossings

\* What the host runs after any of these: a throw out of a list of arguments, and
\* whatever f is by then, a frame of the run before among others.
Seconds ==
    {L(<<Sym("list"), Try(L(<<Sym("list"), One, Throw1>>), One), One>>),
     L(<<Sym("list"), L(<<Sym("eval"), F>>), One>>)}

ControlRuns == ControlPrograms \cup Seconds

TwoRunsSpec ==
    /\ ControlInit
    /\ [][ControlNext /\ (runs' = 2 => program' \in Seconds)]_<<vars, notes>>
    /\ WF_vars(Opcodes \/ Builtins)
=============================================================================
