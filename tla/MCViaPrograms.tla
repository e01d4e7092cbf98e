--------------------------- MODULE MCViaPrograms ----------------------------
(* Programs for ViaMachine, written as the parser would give them.           *)
EXTENDS ViaMeaning

One == Num(1)
X == Sym("x")
F == Sym("f")
TheException == L(<<Sym("exception")>>)
Atoms == {One, Num(0), X}

Lambda1(formal, body) == L(<<Sym("lambda"), L(<<Sym(formal)>>), body>>)
If(a, b, c) == L(<<Sym("if"), a, b, c>>)
Begin(a, b) == L(<<Sym("begin"), a, b>>)

\* (begin (set! f (lambda (x) body)) (f n))
Loop(body, n) ==
    Begin(L(<<Sym("set!"), F, Lambda1("x", body)>>), L(<<F, Num(n)>>))

\* (- x 1) and (f (- x 1))
Less == L(<<Sym("-"), X, One>>)
Again == L(<<F, Less>>)

\* Loops in every tail position: then, else, the end of a sequence, an
\* expression evaluated, the body of a catch, the body of a procedure.
Loops ==
    {Loop(body, 7) : body \in
        {If(X, Again, One),
         If(If(X, Num(0), One), One, Again),
         If(X, Begin(One, Again), One),
         If(X, L(<<Sym("eval"), L(<<Sym("list"), L(<<Sym("quote"), F>>), Less>>)>>), One),
         If(X, L(<<Sym("catch"), Again, One>>), One),
         If(X, L(<<Lambda1("y", Again), One>>), One)}}

\* A loop whose next turn is the last operand of or.
OrLoops == {Loop(L(<<Sym("or"), If(X, Num(0), One), Again>>), 9)}

\* A program with () among its arguments.
NullPrograms ==
    {L(<<Sym("list"), One, Nil, One>>), L(<<Sym("list"), One, One>>)}

\* A program that resumes a continuation.
ResumePrograms ==
    {Begin(L(<<Sym("set!"), F, L(<<Sym("continuation")>>)>>),
           L(<<Sym("eval"), F>>))}

\* Programs that are malformed, or go on in a frame kept by a continuation, or
\* throw out of the middle of a list of arguments.
Oddities ==
    {L(<<Sym("continuation"), One>>), L(<<Sym("catch"), One>>),
     L(<<Sym("quote")>>), L(<<Sym("exception"), One>>),
     L(<<Sym("lambda")>>), L(<<Sym("lambda"), X, One, One>>),
     L(<<Sym("throw"), One>>),
     L(<<Sym("-"), One>>),
     L(<<Sym("catch"), L(<<Sym("+"), One, Sym("y")>>),
         L(<<Sym("list"), TheException, X>>)>>),
     L(<<Sym("and"), Num(0), X>>), L(<<Sym("and"), One, X>>),
     L(<<Sym("syntax-transform")>>), L(<<Sym("context"), One>>),
     L(<<Sym("garbage-collect")>>), L(<<Sym("garbage-collect"), One>>)}

Endings == Loops \cup Oddities \cup ResumePrograms
=============================================================================
