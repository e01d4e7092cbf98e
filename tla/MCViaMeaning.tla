---------------------------- MODULE MCViaMeaning ----------------------------
(* The programs on which ViaMachine is compared with ViaMeaning.             *)
EXTENDS MCViaPrograms

\* The expressions with two parts, one from A and one from B, but for a catch;
\* conditionals, whose third part is one of C; and those with one part.
Binary(A, B) ==
    UNION {{L(<<Sym("begin"), a, b>>), L(<<Sym("or"), a, b>>),
            L(<<Sym("+"), a, b>>),
            L(<<L(<<Sym("lambda"), L(<<X>>), a>>), b>>)} : a \in A, b \in B}

Conditional(A, B, C) ==
    {L(<<Sym("if"), a, b, c>>) : a \in A, b \in B, c \in C}

Unary(A) ==
    UNION {{L(<<Sym("throw"), a>>), L(<<Sym("set!"), X, a>>),
            L(<<Sym("list"), a>>)} : a \in A}

Small == Binary(Atoms, Atoms) \cup Conditional(Atoms, Atoms, Atoms)
            \cup Unary(Atoms)

Large == Binary(Small, {X}) \cup Conditional({X}, {One}, Small)
            \cup Unary(Small)

\* A catch, and a handler that looks at the exception, throws it again or sets
\* a variable; a catch inside a catch.
Catching ==
    UNION {{L(<<Sym("catch"), e, h>>), L(<<Sym("catch"), h, e>>)} :
              e \in Binary(Atoms, {X}) \cup Conditional(Atoms, {One}, {X})
                       \cup Unary(Atoms),
              h \in {X, TheException, L(<<Sym("throw"), TheException>>),
                     L(<<Sym("catch"), X, L(<<Sym("throw"), One>>)>>)}}

\* Programs of more parts: lexical scope, rest arguments, missing arguments,
\* malformed forms, operators that are not symbols.
Larger ==
    {L(<<Lambda1("x",
          L(<<Lambda1("f", L(<<Lambda1("x", L(<<Sym("f"), Num(0)>>)), Num(5)>>)),
              Lambda1("y", L(<<Sym("+"), X, Sym("y")>>))>>)), Num(3)>>),
     L(<<Lambda1("x", X), One, Num(2)>>),
     L(<<L(<<Sym("lambda"), L(<<X, Sym("y")>>), Sym("y")>>), One>>),
     L(<<Sym("lambda"), L(<<X>>), One, One>>),
     L(<<L(<<Sym("if"), One, Sym("+"), Sym("-")>>), One, One>>),
     L(<<Sym("+"), One>>), L(<<Sym("throw")>>),
     L(<<Sym("quote"), X>>)}

Def(name, v) == L(<<Sym(name), v>>)
Plus(a, b) == L(<<Sym("+"), a, b>>)
Datum(v) == L(<<Sym("quote"), v>>)
Y == Sym("y")
Z == Sym("z")

\* Procedures on their arguments, of all kinds: every type test on every type,
\* comparisons and divisions of unlike and of unordered values, missing operands.
Values ==
    {One, Truth(TRUE), Text("s"), Datum(X), L(<<Sym("list"), One>>), Sym("+"),
     Sym("if"), Lambda1("x", X),
     L(<<Sym("catch"), L(<<Sym("throw")>>), TheException>>)}

TypeTestNames == {r[1] : r \in {p \in PureRoutines :
                        p[2] \in DOMAIN TypeOf \cup {"pairp-proc", "bytep-proc"}}}

Tests == {L(<<Sym(p), v>>) : p \in TypeTestNames, v \in Values}

Calls ==
    {L(<<Sym(p), a, b>>) : p \in {"=", "<>", "<", ">", "<=", ">="},
                           a \in {One, Num(-2)}, b \in {One, Num(2)}}
    \cup {L(<<Sym(p), a, b>>) : p \in {"/", "%", "*"},
                                a \in {Num(7), Num(-7)}, b \in {Num(2), Num(-2)}}
    \cup {L(<<Sym(p), v>>) : p \in {"not", "car", "cdr", "cons", "exception-type",
                                     "int", "byte"},
                             v \in Values}
    \cup {L(<<Sym("="), Truth(TRUE), Truth(FALSE)>>),
          L(<<Sym("="), Datum(X), Datum(X)>>),
          L(<<Sym("<>"), Datum(X), Datum(Y)>>),
          L(<<Sym("byte"), Num(-1)>>), L(<<Sym("byte"), Num(256)>>),
          L(<<Sym("cons"), One, Num(2)>>), L(<<Sym("cons")>>),
          L(<<Sym("nil?"), Datum(Nil)>>), L(<<Sym("pair?"), Datum(Nil)>>),
          L(<<Sym("make-exception"), Datum(X), Text("s")>>),
          L(<<Sym("throw"), L(<<Sym("make-exception"), Datum(X), Text("s")>>)>>),
          L(<<Sym("make-exception"), One, Text("s")>>),
          L(<<Sym("reverse"), L(<<Sym("list"), One, Num(2), Num(3)>>)>>)}

\* The bundled templates: the tests of test_programs.c, scope, exceptions out of
\* definitions, and templates of the program's own.
Templates ==
    LET Defs(v, w) == L(<<Def("x", v), Def("y", w)>>)
        Product == L(<<Sym("*"), X, Y>>)
        Numbers == L(<<Sym("list"), One, One, Num(3)>>)
        Syntax(formals, body, use) ==
            Begin(L(<<Sym("syntax-transform"), F, L(formals), body>>), use)
    IN  {L(<<Lambda1("x", L(<<Sym("let"), Defs(Num(5), Plus(X, One)), Product>>)),
             Num(7)>>),
         L(<<Sym("let*"), Defs(Num(5), Plus(X, Num(10))), Product>>),
         L(<<Sym("catch"), L(<<Sym("let*"), Defs(One, L(<<Sym("throw")>>)), X>>),
             TheException>>),
         L(<<Sym("letrec"), Defs(Num(5), Plus(X, One)), Product>>),
         L(<<Sym("cond"), L(<<L(<<Sym("="), One, Num(2)>>), Num(5)>>),
             L(<<One, Num(6)>>)>>),
         L(<<Lambda1("x", L(<<Sym("cond"), L(<<One, Plus(X, Num(5))>>),
                              L(<<One, X>>)>>)), One>>),
         L(<<Sym("for-each"), L(<<Sym("cdr"), Numbers>>), Sym("num"),
             L(<<Sym("+"), Sym("num"), One>>)>>),
         L(<<Lambda1("x", L(<<Sym("for-each"), L(<<Sym("list"), One>>), Z,
                              Datum(Plus(X, One))>>)), Num(5)>>),
         Begin(L(<<Sym("set!"), X, One>>),
               L(<<Sym("for-each"),
                   Begin(L(<<Sym("set!"), X, Plus(X, One)>>),
                         L(<<Sym("list"), X, X>>)), Z, Z>>)),
         Begin(L(<<Sym("set-proc!"), F, L(<<X, Y>>), Plus(X, Y)>>),
               L(<<F, One, Num(4)>>)),
         L(<<Sym("map"), Lambda1("x", Plus(X, One)),
             L(<<Sym("list"), One, Num(2)>>)>>),
         L(<<Sym("concat"), L(<<Sym("list"), One, Num(2)>>),
             L(<<Sym("list"), Num(3)>>)>>),
         Syntax(<<X>>, Datum(Plus(X, X)), L(<<F, Plus(One, One)>>)),
         Syntax(<<X, Y>>, Datum(L(<<Sym("list"), Y, X>>)), L(<<F, One, Num(2)>>)),
         Syntax(<<X, Y>>, Datum(L(<<Sym("list"), X, Datum(Y)>>)),
                L(<<F, One, Num(2), Num(3)>>)),
         Syntax(<<X>>, L(<<Sym("list"), Datum(Sym("-")), X, One>>),
                L(<<F, Plus(One, One)>>)),
         Syntax(<<X>>, Datum(Plus(X, Z)),
                L(<<Lambda1("z", L(<<F, Num(3)>>)), Num(4)>>)),
         Syntax(<<X>>, Datum(Plus(X, X)), L(<<Sym("syntax-expand"), F, One>>))}

\* More of test_programs.c, and a head that is a name.
Tested ==
    LET N == Sym("n")
        Acc == Sym("acc")
        G == Sym("g")
        Step == L(<<G, L(<<Sym("-"), N, One>>), L(<<Sym("*"), Acc, N>>)>>)
        Iteration == L(<<Sym("lambda"), L(<<N, Acc>>),
                         If(L(<<Sym("="), N, One>>), Acc, Step)>>)
        Factorial == Lambda1("n", Begin(L(<<Sym("set!"), G, Iteration>>),
                                        L(<<G, N, One>>)))
    IN  {Begin(L(<<Sym("set!"), F, Factorial>>), L(<<F, Num(5)>>)),
         Begin(L(<<Sym("context")>>), Num(12)),
         If(Truth(TRUE), If(Truth(FALSE), Num(12), Num(34)), Num(56)),
         L(<<Sym("+"), Num(43), Text("test")>>),
         L(<<Lambda1("f", L(<<F, One, Num(2)>>)), Datum(Sym("+"))>>),
         L(<<Lambda1("f", L(<<F, One, Num(2)>>)), Datum(L(<<Lambda1("x", Sym("+")), One>>))>>),
         L(<<Lambda1("x", L(<<Sym("eval"), Datum(L(<<Sym("list"), X>>))>>)), One>>)}

MCPrograms == Small \cup Large \cup Catching \cup Larger \cup Tests \cup Calls
                \cup Templates \cup Tested
=============================================================================
