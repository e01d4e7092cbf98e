----------------------------- MODULE ViaLibrary -----------------------------
(***************************************************************************)
(* The global environment once via_create_vm has run the bundled program    *)
(* (src/native.via): the forms and procedures of src/builtin.c, and the     *)
(* templates and procedures that program defines for lists and variables.   *)
(***************************************************************************)
EXTENDS ViaProcedures

LOCAL INSTANCE SequencesExt

\* The list of the elements of a sequence, and short lists.
L(s) == FoldRight(Pair, s, Nil)
L1(a) == Pair(a, Nil)
L2(a, b) == Pair(a, L1(b))
L3(a, b, c) == Pair(a, L2(b, c))
L4(a, b, c, d) == Pair(a, L3(b, c, d))

LOCAL S(name) == Sym(name)
LOCAL Quoted(v) == L2(S("quote"), v)
LOCAL If(a, b, c) == L4(S("if"), a, b, c)
LOCAL Lambda(formals, body) == L3(S("lambda"), formals, body)
LOCAL Of(name, v) == L2(S(name), v)
LOCAL IsNil(v) == Of("nil?", v)

-----------------------------------------------------------------------------
(* The procedures: their formals and their bodies. *)

MapBody ==
    LET this == L2(S("map-proc"), Of("car", S("map-list")))
    IN  If(IsNil(Of("cdr", S("map-list"))),
           Of("list", this),
           L3(S("cons"), this,
               L3(S("map"), S("map-proc"), Of("cdr", S("map-list")))))

AppendBody ==
    If(IsNil(S("target")),
       Of("list", S("element")),
       L3(S("cons"), Of("car", S("target")),
           L3(S("append"), Of("cdr", S("target")), S("element"))))

ConcatBody ==
    If(IsNil(S("a")),
       S("b"),
       L3(S("cons"), Of("car", S("a")),
           L3(S("concat"), Of("cdr", S("a")), S("b"))))

LibraryProcedures ==
    [n \in {"map"} |-> <<MapBody, L2(S("map-proc"), S("map-list"))>>]
    @@ [n \in {"append"} |-> <<AppendBody, L2(S("target"), S("element"))>>]
    @@ [n \in {"concat"} |-> <<ConcatBody, L2(S("a"), S("b"))>>]
    @@ [n \in {"cadr"} |->
            <<Of("car", Of("cdr", S("pair"))), L1(S("pair"))>>]
    @@ [n \in {"cddr"} |->
            <<Of("cdr", Of("cdr", S("pair"))), L1(S("pair"))>>]

-----------------------------------------------------------------------------
(* The templates: their formals and what they expand to, an expression that  *)
(* is evaluated to give the expression to evaluate.                          *)

Definitions == S("&definitions")
Body == S("&body")

SetProcTemplate ==
    Quoted(L3(S("set!"), S("&proc-name"),
               L3(S("lambda"), S("&proc-formals"), S("&proc-body"))))

LetTemplate ==
    L3(S("cons"),
        L4(S("list"), Quoted(S("lambda")),
            L3(S("map"), S("car"), Quoted(Definitions)),
            L3(S("list"), Quoted(S("begin")), Quoted(Body))),
        L3(S("map"), S("cadr"), Quoted(Definitions)))

LetStarTemplate ==
    L4(S("list"), Quoted(S("let")),
        Of("list", Of("car", Quoted(Definitions))),
        If(IsNil(Of("cdr", Quoted(Definitions))),
           L3(S("list"), Quoted(S("begin")), Quoted(Body)),
           L4(S("list"), Quoted(S("let*")), Of("cdr", Quoted(Definitions)),
               Quoted(Body))))

LetrecTemplate ==
    L3(S("let"),
        L1(L2(S("make-set!"),
                Lambda(L1(S("definition")),
                       L4(S("list"), Quoted(S("set!")),
                           Of("car", S("definition")),
                           Of("cadr", S("definition")))))),
        L3(S("cons"), Quoted(S("begin")),
            L3(S("append"),
                L3(S("map"), S("make-set!"), Quoted(Definitions)),
                Quoted(Body))))

CondTemplate ==
    LET Clauses == Quoted(S("&clauses"))
        Iterate(head, tail) == L3(S("cond-iter"), head, tail)
    IN  L3(S("letrec"),
            L1(L2(S("cond-iter"),
                    Lambda(L2(S("clause"), S("clause-tail")),
                           If(Of("eval", Of("car", S("clause"))),
                              Of("cadr", S("clause")),
                              If(IsNil(S("clause-tail")),
                                 L3(S("list"), S("quote"), Nil),
                                 Iterate(Of("car", S("clause-tail")),
                                         Of("cdr", S("clause-tail")))))))),
            Iterate(Of("car", Clauses), Of("cdr", Clauses)))

ForEachTemplate ==
    LET Iterate(head, tail) == L3(S("iterate"), head, tail)
        Realize == Of("realize", S("head"))
    IN  L3(S("letrec"),
            L2(L2(S("realize"),
                    Lambda(L1(S("&var")), Of("begin", S("&body")))),
                L2(S("iterate"),
                    Lambda(L2(S("head"), S("tail")),
                           If(IsNil(S("tail")),
                              Realize,
                              L3(S("begin"), Realize,
                                  Iterate(Of("car", S("tail")),
                                          Of("cdr", S("tail")))))))),
            Iterate(Of("car", S("&list")), Of("cdr", S("&list"))))

LibraryTemplates ==
    [n \in {"set-proc!"} |->
        <<L3(S("&proc-name"), S("&proc-formals"), S("&proc-body")),
          SetProcTemplate>>]
    @@ [n \in {"let"} |-> <<L2(Definitions, Body), LetTemplate>>]
    @@ [n \in {"let*"} |-> <<L2(Definitions, Body), LetStarTemplate>>]
    @@ [n \in {"letrec"} |-> <<L2(Definitions, Body), LetrecTemplate>>]
    @@ [n \in {"cond"} |-> <<L1(S("&clauses")), CondTemplate>>]
    @@ [n \in {"for-each"} |->
            <<L3(S("&list"), S("&var"), Body), ForEachTemplate>>]

-----------------------------------------------------------------------------
(* The forms and procedures of src/builtin.c. *)

FormRoutines ==
    {<<"begin", "begin-proc">>, <<"if", "if-proc">>, <<"and", "and-proc">>,
     <<"or", "or-proc">>, <<"set!", "set-proc">>, <<"quote", "quote-proc">>,
     <<"continuation", "continuation-proc">>, <<"lambda", "lambda-proc">>,
     <<"catch", "catch-proc">>}

SyntaxRoutines ==
    {<<"syntax-transform", "syntax-transform-proc">>,
     <<"syntax-expand", "syntax-expand-proc">>}

ProcedureRoutines ==
    PureRoutines \cup
    {<<"eval", "eval-native-proc">>, <<"throw", "throw-proc">>,
     <<"exception", "exception-proc">>, <<"context", "context-proc">>,
     <<"garbage-collect", "gc-proc">>}

\* The formals the two syntax forms are registered with; only whether there are
\* any is ever looked at.
SyntaxFormals ==
    L3(S("&syntax-symbol"), S("&syntax-formals"), S("&syntax-template"))

Names(R) == {r[1] : r \in R}
Routine(name, R) == (CHOOSE r \in R : r[1] = name)[2]

Global ==
    [n \in Names(FormRoutines) |-> Form(Nil, Nil, Routine(n, FormRoutines))]
    @@ [n \in Names(SyntaxRoutines) |->
            Form(SyntaxFormals, Nil, Routine(n, SyntaxRoutines))]
    @@ [n \in Names(ProcedureRoutines) |->
            Proc(Builtin(Routine(n, ProcedureRoutines)), Nil, 1)]
    @@ [n \in DOMAIN LibraryTemplates |->
            Form(LibraryTemplates[n][1], LibraryTemplates[n][2],
                 "transform-template-proc")]
    @@ [n \in DOMAIN LibraryProcedures |->
            Proc(LibraryProcedures[n][1], LibraryProcedures[n][2], 1)]

=============================================================================
