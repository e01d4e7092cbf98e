---------------------------- MODULE ViaProcedures ----------------------------
(***************************************************************************)
(* The values of the Via machine (src/type-utils.c) and the procedures of   *)
(* src/builtin.c that look at nothing but their arguments.                  *)
(*                                                                          *)
(* Values are terms: pairs are never written to once a program holds them.  *)
(* An exception is its type symbol; its message and its frame are only for  *)
(* display.  Numbers are integers without a width; floats are left out.     *)
(***************************************************************************)
EXTENDS ViaMicrocode, TLC

Nil == <<"nil">>
Num(n) == <<"int", n>>
Truth(b) == <<"bool", b>>
Text(s) == <<"string", s>>
Sym(s) == <<"sym", s>>
Pair(a, d) == <<"pair", a, d>>
Proc(body, formals, env) == <<"proc", body, formals, env>>
Form(formals, body, routine) == <<"form", formals, body, routine>>
Builtin(routine) == <<"builtin", Address[routine]>>
Frame(f) == <<"frame", f>>
Exception(type) == <<"exception", type>>

Is(type, v) == v[1] = type

IsPair(v) == v[1] \in {"pair", "exception"}

\* Bound: no list that is taken apart has more elements.
MaxLength == 30

\* What is left of a list without its first n elements.
Tails(v) ==
    LET After[n \in 0 .. MaxLength] ==
          IF n = 0 THEN v
          ELSE LET rest == After[n - 1]
               IN  IF Is("pair", rest) THEN rest[3] ELSE rest
    IN  After

Element(v, n) == Tails(v)[n - 1][2]

\* A list of at least n values, and of n.
IsListFrom(n, v) == \A i \in 0 .. n - 1 : Is("pair", Tails(v)[i])

IsListOf(n, v) == IsListFrom(n, v) /\ Tails(v)[n] = Nil

IsList(v) == \E n \in 0 .. MaxLength : IsListOf(n, v)

Length(v) == CHOOSE n \in 0 .. MaxLength : IsListOf(n, v)

\* via_reverse_list.
Reversed(list) ==
    LET Turned[n \in 0 .. MaxLength] ==
          IF n = 0 THEN Nil ELSE Pair(Element(list, n), Turned[n - 1])
    IN  Turned[Length(list)]

-----------------------------------------------------------------------------
(* What a procedure does with its arguments: it answers a value or throws,  *)
(* and has then popped some of them.  A procedure with no outcome at all    *)
(* reads through NULL, or divides by zero, and the program is over; one     *)
(* with two depends on where values lie in memory.                          *)

Gives(v, left) == {[thrown |-> FALSE, value |-> v, left |-> left]}
Fails(type, left) ==
    {[thrown |-> TRUE, value |-> Exception(type), left |-> left]}
WrongArguments(args) == Fails("exc-argument-error", args)

\* Two arguments or more, taken as Of says; what is left are the rest.
WithTwo(args, Of(_, _, _)) ==
    IF ~IsListFrom(2, args) THEN WrongArguments(args)
    ELSE Of(args[2], args[3][2], args[3][3])

\* One argument, and no other.
WithOne(args, Of(_)) ==
    IF ~IsListOf(1, args) THEN WrongArguments(args) ELSE Of(args[2])

\* via_p_intp and the like.  All but two look for the type behind the pointer
\* without asking whether it is NULL.
TypeOf ==
    [p \in {"intp-proc"} |-> "int"] @@ [p \in {"boolp-proc"} |-> "bool"]
    @@ [p \in {"stringp-proc"} |-> "string"]
    @@ [p \in {"procp-proc"} |-> "proc"] @@ [p \in {"formp-proc"} |-> "form"]
    @@ [p \in {"builtinp-proc"} |-> "builtin"]
    @@ [p \in {"framep-proc"} |-> "frame"]
    @@ [p \in {"symbolp-proc"} |-> "sym"]

TypeTest(name, args) ==
    WithOne(args, LAMBDA v :
        CASE name = "nilp-proc" -> Gives(Truth(v = Nil), Nil)
          [] name = "pairp-proc" -> Gives(Truth(IsPair(v)), Nil)
          [] name = "bytep-proc" ->
               IF v = Nil THEN {}
               ELSE Gives(Truth(Is("int", v) /\ v[2] \in -128 .. 255), Nil)
          [] OTHER ->
               IF v = Nil THEN {} ELSE Gives(Truth(Is(TypeOf[name], v)), Nil))

Orders == {"eq-proc", "neq-proc", "lt-proc", "gt-proc", "lte-proc", "gte-proc"}

Holds(order, a, b) ==
    CASE order = "eq-proc" -> a = b
      [] order = "neq-proc" -> a # b
      [] order = "lt-proc" -> a < b
      [] order = "gt-proc" -> a > b
      [] order = "lte-proc" -> a <= b
      [] order = "gte-proc" -> a >= b

\* Which of -1, 0, 1 two pointers, or what strcmp says of two strings, may be
\* as, to compare with 0.  Different values lie apart; the same symbol is the
\* same object, of other equal values there may be two.
Signs(a, b) ==
    IF a # b THEN {-1, 1} ELSE IF a[1] \in {"sym", "string"} THEN {0}
    ELSE {-1, 0, 1}

\* COMPARISON.
Compare(order, args) ==
    WithTwo(args, LAMBDA a, b, left :
        IF a = Nil \/ b = Nil THEN {}
        ELSE UNION {Gives(Truth(answer), left) : answer \in
            IF Is("int", a) /\ Is("int", b)
            THEN {Holds(order, a[2], b[2])}
            ELSE IF Is("bool", a) /\ Is("bool", b)
            THEN {Holds(order, IF a[2] THEN 1 ELSE 0, IF b[2] THEN 1 ELSE 0)}
            ELSE {Holds(order, sign, 0) : sign \in Signs(a, b)}})

\* C divides towards zero.
Quotient(a, b) ==
    LET Abs(n) == IF n < 0 THEN -n ELSE n
        q == Abs(a) \div Abs(b)
    IN  IF (a < 0) = (b < 0) THEN q ELSE -q

Operators == {"add-proc", "sub-proc", "mul-proc", "div-proc", "mod-proc"}

\* INFIX_OP on integers, and via_p_mod.
Arithmetic(operator, args) ==
    WithTwo(args, LAMBDA a, b, left :
        IF a = Nil \/ b = Nil THEN {}
        ELSE IF ~(Is("int", a) /\ Is("int", b))
        THEN Fails("exc-invalid-type", left)
        ELSE IF operator \in {"div-proc", "mod-proc"} /\ b[2] = 0 THEN {}
        ELSE Gives(Num(CASE operator = "add-proc" -> a[2] + b[2]
                         [] operator = "sub-proc" -> a[2] - b[2]
                         [] operator = "mul-proc" -> a[2] * b[2]
                         [] operator = "div-proc" -> Quotient(a[2], b[2])
                         [] operator = "mod-proc" ->
                              a[2] - b[2] * Quotient(a[2], b[2])), left))

\* via_p_not and the procedures that take an exception: NULL counts as no
\* argument.
Not(args) ==
    IF args = Nil THEN WrongArguments(args)
    ELSE IF args[2] = Nil \/ args[3] # Nil THEN WrongArguments(args[3])
    ELSE IF ~Is("bool", args[2]) THEN Fails("exc-invalid-type", Nil)
    ELSE Gives(Truth(~args[2][2]), Nil)

ExceptionType(args) ==
    IF args = Nil THEN WrongArguments(args)
    ELSE IF args[2] = Nil \/ args[3] # Nil THEN WrongArguments(args[3])
    ELSE IF ~Is("exception", args[2]) THEN Fails("exc-invalid-type", Nil)
    ELSE Gives(Sym(args[2][2]), Nil)

MakeException(args) ==
    IF ~IsListOf(2, args) THEN WrongArguments(args)
    ELSE IF args[2] = Nil \/ (Is("sym", args[2]) /\ args[3][2] = Nil) THEN {}
    ELSE IF ~Is("sym", args[2]) THEN Fails("exc-invalid-type", args[3])
    ELSE IF ~Is("string", args[3][2]) THEN Fails("exc-invalid-type", Nil)
    ELSE Gives(Exception(args[2][2]), Nil)

\* via_p_cons is content with one argument.
ConsPair(args) ==
    IF ~(IsListOf(1, args) \/ IsListOf(2, args)) THEN WrongArguments(args)
    ELSE IF args[3] = Nil THEN Gives(Pair(args[2], Nil), Nil)
    ELSE Gives(Pair(args[2], args[3][2]), Nil)

\* via_p_car and via_p_cdr, which do not mind further arguments.  An exception is
\* a pair: a symbol of its own, its type, and what is not modelled.
Part(args, Of(_)) ==
    IF args = Nil THEN WrongArguments(args)
    ELSE IF ~IsPair(args[2]) THEN Fails("exc-invalid-type", args[3])
    ELSE Gives(Of(args[2]), args[3])

Car(args) ==
    Part(args, LAMBDA v : IF Is("pair", v) THEN v[2] ELSE Sym("exception-type"))

Cdr(args) ==
    Part(args, LAMBDA v : IF Is("pair", v) THEN v[3]
                          ELSE Pair(Sym(v[2]), <<"message">>))

ReverseList(args) ==
    WithOne(args, LAMBDA v : IF IsList(v) THEN Gives(Reversed(v), Nil) ELSE {})

\* via_p_byte; v_int & 0xff.
Byte(args) ==
    WithOne(args, LAMBDA v :
        IF v = Nil THEN {}
        ELSE IF ~Is("int", v) THEN Fails("exc-invalid-type", Nil)
        ELSE IF v[2] \notin -128 .. 255 THEN Fails("exc-runtime-error", Nil)
        ELSE Gives(Num(v[2] % 256), Nil))

\* via_p_int.  The strings here are words, for which strtol answers 0.
IntOf(args) ==
    WithOne(args, LAMBDA v :
        CASE Is("int", v) -> Gives(v, Nil)
          [] Is("bool", v) -> Gives(Num(IF v[2] THEN 1 ELSE 0), Nil)
          [] Is("string", v) -> Gives(Num(0), Nil)
          [] v = Nil -> {}
          [] OTHER -> Fails("exc-invalid-type", Nil))

\* Each procedure of this module with its name in programs.
PureRoutines ==
    {<<"=", "eq-proc">>, <<"<>", "neq-proc">>, <<"<", "lt-proc">>,
     <<">", "gt-proc">>, <<"<=", "lte-proc">>, <<">=", "gte-proc">>,
     <<"+", "add-proc">>, <<"-", "sub-proc">>, <<"*", "mul-proc">>,
     <<"/", "div-proc">>, <<"%", "mod-proc">>, <<"not", "not-proc">>,
     <<"exception-type", "exception-type-proc">>,
     <<"make-exception", "make-exception-proc">>, <<"cons", "cons-proc">>,
     <<"car", "car-proc">>, <<"cdr", "cdr-proc">>, <<"list", "list-proc">>,
     <<"reverse", "reverse-proc">>, <<"byte", "byte-proc">>,
     <<"int", "int-proc">>, <<"nil?", "nilp-proc">>, <<"pair?", "pairp-proc">>,
     <<"byte?", "bytep-proc">>, <<"int?", "intp-proc">>,
     <<"bool?", "boolp-proc">>, <<"string?", "stringp-proc">>,
     <<"proc?", "procp-proc">>, <<"form?", "formp-proc">>,
     <<"builtin?", "builtinp-proc">>, <<"frame?", "framep-proc">>,
     <<"symbol?", "symbolp-proc">>}

Outcomes(name, args) ==
    CASE name \in Orders -> Compare(name, args)
      [] name \in Operators -> Arithmetic(name, args)
      [] name = "not-proc" -> Not(args)
      [] name = "exception-type-proc" -> ExceptionType(args)
      [] name = "make-exception-proc" -> MakeException(args)
      [] name = "cons-proc" -> ConsPair(args)
      [] name = "car-proc" -> Car(args)
      [] name = "cdr-proc" -> Cdr(args)
      [] name = "list-proc" -> Gives(args, args)
      [] name = "reverse-proc" -> ReverseList(args)
      [] name = "byte-proc" -> Byte(args)
      [] name = "int-proc" -> IntOf(args)
      [] OTHER -> TypeTest(name, args)

=============================================================================
