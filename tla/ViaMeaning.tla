----------------------------- MODULE ViaMeaning -----------------------------
(***************************************************************************)
(* What an expression means, told by its structure: no frames, no stack, no *)
(* program counter.  A call evaluates its operator and then every operand,  *)
(* from the left; a procedure's body is evaluated in the environment the    *)
(* procedure was made in; an exception ends everything up to the nearest    *)
(* catch and nothing else.  ViaMachine is compared with this.               *)
(*                                                                          *)
(* Values and environments are those of ViaMachine; store is the sequence   *)
(* of environments made so far, and excn the exception being handled.       *)
(***************************************************************************)
EXTENDS ViaMachine

Value(v, store) == [thrown |-> FALSE, value |-> v, store |-> store]
Thrown(type, store) ==
    [thrown |-> TRUE, value |-> Exception(type), store |-> store]

\* What follows an evaluation that has not thrown.
Then(r, Next_(_, _)) == IF r.thrown THEN r ELSE Next_(r.value, r.store)

Lookup(s, env, store) ==
    LET e == BinderIn(store, s, env)
    IN  IF e = 0 THEN Thrown("exc-undefined-value", store)
        ELSE Value(BoundIn(store, s, e), store)

RECURSIVE Meaning(_, _, _, _), Operands(_, _, _, _), Sequence(_, _, _, _)

\* The values of a list of expressions, as a list.
Operands(list, env, store, excn) ==
    IF list = Nil THEN Value(Nil, store)
    ELSE Then(Meaning(list[2], env, store, excn), LAMBDA v, st :
         Then(Operands(list[3], env, st, excn), LAMBDA vs, st2 :
              Value(Pair(v, vs), st2)))

\* The value of the last of a list of expressions.
Sequence(list, env, store, excn) ==
    Then(Meaning(list[2], env, store, excn), LAMBDA v, st :
         IF list[3] = Nil THEN Value(v, st)
         ELSE Sequence(list[3], env, st, excn))

\* One operand for each formal, all at once, where the machine substitutes one
\* after the other; the last formal stands for the operands left, or for the one.
TakenBy(formals, operands) ==
    IF formals[3] = Nil /\ operands[3] # Nil THEN operands ELSE operands[2]

RECURSIVE Substitution(_, _)
Substitution(formals, operands) ==
    IF formals = Nil \/ operands = Nil THEN <<>>
    ELSE Substitution(formals[3], operands[3])
         @@ (formals[2] :> TakenBy(formals, operands))

RECURSIVE Substituted(_, _)
Substituted(sub, v) ==
    IF Is("pair", v) THEN Pair(Substituted(sub, v[2]), Substituted(sub, v[3]))
    ELSE IF v \in DOMAIN sub THEN sub[v] ELSE v

Expansion(form, operands) ==
    Substituted(Substitution(form[2], operands), form[3])

SetIn(store, env, symbol, v) ==
    [store EXCEPT ![env].bound = (symbol[2] :> v) @@ @]

\* Definitions are lists of a name and an expression.
RECURSIVE NamesOf(_), InitsOf(_)
NamesOf(defs) == IF defs = Nil THEN Nil ELSE Pair(defs[2][2], NamesOf(defs[3]))
InitsOf(defs) ==
    IF defs = Nil THEN Nil ELSE Pair(defs[2][3][2], InitsOf(defs[3]))

\* expr in a new environment inside env.
Inside(expr, env, bound, store, excn) ==
    Meaning(expr, Len(store) + 1,
            Append(store, [up |-> env, bound |-> bound]), excn)

\* let evaluates every definition outside, let* each inside those before it;
\* letrec sets variables where it stands, one after the other.
Let(defs, body, env, store, excn) ==
    Then(Operands(InitsOf(defs), env, store, excn), LAMBDA vs, st :
         Inside(body, env, Bindings(NamesOf(defs), vs), st, excn))

RECURSIVE LetStar(_, _, _, _, _), Letrec(_, _, _, _, _)
LetStar(defs, body, env, store, excn) ==
    IF defs = Nil THEN Meaning(body, env, store, excn)
    ELSE Then(Meaning(defs[2][3][2], env, store, excn), LAMBDA v, st :
              LetStar(defs[3], body, Len(st) + 1,
                      Append(st, [up |-> env, bound |-> defs[2][2][2] :> v]),
                      excn))

Letrec(defs, body, env, store, excn) ==
    IF defs = Nil THEN Meaning(body, env, store, excn)
    ELSE Then(Meaning(defs[2][3][2], env, store, excn), LAMBDA v, st :
              Letrec(defs[3], body, env, SetIn(st, env, defs[2][2], v), excn))

\* The first clause whose test holds.  Tests are evaluated by the procedure eval:
\* globally.
RECURSIVE Cond(_, _, _, _)
Cond(clauses, env, store, excn) ==
    Then(Meaning(clauses[2][2], 1, store, excn), LAMBDA v, st :
         IF ~Zero(v) THEN Meaning(clauses[2][3][2], env, st, excn)
         ELSE Cond(clauses[3], env, st, excn))

\* The body for each element, in an environment of its own, and the value of the
\* last.  The template evaluates its list for the first element and once more for
\* those after it, and what it comes to is evaluated in its turn.
RECURSIVE ForEach(_, _, _, _, _, _)
ForEach(list, variable, body, env, store, excn) ==
    Then(Inside(body, env, variable[2] :> list[2], store, excn), LAMBDA v, st :
         IF list[3] = Nil THEN Value(v, st)
         ELSE ForEach(list[3], variable, body, env, st, excn))

\* What the bundled templates are for, and what any other one means.
Template(form, args, env, store, excn) ==
    CASE form = Global["let"] -> Let(args[2], args[3][2], env, store, excn)
      [] form = Global["let*"] -> LetStar(args[2], args[3][2], env, store, excn)
      [] form = Global["letrec"] ->
           Letrec(args[2], args[3][2], env, store, excn)
      [] form = Global["cond"] -> Cond(args, env, store, excn)
      [] form = Global["for-each"] ->
           Then(Meaning(args[2], env, store, excn), LAMBDA list, st :
           Then(Meaning(args[2], env, st, excn), LAMBDA again, st2 :
           Then(ForEach(Pair(list[2], again[3]), args[3][2], args[3][3][2],
                        env, st2, excn), LAMBDA v, st3 :
                Meaning(v, env, st3, excn))))
      [] form = Global["set-proc!"] ->
           LET made == Proc(args[3][3][2], args[3][2], env)
           IN  Value(made, SetIn(store, env, args[2], made))
      [] OTHER ->
           Then(Meaning(Expansion(form, args), env, store, excn), LAMBDA v, st :
                Meaning(v, env, st, excn))

SpecialForm(form, args, env, store, excn) ==
    LET routine == form[4]
    IN
    CASE routine = "quote-proc" ->
           Value(args[2], store)
      [] routine = "lambda-proc" ->
           IF IsListOf(2, args) THEN Value(Proc(args[3][2], args[2], env), store)
           ELSE Thrown("exc-syntax-error", store)
      [] routine = "begin-proc" ->
           Sequence(args, env, store, excn)
      [] routine = "if-proc" ->
           Then(Meaning(args[2], env, store, excn), LAMBDA v, st :
                IF ~Zero(v) THEN Meaning(args[3][2], env, st, excn)
                ELSE IF args[3][3] = Nil THEN Value(v, st)
                ELSE Meaning(args[3][3][2], env, st, excn))
      [] routine = "or-proc" ->
           Then(Meaning(args[2], env, store, excn), LAMBDA v, st :
                IF ~Zero(v) THEN Value(v, st)
                ELSE Meaning(args[3][2], env, st, excn))
      [] routine = "set-proc" ->
           Then(Meaning(args[3][2], env, store, excn), LAMBDA v, st :
                Value(v, SetIn(st, env, args[2], v)))
      [] routine = "catch-proc" ->
           LET r == Meaning(args[2], env, store, excn)
           IN  IF r.thrown THEN Meaning(args[3][2], env, r.store, r.value)
                           ELSE r
      [] routine = "syntax-transform-proc" ->
           Value(form, SetIn(store, env, args[2],
                             Form(args[3][2], args[3][3][2],
                                  "transform-template-proc")))
      [] routine = "syntax-expand-proc" ->
           Then(Lookup(args[2][2], env, store), LAMBDA named, st :
                Value(Expansion(named, args[3]), st))
      [] routine = "transform-template-proc" ->
           Template(form, args, env, store, excn)

\* The procedures that look at more than their arguments, and the others.
Native(routine, args, store, excn) ==
    CASE routine = "exception-proc" ->
           Value(excn, store)
      [] routine = "context-proc" ->  \* what the answer is, is left out
           Value(Nil, store)
      [] routine = "throw-proc" ->
           IF ~IsListOf(1, args) THEN Thrown("exc-argument-error", store)
           ELSE IF Is("exception", args[2]) THEN Thrown(args[2][2], store)
           ELSE Thrown("exc-invalid-type", store)
      [] OTHER ->
           LET outcome == CHOOSE o \in Outcomes(routine, args) : TRUE
           IN  [thrown |-> outcome.thrown, value |-> outcome.value,
                store |-> store]

NativeRoutines == {r[2] : r \in ProcedureRoutines}

Call(proc, args, store, excn) ==
    IF proc = Global["eval"] THEN Meaning(args[2], 1, store, excn)
    ELSE IF Is("builtin", proc[2])
    THEN Native(CHOOSE r \in NativeRoutines : Builtin(r) = proc[2],
                args, store, excn)
    ELSE Meaning(proc[2], Len(store) + 1,
                 Append(store, [up |-> proc[4],
                                bound |-> Bindings(proc[3], args)]),
                 excn)

\* A variable at the head of a call that is bound to an expression stands for that
\* expression: ports are called with the name of what they are to do.
Operator(expr, env, store, excn) ==
    IF ~Is("sym", expr) THEN Meaning(expr, env, store, excn)
    ELSE Then(Lookup(expr[2], env, store), LAMBDA v, st :
              IF Is("form", v) THEN Value(v, st) ELSE Meaning(v, env, st, excn))

Meaning(expr, env, store, excn) ==
    CASE Is("sym", expr) -> Lookup(expr[2], env, store)
      [] Is("pair", expr) ->
           Then(Operator(expr[2], env, store, excn), LAMBDA head, st :
                IF Is("form", head) /\ Is("sym", expr[2])
                THEN SpecialForm(head, expr[3], env, st, excn)
                ELSE Then(Operands(expr[3], env, st, excn), LAMBDA args, st2 :
                          Call(head, args, st2, excn)))
      [] OTHER -> Value(expr, store)

\* The answer via_run_eval gives the host; of procedures, only that it is one.
Shown(v) == IF Is("proc", v) THEN <<"proc">> ELSE v

Expected(expr) ==
    Shown(Meaning(expr, 1, << [up |-> 0, bound |-> <<>>] >>, Nil).value)

-----------------------------------------------------------------------------
(* Properties. *)

\* The machine gives the answer the expression means.
AnswersAgree == ~running /\ runs = 1 => Shown(ret) = Expected(program)

\* How many frames a RETURN after the other would pass, from frame f.
RECURSIVE Depth(_)
Depth(f) == IF f = 0 THEN 0 ELSE 1 + Depth(frames[f].parn)

\* How deep the parentheses of an expression nest.
RECURSIVE Nesting(_)
Nesting(v) ==
    IF ~Is("pair", v) THEN 0
    ELSE LET first == 1 + Nesting(v[2])
             rest == Nesting(v[3])
         IN  IF first > rest THEN first ELSE rest

\* "Guarantees proper tail call optimization": in a program whose procedures
\* call themselves in tail position only, neither the chain of frames nor the
\* data stack gets deeper than the program's text, however long it runs.  Of the
\* host's first expression, for throws in one leave entries behind for the next.
TailCallsFlat ==
    running /\ runs = 1 =>
        LET limit == 1 + Nesting(program)
        IN  Depth(regs) <= limit /\ Len(stack) <= limit

=============================================================================
