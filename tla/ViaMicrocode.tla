---------------------------- MODULE ViaMicrocode ----------------------------
(***************************************************************************)
(* The program memory of the Via machine once via_create_vm has filled it:  *)
(* the routines of src/builtin.viaas, which evaluate expressions and the    *)
(* native forms, and the two instructions via_bind_context assembles around *)
(* every builtin.  A source line is a label, <<"label", name>>, or an       *)
(* instruction, <<opcode>> or <<opcode, operand>>.                          *)
(***************************************************************************)
EXTENDS Integers, Sequences

LOCAL INSTANCE SequencesExt

\* via_bind_context: "name:", "callb index", "return".
Bound(name) == << <<"label", name>>, <<"callb", name>>, <<"return">> >>

EvalProc == <<
    <<"label", "eval-proc">>,
    <<"load", "expr">>, <<"framep">>, <<"skipz", "@no-frame-assume">>,
        <<"load", "expr">>, <<"call", "assume-proc">>,
    <<"label", "@no-frame-assume">>,
    <<"load", "expr">>, <<"pairp">>, <<"skipz", "@no-eval-compound">>,
        <<"load", "expr">>, <<"call", "eval-compound-proc">>,
    <<"label", "@no-eval-compound">>,
    <<"load", "expr">>, <<"builtinp">>, <<"skipz", "@no-builtin-exec">>,
        <<"load", "expr">>, <<"callacc">>,
    <<"label", "@no-builtin-exec">>,
    <<"load", "expr">>, <<"symbolp">>, <<"skipz", "@no-symbol-lookup">>,
        <<"load", "expr">>, <<"call", "lookup-proc">>,
    <<"label", "@no-symbol-lookup">>,
    <<"load", "expr">>, <<"setret">>, <<"return">> >>

EvalCompoundProc == <<
    <<"label", "eval-compound-proc">>,
    <<"load", "expr">>, <<"car">>,
    <<"push">>, <<"symbolp">>, <<"skipz", "@skip-special-form-check">>,
        <<"pop">>, <<"snap", "+1">>, <<"call", "lookup-proc">>, <<"loadret">>,
        <<"formp">>, <<"skipz", "@no-special-form">>,
            <<"load", "expr">>, <<"cdr">>, <<"set", "ctxt">>, <<"loadret">>,
            <<"call", "form-expand-proc">>,
    <<"label", "@no-special-form">>,
        <<"loadret">>, <<"jmp", "@regular-form">>,
    <<"label", "@skip-special-form-check">>,
    <<"pop">>,
    <<"label", "@regular-form">>,
    <<"snap", "@proc-eval-done">>, <<"set", "expr">>, <<"call", "eval-proc">>,
    <<"label", "@proc-eval-done">>,
    <<"loadret">>, <<"set", "proc">>, <<"loadnil">>, <<"set", "args">>,
    <<"load", "expr">>,
    <<"label", "@arg-eval-loop">>,
    <<"cdr">>, <<"set", "expr">>, <<"skipz", "@no-more-args">>,
        <<"push">>, <<"car">>, <<"set", "expr">>,
        <<"snap", "@arg-eval-done">>, <<"call", "eval-proc">>,
    <<"label", "@arg-eval-done">>,
        <<"pop">>, <<"set", "expr">>, <<"loadret">>, <<"pusharg">>,
        <<"load", "expr">>, <<"jmp", "@arg-eval-loop">>,
    <<"label", "@no-more-args">>,
    <<"call", "apply-proc">> >>

BeginProc == <<
    <<"label", "begin-proc">>,
    <<"load", "ctxt">>, <<"set", "expr">>,
    <<"label", "@begin-eval-loop">>,
    <<"cdr">>, <<"skipz", "@begin-last-expression">>,
        <<"snap", "@begin-expr-eval-done">>,
            <<"load", "expr">>, <<"car">>, <<"set", "expr">>,
            <<"call", "eval-proc">>,
    <<"label", "@begin-expr-eval-done">>,
        <<"load", "expr">>, <<"cdr">>, <<"set", "expr">>,
        <<"jmp", "@begin-eval-loop">>,
    <<"label", "@begin-last-expression">>,
    <<"load", "expr">>, <<"car">>, <<"set", "expr">>, <<"call", "eval-proc">> >>

SetProc == <<
    <<"label", "set-proc">>,
    <<"load", "ctxt">>, <<"cdr">>, <<"cdr">>, <<"car">>,
    <<"snap", "@set-value-eval-done">>, <<"set", "expr">>,
    <<"call", "eval-proc">>,
    <<"label", "@set-value-eval-done">>,
    <<"loadret">>, <<"pusharg">>,
    <<"load", "ctxt">>, <<"cdr">>, <<"car">>, <<"push">>,
    <<"call", "env-set-proc">> >>

\* The else clause is evaluated by the instructions given.
IfProcElse(evaluate) == <<
    <<"label", "if-proc">>,
    <<"load", "ctxt">>, <<"cdr">>, <<"car">>,
    <<"snap", "@if-predicate-eval-done">>, <<"set", "expr">>,
    <<"call", "eval-proc">>,
    <<"label", "@if-predicate-eval-done">>,
    <<"loadret">>, <<"skipz", "@if-eval-else-clause">>,
        <<"load", "ctxt">>, <<"cdr">>, <<"cdr">>, <<"car">>,
        <<"set", "expr">>, <<"call", "eval-proc">>,
    <<"label", "@if-eval-else-clause">>,
    <<"load", "ctxt">>, <<"cdr">>, <<"cdr">>, <<"cdr">>,
    <<"skipz", "@if-no-else-clause">> >> \o evaluate \o <<
    <<"label", "@if-no-else-clause">>,
    <<"return">> >>

\* Mutant: the else clause is evaluated in a frame of its own.
IfProcSnapping == IfProcElse(<<
    <<"car">>, <<"snap", "@if-else-done">>, <<"set", "expr">>,
    <<"call", "eval-proc">>, <<"label", "@if-else-done">>, <<"loadret">> >>)

\* The else clause replaces the current frame.
IfProc == IfProcElse(<<
    <<"car">>, <<"set", "expr">>, <<"call", "eval-proc">> >>)

AndProc == <<
    <<"label", "and-proc">>,
    <<"load", "ctxt">>, <<"cdr">>, <<"car">>,
    <<"snap", "@and-eval-first-done">>, <<"set", "expr">>,
    <<"call", "eval-proc">>,
    <<"label", "@and-eval-first-done">>,
    <<"loadret">>, <<"skipz", "@and-done">>,
        <<"load", "ctxt">>, <<"cdr">>, <<"car">>,
        <<"snap", "@and-eval-second-done">>, <<"set", "expr">>,
        <<"call", "eval-proc">>,
    <<"label", "@and-eval-second-done">>,
        <<"loadret">>,
    <<"label", "@and-done">>,
    <<"return">> >>

OrProc == <<
    <<"label", "or-proc">>,
    <<"load", "ctxt">>, <<"cdr">>, <<"car">>,
    <<"snap", "@or-eval-first-done">>, <<"set", "expr">>,
    <<"call", "eval-proc">>,
    <<"label", "@or-eval-first-done">>,
    <<"loadret">>, <<"skipz", "@or-eval-second">>,
        <<"return">>,
    <<"label", "@or-eval-second">>,
    <<"load", "ctxt">>, <<"cdr">>, <<"cdr">>, <<"car">>,
    <<"snap", "@or-eval-second-done">>, <<"set", "expr">>,
    <<"call", "eval-proc">>,
    <<"label", "@or-eval-second-done">>,
    <<"loadret">>, <<"return">> >>

\* Evaluates the expression, and then what it has been transformed to.
EvalTransformProc == <<
    <<"label", "eval-transform-proc">>,
    <<"snap", "+1">>, <<"call", "eval-proc">>,
    <<"loadret">>, <<"set", "expr">>, <<"call", "eval-proc">> >>

-----------------------------------------------------------------------------
(* The whole memory, in the order it is assembled. *)

\* via_add_core_routines, via_add_core_forms, via_add_core_procedures; and the
\* default handler, which every via_run_eval assembles anew.
Natives ==
    <<"transform-template-proc", "syntax-transform-proc", "syntax-expand-proc",
      "quote-proc", "continuation-proc", "lambda-proc", "catch-proc",
      "eval-native-proc", "throw-proc", "eq-proc", "gt-proc", "lt-proc",
      "gte-proc", "lte-proc", "neq-proc", "not-proc", "context-proc",
      "make-exception-proc", "exception-proc", "exception-type-proc",
      "cons-proc", "car-proc", "cdr-proc", "list-proc", "reverse-proc",
      "add-proc", "sub-proc", "mul-proc", "div-proc", "mod-proc", "gc-proc",
      "byte-proc", "int-proc", "bytep-proc", "nilp-proc", "intp-proc",
      "boolp-proc", "stringp-proc", "pairp-proc", "procp-proc", "formp-proc",
      "builtinp-proc", "framep-proc", "symbolp-proc", "default-except-proc">>

Source ==
    << <<"return">> >>
    \o Bound("lookup-proc") \o Bound("apply-proc") \o Bound("form-expand-proc")
    \o Bound("assume-proc") \o Bound("env-set-proc")
    \o EvalProc \o EvalCompoundProc \o BeginProc \o SetProc \o IfProc
    \o AndProc \o OrProc \o EvalTransformProc
    \o FlattenSeq([i \in DOMAIN Natives |-> Bound(Natives[i])])

IsLabel(line) == line[1] = "label"

Labels == {Source[i][2] : i \in {j \in DOMAIN Source : IsLabel(Source[j])}}

InstructionsOf(lines) == SelectSeq(lines, LAMBDA line : ~IsLabel(line))

Instructions == InstructionsOf(Source)

\* The first pass: a label's address is that of the instruction after it.
Address ==
    [l \in Labels |->
        LET line == CHOOSE i \in DOMAIN Source : Source[i] = <<"label", l>>
        IN  Len(InstructionsOf(SubSeq(Source, 1, line)))]

\* The second pass: the operands of the instructions that go somewhere become
\* addresses.  SKIPZ, SNAP and JMP hold them relative to the next instruction,
\* so "+1" is the instruction after that.
Code ==
    [a \in 0 .. Len(Instructions) - 1 |->
        LET line == Instructions[a + 1]
        IN  IF line[1] \notin {"call", "skipz", "snap", "jmp"} THEN line
            ELSE <<line[1], IF line[2] = "+1" THEN a + 2
                                              ELSE Address[line[2]]>>]

=============================================================================
