----------------------------- MODULE ViaMachine -----------------------------
(***************************************************************************)
(* The Via virtual machine (src/vm.c): via_run, one action per opcode of    *)
(* ViaMicrocode and one per builtin (CALLB).  It evaluates the expressions  *)
(* a host hands to via_run_eval, one after the other on the same machine.   *)
(*                                                                          *)
(* Values are those of ViaProcedures.  What programs change, frames and     *)
(* environments, is named by a number: 0 is NULL, n > 0 the n-th one made;  *)
(* environment 1 is the global one.                                         *)
(***************************************************************************)
EXTENDS ViaLibrary

CONSTANTS
    Programs,       \* the expressions a host may run
    MaxFrames,      \* bound: how many frames are made
    MaxRuns         \* bound: how many expressions the host runs

ASSUME MachineAssumption == MaxFrames \in Nat \ {0} /\ MaxRuns \in Nat

-----------------------------------------------------------------------------
\* Mutant: only #f is false.
ZeroFalse(v) == v = Truth(FALSE)

\* SKIPZ takes the first word of a value for an integer: NULL, 0 and #f are
\* zero, and so is a pair whose v_car is NULL.  The body of a procedure and the
\* formals of a form, which a native form does not have, take the same place.
Zero(v) ==
    \/ v \in {Nil, Num(0), Truth(FALSE)}
    \/ v[1] \in {"pair", "proc", "form"} /\ v[2] = Nil

-----------------------------------------------------------------------------

VARIABLES
    acc, ret,       \* the accumulator and the return value
    regs,           \* the current frame
    frames,         \* what the registers of each frame hold
    envs,           \* each environment: its parent, and what it binds; of the
                    \* global one only what programs have bound since Init
    stack,          \* the data stack, shared by all frames
    running,        \* via_run is executing
    program,        \* the expression it was given
    runs            \* how many expressions the host has run

vars == <<acc, ret, regs, frames, envs, stack, running, program, runs>>

\* via_create_vm.  What the bundled program has bound is in Global; the frames
\* its run leaves behind are garbage.
Init ==
    /\ acc = Nil
    /\ ret = Nil
    /\ regs = 1
    /\ frames = << [pc |-> 0, expr |-> Nil, proc |-> Nil, args |-> Nil,
                    env |-> 1, excn |-> Nil, exh |-> 0, ctxt |-> Nil,
                    parn |-> 0] >>
    /\ envs = << [up |-> 0, bound |-> <<>>] >>
    /\ stack = <<>>
    /\ running = FALSE
    /\ program = Nil
    /\ runs = 0

-----------------------------------------------------------------------------
(* Frames. *)

\* The registers of the current frame.
Reg == frames[regs]

\* The instruction the current frame is at.
Op(name) == running /\ Code[Reg.pc][1] = name
Operand == Code[Reg.pc][2]

\* Mutant: the new frame keeps the parent that it has copied.
MadeSibling == Reg

\* via_make_frame: a copy of the current registers, with the current frame as
\* its parent.
Made == [Reg EXCEPT !.parn = regs]

\* The end of every instruction: frame f is current, and if its program counter
\* has the value the instruction started at, it goes on by one.
Proceed(fs, f) ==
    /\ regs' = f
    /\ frames' = [fs EXCEPT ![f].pc = IF @ = Reg.pc THEN @ + 1 ELSE @]
    /\ UNCHANGED <<running, program, runs>>

\* The current frame stays, with the registers r.
With(r) == Proceed([frames EXCEPT ![regs] = r], regs)

Jump(r, address) == With([r EXCEPT !.pc = address])

-----------------------------------------------------------------------------
(* Opcodes that touch nothing but the accumulator and the return value. *)

Load(v) ==
    /\ acc' = v
    /\ With(Reg)
    /\ UNCHANGED <<ret, envs, stack>>

OpCar == Op("car") /\ Is("pair", acc) /\ Load(acc[2])

OpCdr == Op("cdr") /\ Is("pair", acc) /\ Load(acc[3])

OpLoad == Op("load") /\ Load(Reg[Operand])

OpLoadnil == Op("loadnil") /\ Load(Nil)

OpLoadret == Op("loadret") /\ Load(ret)

\* PAIRP, SYMBOLP, FORMP, FRAMEP, BUILTINP.  An exception is a pair.
TypeTests ==
    {<<"pairp", "pair">>, <<"pairp", "exception">>, <<"symbolp", "sym">>,
     <<"formp", "form">>, <<"framep", "frame">>, <<"builtinp", "builtin">>}

OpTypeTest ==
    \E test \in {t[1] : t \in TypeTests} :
        Op(test) /\ Load(Truth(<<test, acc[1]>> \in TypeTests))

OpSetret ==
    /\ Op("setret")
    /\ ret' = acc
    /\ With(Reg)
    /\ UNCHANGED <<acc, envs, stack>>

-----------------------------------------------------------------------------
(* Opcodes that change registers, the data stack, the frame. *)

Quiet == UNCHANGED <<acc, ret, envs, stack>>

OpSet == Op("set") /\ With([Reg EXCEPT ![Operand] = acc]) /\ Quiet

OpPusharg ==
    Op("pusharg") /\ With([Reg EXCEPT !.args = Pair(acc, @)]) /\ Quiet

OpCall == Op("call") /\ Jump(Reg, Operand) /\ Quiet

OpJmp == Op("jmp") /\ Jump(Reg, Operand) /\ Quiet

OpCallacc ==
    Op("callacc") /\ Is("builtin", acc) /\ Jump(Reg, acc[2]) /\ Quiet

OpSkipz ==
    /\ Op("skipz")
    /\ IF Zero(acc) THEN Jump(Reg, Operand) ELSE With(Reg)
    /\ Quiet

OpPush ==
    /\ Op("push")
    /\ stack' = Append(stack, acc)
    /\ With(Reg)
    /\ UNCHANGED <<acc, ret, envs>>

Popped == SubSeq(stack, 1, Len(stack) - 1)

OpPop ==
    /\ Op("pop")
    /\ stack # <<>>
    /\ acc' = stack[Len(stack)]
    /\ stack' = Popped
    /\ With(Reg)
    /\ UNCHANGED <<ret, envs>>

\* The new frame goes on right after the SNAP, the current one, when it is
\* returned to, at the operand.
OpSnap ==
    /\ Op("snap")
    /\ Len(frames) < MaxFrames
    /\ Proceed(Append([frames EXCEPT ![regs].pc = Operand], Made),
               Len(frames) + 1)
    /\ Quiet

\* Mutant: RETURN takes the parent without looking whether there is one.
OpReturnAnyway ==
    /\ Op("return")
    /\ acc' = Frame(Reg.parn)
    /\ Proceed(frames, Reg.parn)
    /\ UNCHANGED <<ret, envs, stack>>

OpReturn ==
    /\ Op("return")
    /\ Reg.parn # 0
    /\ acc' = Frame(Reg.parn)
    /\ Proceed(frames, Reg.parn)
    /\ UNCHANGED <<ret, envs, stack>>

\* RETURN without a parent: via_run returns vm->ret.
OpReturnToHost ==
    /\ Op("return")
    /\ Reg.parn = 0
    /\ running' = FALSE
    /\ UNCHANGED <<acc, ret, regs, frames, envs, stack, program, runs>>

-----------------------------------------------------------------------------
(* Lists, environments, exceptions. *)

\* The operand a formal takes of those that are left: the last formal takes all.
Share(rest, last) == IF last /\ rest[3] # Nil THEN rest ELSE rest[2]

\* The loop of via_apply: what each formal is bound to.  A formal without an
\* argument is bound to NULL; of two formals with one name the later one counts.
Bindings(formals, args) ==
    LET n == Length(formals)
        Name(i) == Element(formals, i)[2]
        Value(i) == LET rest == Tails(args)[i - 1]
                    IN  IF Is("pair", rest) THEN Share(rest, i = n) ELSE Nil
        Last(s) == CHOOSE i \in 1 .. n :
                      Name(i) = s /\ \A j \in i + 1 .. n : Name(j) # s
    IN  [s \in {Name(i) : i \in 1 .. n} |-> Value(Last(s))]

\* Environment e binds symbol s.
Binds(store, s, e) ==
    s \in DOMAIN store[e].bound \/ (e = 1 /\ s \in DOMAIN Global)

\* The environment from e outwards that binds symbol s; 0 if none does.
BinderIn(store, s, e) ==
    LET Outer[n \in 0 .. Len(store)] ==
          IF n = 0 THEN e
          ELSE LET inner == Outer[n - 1]
               IN  IF inner = 0 THEN 0 ELSE store[inner].up
        Found(n) == Outer[n] # 0 /\ Binds(store, s, Outer[n])
    IN  IF \E n \in 0 .. Len(store) : Found(n)
        THEN Outer[CHOOSE n \in 0 .. Len(store) :
                      Found(n) /\ \A m \in 0 .. n - 1 : ~Found(m)]
        ELSE 0

Binder(s, e) == BinderIn(envs, s, e)

\* What environment e, which binds symbol s, binds it to.
BoundIn(store, s, e) ==
    IF s \in DOMAIN store[e].bound THEN store[e].bound[s] ELSE Global[s]

\* via_env_set: binds a symbol in the current environment, and in no other.
EnvsWith(symbol, value) ==
    [envs EXCEPT ![Reg.env].bound =
        [s \in DOMAIN @ \cup {symbol[2]} |->
            IF s = symbol[2] THEN value ELSE @[s]]]

\* via_throw by the current frame, whose registers are then r: the handler frame
\* is assumed and gets the exception.  The data stack stays as it is.
ThrowFrom(r, value) ==
    /\ Reg.exh # 0
    /\ acc' = Frame(Reg.exh)
    /\ Proceed([frames EXCEPT ![regs] = r, ![Reg.exh].excn = value], Reg.exh)

Throw(type) ==
    ThrowFrom(Reg, Exception(type)) /\ UNCHANGED <<ret, envs, stack>>

-----------------------------------------------------------------------------
(* CALLB: the builtins the routines call. *)

Callb(name) == Op("callb") /\ Operand = name

\* via_pop_arg: the first argument, NULL if there is none, and the rest.
FirstArg == IF Is("pair", Reg.args) THEN Reg.args[2] ELSE Nil
RestArgs == IF Is("pair", Reg.args) THEN Reg.args[3] ELSE Nil

\* A builtin that answers v.
Answer(v) ==
    /\ ret' = v
    /\ With(Reg)
    /\ UNCHANGED <<acc, envs, stack>>

\* via_env_lookup.
LookupFound ==
    LET e == Binder(acc[2], Reg.env)
    IN  Callb("lookup-proc") /\ e # 0 /\ Answer(BoundIn(envs, acc[2], e))

LookupFailed ==
    /\ Callb("lookup-proc")
    /\ Binder(acc[2], Reg.env) = 0
    /\ ret' = <<"undefined">>
    /\ ThrowFrom(Reg, Exception("exc-undefined-value"))
    /\ UNCHANGED <<envs, stack>>

\* via_apply, binding the arguments in a new environment inside up.
ApplyIn(up) ==
    LET args == Reversed(Reg.args)
    IN  /\ Callb("apply-proc")
        /\ Is("proc", Reg.proc)
        /\ IsList(Reg.args) /\ IsList(Reg.proc[3])
        /\ envs' = Append(envs, [up |-> up,
                                 bound |-> Bindings(Reg.proc[3], args)])
        /\ acc' = <<"env", Reg.proc[4]>>
        /\ Jump([Reg EXCEPT !.args = args, !.env = Len(envs) + 1,
                            !.expr = Reg.proc[2]],
                Address["eval-proc"])
        /\ UNCHANGED <<ret, stack>>

\* Mutant: the caller's environment instead of the procedure's own.
ApplyDynamic == ApplyIn(Reg.env)

Apply == ApplyIn(Reg.proc[4])

\* via_expand_form: the form and its operands are the context of its routine.
ExpandForm ==
    /\ Callb("form-expand-proc")
    /\ Is("form", acc)
    /\ Jump([Reg EXCEPT !.ctxt = Pair(acc, @), !.expr = Builtin(acc[4])],
            Address["eval-proc"])
    /\ Quiet

AssumeFrame ==
    Callb("assume-proc") /\ Is("frame", acc) /\ Proceed(frames, acc[2]) /\ Quiet

\* via_env_set_proc, which binds the popped symbol, leaving the data stack as left.
EnvSetLeaving(left) ==
    /\ Callb("env-set-proc")
    /\ stack # <<>>
    /\ stack' = left
    /\ envs' = EnvsWith(stack[Len(stack)], FirstArg)
    /\ ret' = FirstArg
    /\ With([Reg EXCEPT !.args = RestArgs])
    /\ UNCHANGED acc

\* Mutant: the symbol stays on the data stack.
EnvSetPeeking == EnvSetLeaving(stack)

EnvSet == EnvSetLeaving(Popped)

-----------------------------------------------------------------------------
(* CALLB: the forms.  The context is the form and its operands. *)

InForm(name) == Callb(name) /\ Is("pair", Reg.ctxt)
Ops == Reg.ctxt[3]

\* Mutant: the form takes it for granted that there is an operand.
QuoteUnchecked ==
    InForm("quote-proc") /\ Is("pair", Ops) /\ Answer(Ops[2])

Quote ==
    /\ InForm("quote-proc")
    /\ \/ Ops = Nil /\ Throw("exc-syntax-error")
       \/ Is("pair", Ops) /\ Answer(Ops[2])

\* via_f_continuation: the value is a new frame, at this very instruction.
Continuation ==
    /\ InForm("continuation-proc")
    /\ Ops = Nil
    /\ Len(frames) < MaxFrames
    /\ ret' = Frame(Len(frames) + 1)
    /\ Proceed(Append(frames, Made), regs)
    /\ UNCHANGED <<acc, envs, stack>>

ContinuationOperands ==
    /\ InForm("continuation-proc")
    /\ Ops # Nil
    /\ Throw("exc-syntax-error")

\* The formals and the body; without a body the code reads through NULL.
Closure == Proc(Ops[3][2], Ops[2], Reg.env)

Lambda ==
    /\ InForm("lambda-proc")
    /\ IsListOf(2, Ops)
    /\ Answer(Closure)

\* No operands, or too many, which is found out after vm->ret has been set.
LambdaMalformed ==
    /\ InForm("lambda-proc")
    /\ \/ ~IsListFrom(2, Ops) /\ ~IsListOf(1, Ops) /\ UNCHANGED ret
       \/ IsListFrom(2, Ops) /\ ~IsListOf(2, Ops) /\ ret' = Closure
    /\ ThrowFrom(Reg, Exception("exc-syntax-error"))
    /\ UNCHANGED <<envs, stack>>

\* via_catch: the frames once the current one evaluates expr, and the handler is
\* to be evaluated in a frame beside it that has the outer handler for its own.
Guarded(expr, handler) ==
    LET start == Address["eval-proc"]
    IN  Append([frames EXCEPT ![regs].exh = Len(frames) + 1,
                              ![regs].expr = expr,
                              ![regs].pc = start],
               [Reg EXCEPT !.expr = handler, !.pc = start])

Catch ==
    /\ InForm("catch-proc")
    /\ IsListFrom(2, Ops)
    /\ Len(frames) < MaxFrames
    /\ Proceed(Guarded(Ops[2], Ops[3][2]), regs)
    /\ Quiet

CatchMalformed ==
    /\ InForm("catch-proc")
    /\ ~IsListFrom(2, Ops)
    /\ Throw("exc-syntax-error")

-----------------------------------------------------------------------------
(* CALLB: templates.  A template is a form whose body, once the operands have *)
(* taken the places of the formals, is evaluated to give the expression that  *)
(* is evaluated in its stead.                                                 *)

\* Bound: levels of pairs in a template and what has been put into it.
MaxDepth == 36

\* What pair v is built from.
Parts(v) ==
    LET Parted(above) ==
            UNION {{t[2], t[3]} : t \in {u \in above : Is("pair", u)}}
        Down[n \in 0 .. MaxDepth] ==
            IF n = 0 THEN {}
            ELSE LET above == Down[n - 1] IN above \cup Parted(above \cup {v})
    IN  Down[MaxDepth]

\* via_expand_recurse: every occurrence of symbol in v replaced.
Replaced(symbol, by, v) ==
    LET parts == Parts(v) \cup {v}
        Rebuilt[n \in 0 .. MaxDepth] ==
            IF n = 0
            THEN [t \in parts |-> IF Is("sym", t) /\ t = symbol THEN by ELSE t]
            ELSE LET below == Rebuilt[n - 1]
                 IN  [t \in parts |->
                        IF Is("pair", t) /\ {t[2], t[3]} \subseteq parts
                        THEN Pair(below[t[2]], below[t[3]]) ELSE below[t]]
    IN  Rebuilt[MaxDepth][v]

\* via_expand_template, one formal after the other: what has taken the place of
\* one is searched for the next.  The last formal stands for all the operands
\* left, but for a single one, when there is one, itself.
Expanded(formals, operands, body) ==
    LET count == Length(formals)
        After[n \in 0 .. MaxLength] ==
          IF n = 0 THEN body
          ELSE LET rest == Tails(operands)[n - 1]
                   given == After[n - 1]
               IN  IF ~Is("pair", rest) THEN given
                   ELSE Replaced(Element(formals, n), Share(rest, n = count),
                                 given)
    IN  After[count]

\* via_f_syntax_transform, which leaves vm->ret as it was.
SyntaxTransform ==
    /\ InForm("syntax-transform-proc")
    /\ IsListFrom(3, Ops)
    /\ envs' = EnvsWith(Ops[2], Form(Ops[3][2], Ops[3][3][2],
                                     "transform-template-proc"))
    /\ With(Reg)
    /\ UNCHANGED <<acc, ret, stack>>

SyntaxTransformOperands ==
    /\ InForm("syntax-transform-proc")
    /\ Ops = Nil
    /\ Throw("exc-syntax-error")

\* The form whose operands they are.
Named == Reg.ctxt[2]

\* The expansion is the expression when what is at address is executed.
TransformTemplateAt(address) ==
    LET expansion == Expanded(Named[2], Ops, Named[3])
    IN  /\ InForm("transform-template-proc")
        /\ Is("form", Named)
        /\ IsList(Named[2])
        /\ ret' = expansion
        /\ Jump([Reg EXCEPT !.expr = expansion], address)
        /\ UNCHANGED <<acc, envs, stack>>

\* Mutant: the expansion is evaluated where the expression would be.
TransformTemplateOnce == TransformTemplateAt(Address["eval-proc"])

\* via_transform_template.
TransformTemplate == TransformTemplateAt(Address["eval-transform-proc"])

\* via_f_syntax_expand: the operands are those of the form named.
SyntaxExpand ==
    /\ InForm("syntax-expand-proc")
    /\ Is("pair", Ops)
    /\ LET e == Binder(Ops[2][2], Reg.env)
           form == BoundIn(envs, Ops[2][2], e)
       IN  /\ e # 0
           /\ Is("form", form)
           /\ IsList(form[2])
           /\ ret' = Expanded(form[2], Ops[3], form[3])
           /\ With([Reg EXCEPT !.ctxt = Pair(form, Ops[3])])
    /\ UNCHANGED <<acc, envs, stack>>

-----------------------------------------------------------------------------
(* CALLB: the procedures.  Their arguments are Reg.args. *)

\* via_p_eval: in the parent of the environment via_apply has just made, which is
\* that of the procedure eval, the global one.
Eval ==
    /\ Callb("eval-native-proc")
    /\ Jump([Reg EXCEPT !.env = envs[@].up, !.expr = FirstArg,
                        !.args = RestArgs],
            Address["eval-proc"])
    /\ Quiet

\* via_p_throw, which takes its argument off the list first.
ThrowProc ==
    /\ Callb("throw-proc")
    /\ ThrowFrom([Reg EXCEPT !.args = RestArgs],
                 IF FirstArg = Nil \/ RestArgs # Nil
                 THEN Exception("exc-argument-error")
                 ELSE IF Is("exception", FirstArg) THEN FirstArg
                 ELSE Exception("exc-invalid-type"))
    /\ UNCHANGED <<ret, envs, stack>>

ExceptionProc ==
    /\ Callb("exception-proc")
    /\ IF Reg.args # Nil THEN Throw("exc-argument-error")
                         ELSE Answer(Reg.excn)

Context ==
    /\ Callb("context-proc")
    /\ IF Reg.args # Nil THEN Throw("exc-argument-error")
                         ELSE Answer(Reg.ctxt)

\* via_p_garbage_collect: the collection itself is ViaHeap's.
GarbageCollect ==
    /\ Callb("gc-proc")
    /\ IF Reg.args # Nil THEN Throw("exc-argument-error")
                         ELSE With(Reg) /\ Quiet

\* The procedures of ViaProcedures.
PureNames == {r[2] : r \in PureRoutines}

Pure ==
    /\ Op("callb")
    /\ Operand \in PureNames
    /\ IsList(Reg.args)
    /\ \E outcome \in Outcomes(Operand, Reg.args) :
          LET r == [Reg EXCEPT !.args = outcome.left]
          IN  IF outcome.thrown
              THEN ThrowFrom(r, outcome.value) /\ UNCHANGED ret
              ELSE With(r) /\ ret' = outcome.value /\ UNCHANGED acc
    /\ UNCHANGED <<envs, stack>>

DefaultHandler == Callb("default-except-proc") /\ Answer(Reg.excn)

-----------------------------------------------------------------------------
(* The host. *)

\* The host has the machine run expr, with these frames.
Host(expr, fs) ==
    /\ ~running
    /\ runs < MaxRuns
    /\ Len(frames) < MaxFrames
    /\ runs' = runs + 1
    /\ program' = expr
    /\ running' = TRUE
    /\ frames' = fs
    /\ UNCHANGED <<acc, ret, regs, envs, stack>>

\* via_run_eval, up to its call of via_run: expr is evaluated under a handler
\* that returns the exception.
RunEval(expr) ==
    Host(expr, [Guarded(expr, Builtin("default-except-proc"))
                    EXCEPT ![regs].parn = 0])

Opcodes ==
    \/ OpCar \/ OpCdr \/ OpLoad \/ OpLoadnil \/ OpLoadret \/ OpTypeTest
    \/ OpSetret \/ OpSet \/ OpPusharg \/ OpCall \/ OpJmp \/ OpCallacc
    \/ OpSkipz \/ OpPush \/ OpPop \/ OpSnap \/ OpReturn \/ OpReturnToHost

Builtins ==
    /\ Op("callb")
    /\ \/ LookupFound \/ LookupFailed \/ Apply \/ ExpandForm \/ AssumeFrame
       \/ EnvSet \/ Quote \/ Continuation \/ ContinuationOperands
       \/ Lambda \/ LambdaMalformed \/ Catch \/ CatchMalformed \/ Eval
       \/ SyntaxTransform \/ SyntaxTransformOperands \/ TransformTemplate
       \/ SyntaxExpand \/ ThrowProc \/ ExceptionProc \/ Context
       \/ GarbageCollect \/ Pure \/ DefaultHandler

Next == Opcodes \/ Builtins \/ \E expr \in Programs : RunEval(expr)

Spec == Init /\ [][Next]_vars

\* via_run is a loop: it goes on as long as an instruction can be executed.
FairSpec == Spec /\ WF_vars(Opcodes \/ Builtins)

-----------------------------------------------------------------------------
(* Properties. *)

\* Every register of every frame holds what it is for.
TypeOK ==
    /\ regs \in DOMAIN frames
    /\ \A f \in DOMAIN frames :
          /\ frames[f].pc \in DOMAIN Code
          /\ frames[f].env \in DOMAIN envs
          /\ frames[f].exh \in 0 .. Len(frames)
          /\ frames[f].parn \in 0 .. f - 1
    /\ \A e \in DOMAIN envs : envs[e].up \in 0 .. e - 1
    /\ running \in BOOLEAN
    /\ runs \in 0 .. MaxRuns

\* A run that throws nothing pops everything it pushes.
StackBalanced ==
    ~running /\ (\A f \in DOMAIN frames : frames[f].excn = Nil)
        => stack = <<>>

\* Every run comes to an end: no instruction meets a value it cannot handle, no
\* pop an empty stack, no throw a frame without a handler.
RunsEnd == running ~> ~running

=============================================================================
