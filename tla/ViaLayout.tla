------------------------------ MODULE ViaLayout ------------------------------
(***************************************************************************)
(* What holds of the routines in memory, instruction by instruction, and of *)
(* the values the machine starts with: which instruction may follow which,  *)
(* and what is in the accumulator, in the expr register and on the data     *)
(* stack when it does.  Code, Address and Global are definitions, so that   *)
(* TLC's evaluation of an assumption about them is all there is to show;    *)
(* of Programs, TermsAssumption says that they are expressions.             *)
(***************************************************************************)
EXTENDS ViaMachine

Addresses == DOMAIN Code

Opcode(a) == Code[a][1]

\* The instruction at a, and its operand, are these.
Does(a, opcode, operand) == Opcode(a) = opcode /\ Code[a][2] = operand

Entry == Address["eval-proc"]
Transform == Address["eval-transform-proc"]
EvalNative == Address["eval-native-proc"]
Default == Address["default-except-proc"]
ArgDone == Address["@arg-eval-done"]

\* Where a SNAP leaves the frame that waits.
Waits == {Code[a][2] : a \in {b \in Addresses : Opcode(b) = "snap"}}

-----------------------------------------------------------------------------
(* Sets of instructions. *)

\* eval-proc has just loaded the expr register, and has looked at its type.
Loaded == {Entry + 1, Entry + 6, Entry + 11, Entry + 14}
Tested == {Entry + 2, Entry + 7, Entry + 12}

\* A routine has pushed an entry that it or the builtin it calls will pop.
Pushed ==
    LET compound == Address["eval-compound-proc"]
    IN  (compound + 3 .. compound + 5) \cup {Address["@skip-special-form-check"]}
        \cup (ArgDone - 4 .. ArgDone - 2)
        \cup {Address["if-proc"] - 1, Address["env-set-proc"]}

\* A frame does not stop here.
Halfway == Loaded \cup Tested \cup Pushed

\* The expr register holds an expression: not a builtin to be executed.
ExprPlain ==
    {Entry + 3, Entry + 4, Entry + 8, Entry + 9}
    \cup (Entry + 15 .. Entry + 22)
    \cup (Address["eval-compound-proc"] .. Address["begin-proc"] - 1)
    \cup (Address["begin-proc"] + 2 .. Address["set-proc"] - 1)

\* Instructions that replace the accumulator, and those that look at its type.
Loads == {"load", "loadnil", "loadret", "car", "cdr", "pop", "pairp", "symbolp",
          "formp", "framep", "builtinp"}

\* The accumulator may hold a builtin: nobody reads it, or only its type.
AccAny ==
    {a \in Addresses :
        Opcode(a) \in (Loads \ {"car", "cdr"}) \cup {"callacc", "callb", "return"}}
    \cup {Transform, Transform + 1}

\* What a frame of the default handler executes.
HandlerPath ==
    {Entry + i : i \in {0, 1, 2, 5, 6, 7, 10, 11, 12, 13, 14}}
    \cup {Default, Default + 1}

\* Where an instruction leads in the same frame, but for CALLACC and CALLB.
Targets(a) ==
    {b \in {a + 1} : Opcode(a) \notin {"call", "jmp", "return", "callacc"}}
    \cup {Code[b][2] : b \in {c \in {a} : Opcode(c) \in {"call", "jmp", "skipz"}}}

-----------------------------------------------------------------------------
(* The routines. *)

ASSUME AddressAssumption ==
    /\ Addresses \subseteq Nat
    /\ 0 \in Addresses /\ Opcode(0) = "return"
    /\ \A a \in Addresses :
          /\ Opcode(a) = "set" => Code[a][2] \in {"ctxt", "expr", "proc", "args"}
          /\ Opcode(a) = "load" => Code[a][2] \in {"ctxt", "expr"}
          /\ Opcode(a) = "callacc" => a = Entry + 14
          /\ Opcode(a) \in {"set", "setret", "push", "pusharg", "car", "cdr"} =>
                a \notin AccAny
          /\ Opcode(a) \in {"callb", "return"} =>
                a \notin (Waits \cup Loaded \cup Tested)
          /\ Opcode(a) \in {"return", "callacc"} => a \notin Pushed
          /\ Opcode(a) = "callb" =>
                /\ Opcode(a + 1) = "return"
                /\ a \in Pushed <=> Code[a][2] = "env-set-proc"
                /\ a = EvalNative <=> Code[a][2] = "eval-native-proc"

\* The expr register, the accumulator and the data stack, from one instruction to
\* those it leads to.
ASSUME FlowAssumption ==
    \A a \in Addresses : \A b \in Targets(a) :
        /\ b \in Addresses \ {a, ArgDone, EvalNative}
        /\ b \in ExprPlain =>
              a \in ExprPlain \cup Tested \/ Does(a, "set", "expr")
        /\ b \notin AccAny =>
              \/ a \notin AccAny /\ Opcode(a) \notin Loads
              \/ Opcode(a) \in Loads
                 /\ (Does(a, "load", "expr") => a \in ExprPlain)
        /\ b \in Loaded => b = a + 1 /\ Does(a, "load", "expr")
        /\ b \in Tested => b = a + 1 /\ a \in Loaded
        /\ b \in Pushed <=>
              \/ Opcode(a) = "push"
              \/ a \in Pushed /\ Opcode(a) \notin {"pop", "snap", "callb"}

ASSUME StackAssumption ==
    \A a \in Addresses :
        /\ Opcode(a) = "push" => a \notin Pushed
        /\ Opcode(a) = "pop" => (a \in Pushed <=> a # ArgDone)
        /\ Opcode(a) = "snap" => (a \in Pushed <=> Code[a][2] = ArgDone)

ASSUME WaitAssumption ==
    /\ ArgDone \in Waits /\ Opcode(ArgDone) = "pop"
    /\ \A a \in Addresses : Opcode(a) = "snap" =>
          /\ Code[a][2] \in Addresses \ (Halfway \cup {a, EvalNative})
          /\ Opcode(Code[a][2]) \notin {"return", "callb"}
          /\ Code[a][2] \in ExprPlain => a \in ExprPlain

\* The tests at the start of eval-proc.
ASSUME EvalAssumption ==
    /\ Opcode(Entry + 1) = "framep"
    /\ Opcode(Entry + 6) = "pairp"
    /\ Opcode(Entry + 11) = "builtinp"
    /\ Opcode(Entry + 14) = "callacc"
    /\ Does(Entry + 2, "skipz", Entry + 5)
    /\ Does(Entry + 7, "skipz", Entry + 10)
    /\ Does(Entry + 12, "skipz", Entry + 15)
    /\ {Entry + 5, Entry + 10, Entry + 13} \cap ExprPlain = {}

\* Where builtins continue, and the routines of builtins.
ASSUME RoutineAssumption ==
    /\ {Entry, Transform} \subseteq
          (Addresses \cap AccAny) \ (Waits \cup Halfway \cup ExprPlain)
    /\ Opcode(Entry) = "load"
    /\ Opcode(Transform) = "snap"
    /\ Opcode(EvalNative) = "callb"

RoutineNames ==
    {r[2] : r \in FormRoutines \cup SyntaxRoutines \cup ProcedureRoutines}
    \cup {"transform-template-proc", "default-except-proc"}

FormNames ==
    {r[2] : r \in FormRoutines \cup SyntaxRoutines}
    \cup {"transform-template-proc"}

ProcedureNames == {r[2] : r \in ProcedureRoutines}

ASSUME BuiltinAssumption ==
    /\ \A r \in RoutineNames :
          /\ Address[r] \in (Addresses \cap AccAny)
                               \ (Waits \cup Halfway \cup ExprPlain \cup {Entry + 14})
          /\ Address[r] = EvalNative => r = "eval-native-proc"
    /\ "eval-native-proc" \notin FormNames
    /\ FormNames \cup ProcedureNames \cup {"default-except-proc"} \subseteq RoutineNames

ASSUME HandlerAssumption ==
    /\ \A a \in HandlerPath :
          /\ a \in Addresses
          /\ Opcode(a) \in {"load", "framep", "pairp", "builtinp", "skipz",
                            "callacc", "callb", "return"}
          /\ Opcode(a) = "callb" => Does(a, "callb", "default-except-proc")
          /\ Opcode(a) \in {"load", "framep", "pairp", "builtinp", "callb"} =>
                a + 1 \in HandlerPath
          /\ Opcode(a) = "skipz" => a \in Tested
    /\ {Entry + 5, Entry + 10, Entry + 13} \subseteq HandlerPath

-----------------------------------------------------------------------------
(* The values. *)

\* A set of values without the parts of which none can be taken: no builtins but
\* as the bodies of procedures, the routines of forms are those of forms, and
\* procedures belong to one of n environments.
WellFormed(V, n) ==
    \A v \in V :
        /\ ~Is("builtin", v)
        /\ Is("pair", v) => v[2] \in V /\ v[3] \in V
        /\ Is("proc", v) =>
              /\ v[2] \in V \cup {Builtin(r) : r \in ProcedureNames}
              /\ v[4] \in 1 .. n
        /\ Is("form", v) => v[3] \in V /\ v[4] \in FormNames

\* What programs and the bundled library are made of.
Terms ==
    LET globals == {Global[s] : s \in DOMAIN Global}
        bodies == {v[2] : v \in {g \in globals :
                                    Is("proc", g) /\ ~Is("builtin", g[2])}}
        templates == {v[3] : v \in {g \in globals : Is("form", g)}}
        roots == Programs \cup globals \cup bodies \cup templates
    IN  roots \cup UNION {Parts(v) : v \in roots}

ASSUME TermsAssumption ==
    /\ WellFormed(Terms, 1)
    /\ Programs \subseteq Terms
    /\ \A s \in DOMAIN Global : Global[s] \in Terms

=============================================================================
