----------------------------- MODULE CallFrames -----------------------------
(***************************************************************************)
(* The control skeleton of the Via virtual machine: which frame is current, *)
(* where each frame returns to, which frame handles its exceptions, and     *)
(* what the frames waiting for an argument have left on the data stack.     *)
(*                                                                          *)
(* A frame (via_make_frame, src/vm.c) is an array of registers.  Kept here: *)
(*   parn[f]  VIA_REG_PARN, the frame a RETURN in f goes to (0 is NULL);    *)
(*   exh[f]   VIA_REG_EXH, the frame a throw in f goes to (0 is NULL);      *)
(*   pc[f]    where f's own program counter stands:                         *)
(*              "free"  f has not been made yet,                            *)
(*              "live"  f is executing, or was left in the middle of a      *)
(*                      routine (by a throw, by assuming a frame, or as a   *)
(*                      handler or a continuation nobody entered yet),      *)
(*              "arg"   f waits at @arg-eval-done: it owes a POP,           *)
(*              "sub"   f waits at the end of any other SNAP,               *)
(*              "done"  f has executed its RETURN.                          *)
(* Frames are numbered in the order they are made.  The data stack is       *)
(* shared by all frames (they all hold the one SPTR integer), and an entry  *)
(* is represented by the frame that pushed it.  The programs that run are   *)
(* left open: any live frame may take any of the steps the routines of      *)
(* src/builtin.viaas and the builtins take between two changes of frame.    *)
(* A frame entered again after its RETURN is "live": its program counter    *)
(* stands at that RETURN, or one past it, in the routine that follows.      *)
(***************************************************************************)
EXTENDS Integers, Sequences, FiniteSets

CONSTANT MaxFrames          \* bound: how many frames are ever made

ASSUME MaxFramesAssumption == MaxFrames \in Nat \ {0}

Frames == 1 .. MaxFrames

VARIABLES
    made,       \* how many frames have been made: they are 1 .. made
    parn, exh, pc,
    regs,       \* the current frame (vm->regs)
    stack,      \* the data stack, bottom first: who pushed each entry
    running,    \* via_run is executing
    default,    \* frames made to run via_default_exception_handler
    held,       \* frames the program holds as values: it may evaluate them
    entered,    \* history: handler frames a throw has entered
    thrown,     \* history: some frame has thrown
    resumed     \* history: some held frame has been assumed

vars == <<made, parn, exh, pc, regs, stack, running, default, held,
          entered, thrown, resumed>>

Init ==
    /\ made = 1
    /\ parn = [f \in Frames |-> 0]
    /\ exh = [f \in Frames |-> 0]
    /\ pc = [f \in Frames |-> IF f = 1 THEN "done" ELSE "free"]
    /\ regs = 1
    /\ stack = <<>>
    /\ running = FALSE
    /\ default = {}
    /\ held = {}
    /\ entered = {}
    /\ thrown = FALSE
    /\ resumed = FALSE

-----------------------------------------------------------------------------
(* Helpers. *)

\* The frame made next.
fresh == made + 1

\* The current frame may take a step of its own choosing.  A frame of the
\* default handler runs one builtin and returns: it takes no other step.
Executing ==
    /\ running
    /\ pc[regs] = "live"
    /\ regs \notin default

\* pcs after frame f becomes the current one: a frame that owes a POP goes on
\* at @arg-eval-done, any other goes on executing.
Entering(pcs, f) ==
    [pcs EXCEPT ![f] = IF pcs[f] = "arg" THEN "arg" ELSE "live"]

\* via_make_frame: one more frame, with parent p, handler h and its program
\* counter in the middle of a routine; pcs are the other frames' counters.
MakeFrame(p, h, pcs) ==
    /\ made < MaxFrames
    /\ made' = fresh
    /\ parn' = [parn EXCEPT ![fresh] = p]
    /\ exh' = [exh EXCEPT ![fresh] = h]
    /\ pc' = [pcs EXCEPT ![fresh] = "live"]

-----------------------------------------------------------------------------
(* Steps of the host program. *)

\* via_run_eval: wrap the expression in a catch whose handler is the default
\* one, cut the current frame off its parent p, and run.
RunEvalUnder(p) ==
    /\ ~running
    /\ made < MaxFrames
    /\ made' = fresh
    /\ parn' = [parn EXCEPT ![fresh] = p, ![regs] = 0]
    /\ exh' = [exh EXCEPT ![fresh] = exh[regs], ![regs] = fresh]
    /\ pc' = [pc EXCEPT ![fresh] = "live", ![regs] = "live"]
    /\ default' = (default \ {regs}) \cup {fresh}
    /\ running' = TRUE
    /\ UNCHANGED <<regs, stack, held, entered, thrown, resumed>>

\* Mutant: the default handler is made below the frame that runs.
RunEvalBelow == RunEvalUnder(regs)

RunEval == RunEvalUnder(parn[regs])

-----------------------------------------------------------------------------
(* Steps of the running program. *)

\* SNAP: a new frame takes over while the current one waits, at w.
Snap(w) ==
    /\ Executing
    /\ MakeFrame(regs, exh[regs], [pc EXCEPT ![regs] = w])
    /\ regs' = fresh
    /\ UNCHANGED <<running, default, held, entered, thrown, resumed>>

\* Mutant: the argument loop snaps without saving !expr first.
SnapArgUnsaved == Snap("arg") /\ UNCHANGED stack

\* The argument loop of eval-compound-proc: push !expr, then SNAP.
SnapArg == Snap("arg") /\ stack' = Append(stack, regs)

\* Mutant: the waiting frame is left where it is, not moved to behind the call.
SnapSubStaying == Snap("live") /\ UNCHANGED stack

\* Every other SNAP: the operator position, a form's operand, a lookup.
SnapSub == Snap("sub") /\ UNCHANGED stack

\* @arg-eval-done: the frame goes on with the argument loop.
Continue ==
    /\ running
    /\ pc[regs] = "arg"
    /\ stack # <<>>
    /\ pc' = [pc EXCEPT ![regs] = "live"]
    /\ UNCHANGED <<made, parn, exh, regs, running, default, held, entered,
                   thrown, resumed>>

\* Mutant: the saved !expr is read but left on the stack.
ArgDonePeeking == Continue /\ UNCHANGED stack

\* @arg-eval-done: POP the saved !expr.
ArgDone == Continue /\ stack' = SubSeq(stack, 1, Len(stack) - 1)

\* RETURN: the parent is the current frame again.
GoToParent ==
    /\ running
    /\ pc[regs] = "live"
    /\ regs' = parn[regs]
    /\ pc' = Entering([pc EXCEPT ![regs] = "done"], parn[regs])
    /\ UNCHANGED <<made, parn, exh, stack, running, default, held, entered,
                   thrown, resumed>>

\* RETURN to the parent frame, if there is one.
Return == parn[regs] # 0 /\ GoToParent

\* RETURN in a frame without a parent: via_run gives the result to the host.
Finish ==
    /\ running
    /\ pc[regs] = "live"
    /\ parn[regs] = 0
    /\ running' = FALSE
    /\ pc' = [pc EXCEPT ![regs] = "done"]
    /\ UNCHANGED <<made, parn, exh, regs, stack, default, held, entered,
                   thrown, resumed>>

\* via_catch: the handler frame shares the current frame's parent, has
\* handler h itself, and becomes the current frame's handler.
CatchUnder(h) ==
    /\ Executing
    /\ made < MaxFrames
    /\ made' = fresh
    /\ parn' = [parn EXCEPT ![fresh] = parn[regs]]
    /\ exh' = [exh EXCEPT ![fresh] = h, ![regs] = fresh]
    /\ pc' = [pc EXCEPT ![fresh] = "live"]
    /\ UNCHANGED <<regs, stack, running, default, held, entered, thrown,
                   resumed>>

\* Mutant: the new handler forgets the handler it is nested in.
CatchWithoutOuter == CatchUnder(0)

\* Mutant: the handler register is set before the handler frame copies it.
CatchSelfHandled == CatchUnder(fresh)

Catch == CatchUnder(exh[regs])

\* via_throw: assume the handler frame, whatever the data stack holds.
Throw ==
    /\ Executing
    /\ exh[regs] # 0
    /\ regs' = exh[regs]
    /\ pc' = Entering(pc, exh[regs])
    /\ entered' = entered \cup {exh[regs]}
    /\ thrown' = TRUE
    /\ UNCHANGED <<made, parn, exh, stack, running, default, held, resumed>>

\* via_make_exception: the exception value holds the frame it was made in.
HoldException ==
    /\ Executing
    /\ held' = held \cup {regs}
    /\ UNCHANGED <<made, parn, exh, pc, regs, stack, running, default,
                   entered, thrown, resumed>>

\* Mutant: the new frame is current before its parent register is set.
HoldContinuationSwitched ==
    /\ Executing
    /\ MakeFrame(fresh, exh[regs], pc)
    /\ held' = held \cup {fresh}
    /\ UNCHANGED <<regs, stack, running, default, entered, thrown, resumed>>

\* via_f_continuation: a new frame, made like any other, is the value.
HoldContinuation ==
    /\ Executing
    /\ MakeFrame(regs, exh[regs], pc)
    /\ held' = held \cup {fresh}
    /\ UNCHANGED <<regs, stack, running, default, entered, thrown, resumed>>

\* eval-proc on a frame: the current frame is replaced by a held one.
Assume(f) ==
    /\ Executing
    /\ regs' = f
    /\ pc' = Entering(pc, f)
    /\ resumed' = TRUE
    /\ UNCHANGED <<made, parn, exh, stack, running, default, held, entered,
                   thrown>>

Next ==
    \/ RunEval
    \/ SnapArg
    \/ SnapSub
    \/ ArgDone
    \/ Return
    \/ Finish
    \/ Catch
    \/ Throw
    \/ HoldException
    \/ HoldContinuation
    \/ \E f \in held : Assume(f)

Spec == Init /\ [][Next]_vars

-----------------------------------------------------------------------------
(* Properties. *)

FrameRefs == 0 .. MaxFrames

\* The frames made so far.
Made == 1 .. made

Counters == {"free", "live", "arg", "sub", "done"}

\* Every register holds what it is declared to hold, and the current frame
\* has been made.
TypeOK ==
    /\ made \in Frames
    /\ parn \in [Frames -> FrameRefs]
    /\ exh \in [Frames -> FrameRefs]
    /\ pc \in [Frames -> Counters]
    /\ regs \in Made
    /\ stack \in Seq(Frames)
    /\ running \in BOOLEAN
    /\ default \subseteq Made
    /\ held \subseteq Made
    /\ entered \subseteq Made
    /\ thrown \in BOOLEAN
    /\ resumed \in BOOLEAN

\* The frames that will POP once they are the current frame again.
Owing == {f \in Frames : pc[f] = "arg"}

\* Whatever is thrown and whichever frames are resumed, the data stack holds
\* exactly one entry for each frame that still owes a POP, abandoned frames
\* included: via_pop, which checks nothing, never runs below the stack.
StackAccounted == Len(stack) = Cardinality(Owing)

\* A program that has neither thrown nor resumed a frame pops in each frame
\* the very entry that frame pushed ("Save !expr on stack").
NestedPops ==
    ~thrown /\ ~resumed /\ pc[regs] = "arg"
        => stack # <<>> /\ stack[Len(stack)] = regs

\* What the comment in the argument loop says: the entry on top, when a frame
\* gets back to @arg-eval-done, is the !expr it saved.  Of programs that may
\* throw, but resume no held frame: one that is entered out of order has another
\* frame's entry on top without any throw.
OwnEntryOnTop ==
    ~resumed /\ pc[regs] = "arg"
        => stack # <<>> /\ stack[Len(stack)] = regs

\* The assertion in via_assume_frame as via_throw meets it: wherever a
\* program started by via_run_eval can throw there is a handler to enter.
HandlerInstalled == Executing => exh[regs] # 0

\* A frame's parent was made before it: RETURN and via_backtrace follow a
\* finite path that ends in the host.
ParentOlder == \A f \in Frames : parn[f] < f

\* An exception nobody catches ends the run: the default handler returns to
\* the host and not into the program that threw.
UncaughtEndsRun == \A f \in default : parn[f] = 0

\* A handler handles one exception: while no held frame has been resumed, an
\* exception thrown inside a handler, or after it, goes further out.
HandlesOnce == ~resumed /\ running => exh[regs] \notin entered

\* RETURN leaves the program counter of the frame it goes to alone, and via_run
\* moves on by one instruction only if the counter reads as it did before: the
\* frame that is returned to must not stand at a RETURN of its own.  While no held
\* frame has been resumed it never does, whatever is thrown: a frame with a
\* parent returns to one that waits behind a SNAP.
ReturnsToWaiting ==
    ~resumed /\ running /\ parn[regs] # 0 => pc[parn[regs]] \in {"arg", "sub"}

\* The handlers a throw meets one after the other never repeat: the handler
\* registers, followed from any frame, reach NULL.
HandlerChain[n \in 0 .. MaxFrames] ==
    [f \in FrameRefs |-> IF n = 0 \/ f = 0 THEN f
                         ELSE HandlerChain[n - 1][exh[f]]]

HandlerChainsEnd == \A f \in Frames : HandlerChain[MaxFrames][f] = 0

=============================================================================
