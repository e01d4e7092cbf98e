------------------------------ MODULE ViaControl ------------------------------
(***************************************************************************)
(* ViaMachine implements CallFrames: the routines of builtin.viaas take no  *)
(* step from frame to frame that CallFrames does not know, so that what is  *)
(* proved there of any program holds of the ones that run here.             *)
(*                                                                          *)
(* What a frame is doing is told by its program counter.  What CallFrames   *)
(* remembers and the machine does not is noted in variables of their own,   *)
(* which no step looks at.  An exception is its type here, so that only     *)
(* continuations hold frames.                                               *)
(***************************************************************************)
EXTENDS ViaLayout

VARIABLES
    owners,     \* who has pushed the entries that are popped at @arg-eval-done
    default,    \* frames made to run via_default_exception_handler
    held,       \* frames kept by continuations
    entered,    \* handler frames a throw has entered
    thrown,     \* some frame has thrown
    resumed     \* some held frame has been assumed

notes == <<owners, default, held, entered, thrown, resumed>>

ControlInit ==
    /\ Init
    /\ owners = <<>>
    /\ default = {}
    /\ held = {}
    /\ entered = {}
    /\ thrown = FALSE
    /\ resumed = FALSE

-----------------------------------------------------------------------------

fresh == Len(frames) + 1

\* PUSH is noted when the frame that has pushed waits.
NoteOwners ==
    owners' = IF Op("snap") /\ Operand = ArgDone THEN Append(owners, regs)
              ELSE IF Op("pop") /\ Reg.pc = ArgDone
              THEN SubSeq(owners, 1, Len(owners) - 1)
              ELSE owners

\* A builtin after which another frame is current has thrown, but for the one
\* that assumes a frame.
Throws == Op("callb") /\ Operand # "assume-proc" /\ regs' # regs

Note ==
    /\ NoteOwners
    /\ default' = IF running THEN default ELSE (default \ {regs}) \cup {fresh}
    /\ held' = held \cup
                  {f \in DOMAIN frames' \ DOMAIN frames : Callb("continuation-proc")}
    /\ entered' = entered \cup {f \in {regs'} : Throws}
    /\ thrown' = (thrown \/ Throws)
    /\ resumed' = (resumed \/ Callb("assume-proc"))

ControlNext == Next /\ Note

\* As in ViaMachine, an instruction that can be executed is.
ControlSpec ==
    /\ ControlInit
    /\ [][ControlNext]_<<vars, notes>>
    /\ WF_vars(Opcodes \/ Builtins)

-----------------------------------------------------------------------------
(* Properties. *)

\* What a frame's program counter says it is doing.
Doing(f) ==
    LET at == frames[f].pc
    IN  IF f > Len(frames) THEN "free"
        ELSE IF f = regs /\ ~running THEN "done"
        ELSE IF at = ArgDone THEN "arg"
        ELSE IF f = regs THEN "live"
        ELSE IF at \in Waits THEN "sub"
        ELSE IF Code[at][1] = "return" THEN "done"
        ELSE "live"

\* What CallFrames keeps of each frame, made or not.
Parents ==
    [f \in 1 .. MaxFrames |-> IF f > Len(frames) THEN 0 ELSE frames[f].parn]
Handlers ==
    [f \in 1 .. MaxFrames |-> IF f > Len(frames) THEN 0 ELSE frames[f].exh]
Stands == [f \in 1 .. MaxFrames |-> Doing(f)]

Skeleton == INSTANCE CallFrames WITH
    made <- Len(frames), parn <- Parents, exh <- Handlers, pc <- Stands,
    stack <- owners

\* Each instruction of the routines and each builtin is a step of CallFrames or
\* none: frames are made, waited in, returned to, thrown to and assumed as it says,
\* although the code keeps no more of that than program counters and registers.
FollowsCallFrames == Skeleton!Spec

\* What is on the data stack is what waiting and abandoned frames have saved there:
\* whenever control changes hands no routine has left anything else behind.
StackIsOwned ==
    /\ Len(stack) \in {Len(owners), Len(owners) + 1}
    /\ running /\ Reg.pc \in Waits => Len(stack) = Len(owners)

=============================================================================
