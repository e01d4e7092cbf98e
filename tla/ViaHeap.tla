------------------------------- MODULE ViaHeap ------------------------------
(***************************************************************************)
(* The heap of the Via machine and its mark-and-sweep collector (src/vm.c): *)
(* slot allocation in via_make_value, the data stack in via_push and        *)
(* via_pop, and via_garbage_collect with via_mark and via_sweep.            *)
(*                                                                          *)
(* A value is named by the slot of vm->heap that holds it.  The machine's   *)
(* own pointers (acc, ret, regs and through it the registers, symbols) are  *)
(* the Roots.  Between two collections the program does anything a builtin  *)
(* can: it makes values, and sets any pointer it can reach to any value it  *)
(* can reach.  A collection is stop-the-world; its recursion is unrolled    *)
(* into one step per value marked, and one step per slot swept.             *)
(***************************************************************************)
EXTENDS ValueGraph, Sequences

CONSTANTS
    InitialCap,     \* DEFAULT_HEAPSIZE
    MaxCells,       \* bound: values in the heap at one time
    Roots,          \* names of the machine's own pointers
    InitialStack,   \* DEFAULT_STACKSIZE
    MaxDepth,       \* bound: entries on the data stack
    GenMod,         \* generations: 256, vm->generation is a uint8_t
    MaxCollections  \* bound: how often the collector runs

ASSUME HeapAssumption ==
    /\ InitialCap \in Nat \ {0}
    /\ MaxCells \in Nat \ {0}
    /\ InitialCap <= MaxCells
    /\ InitialStack \in Nat \ {0}
    /\ MaxDepth \in Nat
    /\ GenMod \in Nat \ {0}
    /\ MaxCollections \in Nat

Slots == 0 .. MaxCells - 1

VARIABLES
    used,           \* the slots of vm->heap that are not NULL
    gen, car, cdr,  \* of each value: generation, and its pointers
    cap, top, free, \* heap_cap, heap_top, heap_free
    root, stack,    \* the machine's pointers, and the data stack up to SPTR
    stackSize,      \* vm->stack_size
    isNull,         \* the slots of the vm->stack array that are NULL
    popped,         \* the last thing that happened to the data stack was a POP
    generation,     \* vm->generation
    phase, gray, at,\* the collector: what it is doing, what it has still to
                    \* mark, the slot it sweeps next
    collections     \* how often it has run

heapVars == <<used, gen, car, cdr, cap, top, free>>
stackVars == <<stack, stackSize, isNull, popped>>
gcVars == <<generation, phase, gray, at, collections>>
vars == <<heapVars, root, stackVars, gcVars>>

Init ==
    /\ used = {}
    /\ gen = [s \in Slots |-> 0]
    /\ car = [s \in Slots |-> Null]
    /\ cdr = [s \in Slots |-> Null]
    /\ cap = InitialCap
    /\ top = 0
    /\ free = 0
    /\ root = [r \in Roots |-> Null]
    /\ stack = <<>>
    /\ stackSize = InitialStack
    /\ isNull = {i \in 0 .. MaxDepth : i < InitialStack}
    /\ popped = TRUE
    /\ generation = 0
    /\ phase = "idle"
    /\ gray = {}
    /\ at = 0
    /\ collections = 0

-----------------------------------------------------------------------------
(* What the program can get at. *)

Pointers == {root[r] : r \in Roots} \cup {stack[i] : i \in 1 .. Len(stack)}

Reachable == ReachableFrom(Pointers, Slots, car, cdr)

Values == Reachable \cup {Null}

-----------------------------------------------------------------------------
(* Making values. *)

\* The slot via_make_value settles on: the first from heap_free on that is
\* NULL, or the one above heap_top.
IsNextSlot(i) ==
    /\ i >= free
    /\ i > top \/ i \notin used
    /\ \A j \in free .. i - 1 : j <= top /\ j \in used

\* via_make_value, with the pointers its caller gives the value, which ends up
\* in one of the machine's own pointers.  The new value's generation is 0.
Make ==
    \E i \in Slots, r \in Roots, a, d \in Values :
        /\ phase = "idle"
        /\ IsNextSlot(i)
        /\ cap' = IF i = cap THEN cap * 2 ELSE cap
        /\ used' = used \cup {i}
        /\ gen' = [gen EXCEPT ![i] = 0]
        /\ car' = [car EXCEPT ![i] = a]
        /\ cdr' = [cdr EXCEPT ![i] = d]
        /\ top' = IF i > top THEN i ELSE top
        /\ free' = i + 1
        /\ root' = [root EXCEPT ![r] = i]
        /\ UNCHANGED <<stackVars, gcVars>>

-----------------------------------------------------------------------------
(* Using them. *)

\* A pointer of a reachable value is set: v_car, v_cdr, an array element.
Mutate ==
    \E s \in Reachable, v \in Values :
        /\ phase = "idle"
        /\ \/ car' = [car EXCEPT ![s] = v] /\ UNCHANGED cdr
           \/ cdr' = [cdr EXCEPT ![s] = v] /\ UNCHANGED car
        /\ UNCHANGED <<used, gen, cap, top, free, root, stackVars, gcVars>>

SetRoot ==
    \E r \in Roots, v \in Values :
        /\ phase = "idle"
        /\ root' = [root EXCEPT ![r] = v]
        /\ UNCHANGED <<heapVars, stackVars, gcVars>>

\* via_push.  The routines push no NULL that is still there when a collection
\* can run.  The array doubles when it is full, and nothing clears the new half.
Push ==
    \E v \in Reachable :
        /\ phase = "idle"
        /\ Len(stack) < MaxDepth
        /\ stack' = Append(stack, v)
        /\ stackSize' = IF Len(stack) = stackSize THEN stackSize * 2
                                                  ELSE stackSize
        /\ isNull' = isNull \ {Len(stack)}
        /\ popped' = FALSE
        /\ UNCHANGED <<heapVars, root, gcVars>>

PopTo(nulls) ==
    /\ phase = "idle"
    /\ stack # <<>>
    /\ stack' = SubSeq(stack, 1, Len(stack) - 1)
    /\ isNull' = nulls
    /\ popped' = TRUE
    /\ UNCHANGED <<heapVars, root, stackSize, gcVars>>

\* Mutant: the popped entry stays in the array.
PopStale == PopTo(isNull)

\* via_pop writes NULL where the entry was.
Pop == PopTo(isNull \cup {Len(stack) - 1})

-----------------------------------------------------------------------------
(* Collecting. *)

\* The collector runs as a builtin, and eval-compound-proc applies a builtin
\* right after a POP: of the head it looked up, or of its last argument.
BeginWith(g, pointers) ==
    /\ phase = "idle"
    /\ popped
    /\ collections < MaxCollections
    /\ collections' = collections + 1
    /\ generation' = g
    /\ gray' = pointers \ {Null}
    /\ phase' = "mark"
    /\ UNCHANGED <<heapVars, root, stackVars, at>>

\* Mutant: the data stack is not scanned.
BeginWithoutStack ==
    BeginWith((generation + 1) % GenMod, {root[r] : r \in Roots})

\* via_garbage_collect: a new generation, and the roots are next to be marked.
Begin == BeginWith((generation + 1) % GenMod, Pointers)

\* Mutant: a value that has the current generation is marked again.
MarkAgain ==
    \E s \in gray :
        /\ phase = "mark"
        /\ gen' = [gen EXCEPT ![s] = generation]
        /\ gray' = (gray \ {s}) \cup ({car[s], cdr[s]} \ {Null})
        /\ UNCHANGED <<used, car, cdr, cap, top, free, root, stackVars,
                       generation, phase, at, collections>>

\* via_mark on one value: nothing if it has the current generation, otherwise
\* it gets it and what it points at is marked.
Mark ==
    \E s \in gray :
        /\ phase = "mark"
        /\ gen' = [gen EXCEPT ![s] = generation]
        /\ gray' = (gray \ {s}) \cup
                       IF gen[s] = generation THEN {}
                       ELSE {car[s], cdr[s]} \ {Null}
        /\ UNCHANGED <<used, car, cdr, cap, top, free, root, stackVars,
                       generation, phase, at, collections>>

SweepFrom(first) ==
    /\ phase = "mark"
    /\ gray = {}
    /\ phase' = "sweep"
    /\ at' = first
    /\ UNCHANGED <<heapVars, root, stackVars, generation, gray, collections>>

\* Mutant: the first slot is left out.
MarkedFromOne == SweepFrom(1)

\* Nothing is left to mark: via_sweep starts at the first slot.
Marked == SweepFrom(0)

SweepTo(low) ==
    /\ phase = "sweep"
    /\ at < cap
    /\ at' = at + 1
    /\ IF at \in used /\ gen[at] # generation
       THEN /\ used' = used \ {at}
            /\ car' = [car EXCEPT ![at] = Null]
            /\ cdr' = [cdr EXCEPT ![at] = Null]
            /\ free' = IF at < free THEN low ELSE free
       ELSE UNCHANGED <<used, car, cdr, free>>
    /\ UNCHANGED <<gen, cap, top, root, stackVars, generation, phase, gray,
                   collections>>

\* Mutant: heap_free comes down one slot too far.
SweepTooLow == SweepTo(at - 1)

\* Mutant: heap_free stays where it is.
SweepKeepingFree == SweepTo(free)

\* via_sweep on one slot: a value of another generation is deleted, and
\* heap_free comes down to its slot.
Sweep == SweepTo(at)

Swept ==
    /\ phase = "sweep"
    /\ at = cap
    /\ phase' = "idle"
    /\ UNCHANGED <<heapVars, root, stackVars, generation, gray, at,
                   collections>>

Collecting == Mark \/ Marked \/ Sweep \/ Swept

Next == Make \/ Mutate \/ SetRoot \/ Push \/ Pop \/ Begin \/ Collecting

Spec == Init /\ [][Next]_vars

\* A collection that has begun runs to its end before anything else happens.
FairSpec == Spec /\ WF_vars(Collecting)

-----------------------------------------------------------------------------
(* Properties. *)

TypeOK ==
    /\ used \subseteq Slots
    /\ gen \in [Slots -> 0 .. GenMod - 1]
    /\ car \in [Slots -> Slots \cup {Null}]
    /\ cdr \in [Slots -> Slots \cup {Null}]
    /\ cap \in Nat \ {0}
    /\ top \in Slots
    /\ free \in 0 .. MaxCells
    /\ root \in [Roots -> Slots \cup {Null}]
    /\ stack \in Seq(Slots)
    /\ Len(stack) <= MaxDepth
    /\ stackSize \in Nat
    /\ isNull \subseteq 0 .. MaxDepth
    /\ popped \in BOOLEAN
    /\ generation \in 0 .. GenMod - 1
    /\ phase \in {"idle", "mark", "sweep"}
    /\ gray \subseteq Slots
    /\ at \in Nat
    /\ collections \in 0 .. MaxCollections

\* A value the program can get at is never freed, in no phase of a collection.
NothingLost == Reachable \subseteq used

\* via_make_value takes only slots that are NULL and inside the array: every
\* slot above heap_top is NULL, every slot below heap_free is taken, so none
\* is missed and none is overwritten.
SlotsAccounted ==
    /\ \A s \in used : s <= top /\ s < cap
    /\ \A s \in 0 .. free - 1 : s \in used
    /\ free <= top + 1

\* Marking scans the data stack until it meets a NULL, and finds one right above
\* the top entry, even in the half of a doubled array that nothing cleared: it
\* marks the whole stack and never reads beyond it.
ScanStopsAtTop == phase = "mark" => Len(stack) \in isNull

\* The values that do not have the current generation.
Unmarked == {s \in Slots : gen[s] # generation}

MarkedMore ==
    \/ Unmarked' \subseteq Unmarked /\ Unmarked' # Unmarked
    \/ /\ Unmarked' = Unmarked
       /\ gray' \subseteq gray /\ gray' # gray

Advancing ==
    /\ phase = "mark" =>
          \/ phase' = "mark" /\ MarkedMore
          \/ phase' = "sweep" /\ at' <= cap'
    /\ phase = "sweep" =>
          \/ phase' = "sweep" /\ at < at' /\ at' <= cap /\ cap' = cap
          \/ phase' = "idle"

\* What is left of a collection gets less with every step: the values that are not
\* marked, then what is to be marked, then the slots to be swept.  No value is
\* marked twice, or via_mark would follow a cycle for ever, and nothing else
\* happens before the end.
CollectionAdvances == [][Advancing]_vars

\* A collection that has begun comes to an end, whatever cycles the values form.
CollectionEnds == phase = "mark" ~> phase = "idle"

\* The collector keeps its promise: the values unmarked when sweeping starts
\* are the ones gone from the user's view.
Doomed(s) == phase = "sweep" /\ gen[s] # generation

Promise == INSTANCE Collector WITH
    used <- {s \in used : ~Doomed(s)},
    car <- [s \in Slots |-> IF Doomed(s) THEN Null ELSE car[s]],
    cdr <- [s \in Slots |-> IF Doomed(s) THEN Null ELSE cdr[s]]

KeepsPromise == Promise!Spec

=============================================================================
