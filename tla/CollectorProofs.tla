--------------------------- MODULE CollectorProofs ---------------------------
(***************************************************************************)
(* ViaHeap implements Collector, for every size of heap and stack: a        *)
(* collection frees exactly what no pointer of the machine leads to.  That  *)
(* nothing reachable is freed is proved in ViaHeapProofs; what is added     *)
(* here is that nothing else is marked.                                     *)
(***************************************************************************)
EXTENDS ViaHeapProofs

\* The values as Collector sees them: the ones that are to be swept are gone.
LeftUsed == {s \in used : ~Doomed(s)}
LeftCar == [s \in Slots |-> IF Doomed(s) THEN Null ELSE car[s]]
LeftCdr == [s \in Slots |-> IF Doomed(s) THEN Null ELSE cdr[s]]

\* Only what is reachable is marked, and a free slot points at nothing.
MarkedReachable ==
    /\ phase = "mark" => gray \cup Black \subseteq Reachable
    /\ phase = "sweep" => Black \subseteq Reachable

FreeIsNull == \A s \in Slots \ used : car[s] = Null /\ cdr[s] = Null

Exact == MarkedReachable /\ FreeIsNull

HeapInv == TypeOK /\ SlotsAccounted /\ Tricolor /\ Exact

-----------------------------------------------------------------------------
(* Reachable values. *)

\* The machine's pointers are reachable, and what a reachable value points at.
LEMMA ReachableCloses ==
    ASSUME TypeOK
    PROVE  /\ Pointers \subseteq Reachable \cup {Null}
           /\ ClosedUnder(Reachable, car, cdr)
<1>1. Pointers \subseteq Slots \cup {Null}
  BY DEF Pointers, TypeOK
<1>2. Pointers \subseteq Reachable \cup {Null}
  BY <1>1 DEF Reachable, ReachableFrom
<1>3. ASSUME NEW n \in Reachable, NEW p \in {car[n], cdr[n]}, p # Null
      PROVE  p \in Reachable
  <2>1. n \in Slots /\ p \in Slots
    BY <1>3, ReachableSlots DEF TypeOK
  <2>2. ASSUME NEW S \in SUBSET Slots, Pointers \subseteq S \cup {Null},
               ClosedUnder(S, car, cdr)
        PROVE  p \in S
    <3>1. n \in S
      BY <2>2 DEF Reachable, ReachableFrom
    <3> QED
      BY <1>3, <2>2, <3>1 DEF ClosedUnder
  <2> QED
    BY <2>1, <2>2 DEF Reachable, ReachableFrom
<1>4. ClosedUnder(Reachable, car, cdr)
  BY <1>3 DEF ClosedUnder
<1> QED
  BY <1>2, <1>4

\* What is reachable does not depend on the values outside of a closed set that
\* holds the pointers.
LEMMA SameReachable ==
    ASSUME NEW B, B \subseteq Slots, HoldsPointers(B), ClosedUnder(B, car, cdr),
           NEW car2, NEW cdr2,
           \A s \in B : car2[s] = car[s] /\ cdr2[s] = cdr[s]
    PROVE  ReachableFrom(Pointers, Slots, car2, cdr2) = Reachable
<1>1. Pointers \subseteq B \cup {Null}
  BY DEF HoldsPointers, Pointers
<1>2. ASSUME NEW S \in SUBSET Slots, Pointers \subseteq S \cup {Null},
             ClosedUnder(S, car, cdr) \/ ClosedUnder(S, car2, cdr2)
      PROVE  /\ S \cap B \in SUBSET Slots
             /\ Pointers \subseteq (S \cap B) \cup {Null}
             /\ ClosedUnder(S \cap B, car, cdr)
             /\ ClosedUnder(S \cap B, car2, cdr2)
  BY <1>1, <1>2 DEF ClosedUnder
<1>3. ASSUME NEW n \in Reachable
      PROVE  n \in ReachableFrom(Pointers, Slots, car2, cdr2)
  <2>1. n \in Slots
    BY DEF Reachable, ReachableFrom
  <2>2. ASSUME NEW S \in SUBSET Slots, Pointers \subseteq S \cup {Null},
               ClosedUnder(S, car2, cdr2)
        PROVE  n \in S
    <3>1. n \in S \cap B
      BY <1>2, <2>2 DEF Reachable, ReachableFrom
    <3> QED
      BY <3>1
  <2> QED
    BY <2>1, <2>2 DEF ReachableFrom
<1>4. ASSUME NEW n \in ReachableFrom(Pointers, Slots, car2, cdr2)
      PROVE  n \in Reachable
  <2>1. n \in Slots
    BY DEF ReachableFrom
  <2>2. ASSUME NEW S \in SUBSET Slots, Pointers \subseteq S \cup {Null},
               ClosedUnder(S, car, cdr)
        PROVE  n \in S
    <3>1. n \in S \cap B
      BY <1>2, <2>2 DEF ReachableFrom
    <3> QED
      BY <3>1
  <2> QED
    BY <2>1, <2>2 DEF Reachable, ReachableFrom
<1> QED
  BY <1>3, <1>4

\* While a collection sweeps, the marked values are the reachable ones.
LEMMA BlackIsReachable ==
    ASSUME HeapInv, phase = "sweep"
    PROVE  /\ Black = Reachable
           /\ Black \subseteq Slots /\ HoldsPointers(Black)
           /\ ClosedUnder(Black, car, cdr)
<1>1. Black \subseteq Slots /\ HoldsPointers(Black) /\ ClosedUnder(Black, car, cdr)
  BY DEF HeapInv, Tricolor, SweepInv, Black, TypeOK
<1> QED
  BY <1>1, ReachableWithin DEF HeapInv, Exact, MarkedReachable

-----------------------------------------------------------------------------
(* The invariant. *)

LEMMA InitExact == Init => Exact
BY DEF Init, Exact, MarkedReachable, FreeIsNull, Slots

LEMMA FreeStep ==
    ASSUME HeapInv, [Next]_vars
    PROVE  FreeIsNull'
<1>1. FreeIsNull /\ TypeOK
  BY DEF HeapInv, Exact
<1>2. CASE Make
  BY <1>1, <1>2 DEF Make, FreeIsNull, TypeOK
<1>3. CASE Mutate
  <2>1. Reachable \subseteq used
    <3>1. phase = "idle"
      BY <1>3 DEF Mutate
    <3> QED
      BY <3>1, ValuesUsed DEF HeapInv, Tricolor
  <2> QED
    BY <1>1, <1>3, <2>1 DEF Mutate, FreeIsNull, TypeOK
<1>4. CASE Sweep
  BY <1>1, <1>4 DEF Sweep, SweepTo, FreeIsNull, TypeOK
<1>5. CASE SetRoot \/ Push \/ Pop \/ Begin \/ Mark \/ Marked \/ Swept
           \/ UNCHANGED vars
  BY <1>1, <1>5 DEF SetRoot, Push, Pop, PopTo, Begin, BeginWith, Mark, Marked,
                    SweepFrom, Swept, vars, heapVars, FreeIsNull
<1> QED
  BY <1>2, <1>3, <1>4, <1>5 DEF Next, Collecting

\* A step that leaves the pointers alone leaves alone what is reachable.
LEMMA ReachableStays ==
    ASSUME UNCHANGED <<root, stack, car, cdr>>
    PROVE  Reachable' = Reachable /\ Pointers' = Pointers
BY DEF Reachable, Pointers

LEMMA MarkedStep ==
    ASSUME HeapInv, [Next]_vars, MaxCollections < GenMod
    PROVE  MarkedReachable'
<1>1. TypeOK /\ Tricolor /\ MarkedReachable
  BY DEF HeapInv, Exact
<1>2. CASE Make \/ Mutate \/ SetRoot \/ Push \/ Pop \/ Swept
  <2>1. phase' = "idle"
    BY <1>2 DEF Make, Mutate, SetRoot, Push, Pop, PopTo, Swept, gcVars
  <2> QED
    BY <2>1 DEF MarkedReachable
<1>3. CASE Begin
  <2>1. /\ UNCHANGED <<used, gen, root, stack, car, cdr>>
        /\ gray' = Pointers \ {Null} /\ phase' = "mark"
    BY <1>3 DEF Begin, BeginWith, heapVars, stackVars
  <2>2. generation' = collections' /\ collections' = collections + 1
    <3>1. Tricolor'
      BY <1>1, <1>3, BeginStep
    <3> QED
      BY <1>3, <3>1 DEF Begin, BeginWith, Tricolor, GenerationInv
  <2>3. \A s \in used : gen[s] \in Nat /\ gen[s] <= collections
    BY <1>1, HeapAssumption DEF Tricolor, GenerationInv, TypeOK
  <2>4. Black' = {}
    <3>1. collections \in Nat
      BY <1>1, HeapAssumption DEF TypeOK
    <3> QED
      BY <2>1, <2>2, <2>3, <3>1 DEF Black
  <2>5. Reachable' = Reachable /\ Pointers \ {Null} \subseteq Reachable
    BY <1>1, <2>1, ReachableStays, ReachableCloses
  <2> QED
    BY <2>1, <2>4, <2>5 DEF MarkedReachable
<1>4. CASE Mark
  <2>1. PICK s \in gray :
            /\ gen' = [gen EXCEPT ![s] = generation]
            /\ gray' = (gray \ {s}) \cup
                           IF gen[s] = generation THEN {}
                           ELSE {car[s], cdr[s]} \ {Null}
    BY <1>4 DEF Mark
  <2>2. /\ phase = "mark" /\ phase' = phase
        /\ UNCHANGED <<used, car, cdr, root, stack, generation>>
    BY <1>4 DEF Mark, stackVars
  <2>3. gray \cup Black \subseteq Reachable /\ s \in Reachable
    BY <1>1, <2>2 DEF MarkedReachable
  <2>4. gray' \subseteq Reachable
    BY <1>1, <2>1, <2>3, ReachableCloses DEF ClosedUnder
  <2>5. Black' \subseteq Black \cup {s}
    BY <1>1, <2>1, <2>2 DEF Black, TypeOK
  <2>6. Reachable' = Reachable
    BY <2>2, ReachableStays
  <2> QED
    BY <2>2, <2>3, <2>4, <2>5, <2>6 DEF MarkedReachable
<1>5. CASE Marked
  <2>1. /\ phase = "mark" /\ phase' = "sweep"
        /\ UNCHANGED <<used, gen, car, cdr, root, stack, generation>>
    BY <1>5 DEF Marked, SweepFrom, heapVars, stackVars
  <2>2. Black' = Black /\ Reachable' = Reachable
    BY <2>1, ReachableStays DEF Black
  <2> QED
    BY <1>1, <2>1, <2>2 DEF MarkedReachable
<1>6. CASE Sweep
  <2>1. /\ phase = "sweep" /\ phase' = phase
        /\ UNCHANGED <<gen, root, stack, generation>>
    BY <1>6 DEF Sweep, SweepTo, stackVars
  <2>2. Black' = Black /\ \A s \in Black : car'[s] = car[s] /\ cdr'[s] = cdr[s]
    <3>1. CASE at \in used /\ gen[at] # generation
      BY <1>1, <1>6, <2>1, <3>1 DEF Sweep, SweepTo, Black, TypeOK
    <3>2. CASE ~(at \in used /\ gen[at] # generation)
      BY <1>6, <2>1, <3>2 DEF Sweep, SweepTo, Black
    <3> QED
      BY <3>1, <3>2
  <2>3. /\ Black = Reachable /\ Black \subseteq Slots /\ HoldsPointers(Black)
        /\ ClosedUnder(Black, car, cdr)
    BY <2>1, BlackIsReachable
  <2>4. ReachableFrom(Pointers, Slots, car', cdr') = Reachable
    BY <2>2, <2>3, SameReachable
  <2>5. Pointers' = Pointers
    BY <2>1 DEF Pointers
  <2>6. Reachable' = Reachable
    BY <2>4, <2>5 DEF Reachable
  <2> QED
    BY <2>1, <2>2, <2>3, <2>6 DEF MarkedReachable
<1>7. CASE UNCHANGED vars
  <2>1. UNCHANGED <<used, gen, car, cdr, root, stack, generation, phase, gray>>
    BY <1>7 DEF vars, heapVars, stackVars, gcVars
  <2>2. Black' = Black /\ Reachable' = Reachable
    BY <2>1, ReachableStays DEF Black
  <2> QED
    BY <1>1, <2>1, <2>2 DEF MarkedReachable
<1> QED
  BY <1>2, <1>3, <1>4, <1>5, <1>6, <1>7 DEF Next, Collecting

\* What is marked is reachable, for ever (via_mark follows pointers only).
LEMMA HeapInvariant ==
    ASSUME MaxCollections < GenMod
    PROVE  Spec => []HeapInv
<1>1. Init => Tricolor /\ Exact
  <2>1. Init => Tricolor
    BY DEF Init, Tricolor, GenerationInv, UsedInv, MarkInv, SweepInv,
           HoldsPointers, ClosedUnder
  <2> QED
    BY <2>1, InitExact
<1>2. TypeOK /\ SlotsAccounted /\ Tricolor /\ Exact /\ [Next]_vars
        => (Tricolor /\ Exact)'
  BY TricolorStep, FreeStep, MarkedStep DEF HeapInv, Exact
<1>3. TypeOK /\ SlotsAccounted /\ Tricolor /\ Exact => HeapInv
  BY DEF HeapInv
<1> QED
  BY <1>1, <1>2, <1>3, TypeCorrect, SlotsStayAccounted, PTL DEF Spec

-----------------------------------------------------------------------------
(* The refinement. *)

\* Between collections, and while one marks, Collector sees what there is.
LEMMA LeftIsAll ==
    /\ TypeOK /\ phase # "sweep" => LeftUsed = used /\ LeftCar = car /\ LeftCdr = cdr
    /\ TypeOK' /\ phase' # "sweep" =>
          LeftUsed' = used' /\ LeftCar' = car' /\ LeftCdr' = cdr'
BY DEF LeftUsed, LeftCar, LeftCdr, Doomed, TypeOK

\* Collector's graph of values is that of ViaHeap.
LEMMA SameGraph ==
    ASSUME LeftCar = car, LeftCdr = cdr
    PROVE  Promise!Reachable = Reachable /\ Promise!Values = Values
<1>1. Promise!Pointers = Pointers
  BY DEF Promise!Pointers, Pointers
<1>2. Promise!Reachable = Reachable
  BY <1>1 DEF Promise!Reachable, Promise!ReachableFrom, Promise!ClosedUnder,
              Promise!Null, Reachable, ReachableFrom, ClosedUnder, Null,
              LeftCar, LeftCdr
<1> QED
  BY <1>2 DEF Promise!Values, Promise!Null, Values, Null

\* A step of the program is the same step of Collector.
LEMMA UserImplements ==
    ASSUME HeapInv, TypeOK', Make \/ Mutate \/ SetRoot \/ Push \/ Pop
    PROVE  Promise!Next
<1>1. phase = "idle" /\ phase' = "idle"
  BY DEF Make, Mutate, SetRoot, Push, Pop, PopTo, gcVars
<1>2. /\ LeftUsed = used /\ LeftCar = car /\ LeftCdr = cdr
      /\ LeftUsed' = used' /\ LeftCar' = car' /\ LeftCdr' = cdr'
  BY <1>1, LeftIsAll DEF HeapInv
<1>3. Promise!Reachable = Reachable /\ Promise!Values = Values
  BY <1>2, SameGraph
<1>4. CASE Make
  <2>1. PICK i \in Slots, r \in Roots, a \in Values, d \in Values :
            /\ IsNextSlot(i)
            /\ used' = used \cup {i}
            /\ car' = [car EXCEPT ![i] = a] /\ cdr' = [cdr EXCEPT ![i] = d]
            /\ root' = [root EXCEPT ![r] = i] /\ stack' = stack
    BY <1>4 DEF Make, stackVars
  <2>2. i \notin used
    <3>1. i > top => i \notin used
      BY DEF HeapInv, SlotsAccounted, TypeOK, Slots
    <3> QED
      BY <2>1, <3>1 DEF IsNextSlot
  <2>3. Promise!Make
    BY <1>2, <1>3, <2>1, <2>2 DEF Promise!Make, LeftUsed, LeftCar, LeftCdr
  <2> QED
    BY <2>3 DEF Promise!Next
<1>5. CASE Mutate
  <2>1. used' = used /\ root' = root /\ stack' = stack
    BY <1>5 DEF Mutate, stackVars
  <2>2. Promise!Mutate
    BY <1>2, <1>3, <1>5, <2>1
       DEF Mutate, Promise!Mutate, LeftUsed, LeftCar, LeftCdr
  <2> QED
    BY <2>2 DEF Promise!Next
<1>6. CASE SetRoot
  <2>1. UNCHANGED <<used, car, cdr, stack>>
    BY <1>6 DEF SetRoot, heapVars, stackVars
  <2>2. Promise!SetRoot
    BY <1>2, <1>3, <1>6, <2>1
       DEF SetRoot, Promise!SetRoot, LeftUsed, LeftCar, LeftCdr
  <2> QED
    BY <2>2 DEF Promise!Next
<1>7. CASE Push
  <2>1. UNCHANGED <<used, car, cdr, root>>
    BY <1>7 DEF Push, heapVars
  <2>2. Promise!Push
    BY <1>2, <1>3, <1>7, <2>1
       DEF Push, Promise!Push, LeftUsed, LeftCar, LeftCdr
  <2> QED
    BY <2>2 DEF Promise!Next
<1>8. CASE Pop
  <2>1. UNCHANGED <<used, car, cdr, root>>
    BY <1>8 DEF Pop, PopTo, heapVars
  <2>2. Promise!Pop
    BY <1>2, <1>8, <2>1 DEF Pop, PopTo, Promise!Pop, LeftUsed, LeftCar, LeftCdr
  <2> QED
    BY <2>2 DEF Promise!Next
<1> QED
  BY <1>4, <1>5, <1>6, <1>7, <1>8

\* The step that ends marking is the collection: what is not marked is gone.
LEMMA MarkedImplements ==
    ASSUME HeapInv, HeapInv', Marked
    PROVE  Promise!Collect
<1>1. /\ phase = "mark" /\ phase' = "sweep"
      /\ UNCHANGED <<used, gen, car, cdr, root, stack, generation>>
  BY DEF Marked, SweepFrom, heapVars, stackVars
<1>2. LeftUsed = used /\ LeftCar = car /\ LeftCdr = cdr
  BY <1>1, LeftIsAll DEF HeapInv
<1>3. Promise!Reachable = Reachable
  BY <1>2, SameGraph
<1>4. Black = Reachable
  <2>1. gray = {}
    BY DEF Marked, SweepFrom
  <2>2. HoldsPointers(Black) /\ ClosedUnder(Black, car, cdr) /\ Black \subseteq Slots
    BY <1>1, <2>1 DEF HeapInv, Tricolor, MarkInv, HoldsPointers, ClosedUnder,
                      Black, TypeOK
  <2> QED
    BY <1>1, <2>2, ReachableWithin DEF HeapInv, Exact, MarkedReachable
<1>5. \A s \in Slots : Doomed(s)' <=> gen[s] # generation
  BY <1>1 DEF Doomed
<1>6. LeftUsed' = Reachable
  BY <1>1, <1>4, <1>5 DEF LeftUsed, Black, HeapInv, TypeOK
<1>7. \A s \in Slots : s \notin Reachable /\ gen[s] = generation =>
          car[s] = Null /\ cdr[s] = Null
  BY <1>4 DEF Black, HeapInv, Exact, FreeIsNull
<1>8. \A s \in Reachable : s \in Slots /\ gen[s] = generation
  BY <1>4 DEF Black, HeapInv, TypeOK
<1>9. /\ LeftCar' = [s \in Slots |-> IF s \in Reachable THEN car[s] ELSE Null]
      /\ LeftCdr' = [s \in Slots |-> IF s \in Reachable THEN cdr[s] ELSE Null]
  BY <1>1, <1>5, <1>7, <1>8 DEF LeftCar, LeftCdr
<1> QED
  BY <1>1, <1>2, <1>3, <1>6, <1>9 DEF Promise!Collect, Promise!Null, Null, LeftUsed, LeftCar, LeftCdr

\* The other steps of a collection are none of Collector's.
LEMMA OthersStutter ==
    ASSUME HeapInv, HeapInv', Begin \/ Mark \/ Sweep \/ Swept \/ UNCHANGED vars
    PROVE  UNCHANGED Promise!vars
<1>1. root' = root /\ stack' = stack
  BY DEF Begin, BeginWith, Mark, Sweep, SweepTo, Swept, vars, stackVars
<1>2. SUFFICES LeftUsed' = LeftUsed /\ LeftCar' = LeftCar /\ LeftCdr' = LeftCdr
  BY <1>1 DEF Promise!vars, LeftUsed, LeftCar, LeftCdr
<1>3. CASE Begin \/ Mark
  <2>1. /\ phase # "sweep" /\ phase' # "sweep"
        /\ UNCHANGED <<used, car, cdr>>
    BY <1>3 DEF Begin, BeginWith, Mark, heapVars
  <2> QED
    BY <2>1, LeftIsAll DEF HeapInv
<1>4. CASE Sweep
  <2>1. phase = "sweep" /\ phase' = phase /\ UNCHANGED <<gen, generation>>
    BY <1>4 DEF Sweep, SweepTo
  <2>2. \A s \in Slots : Doomed(s)' <=> Doomed(s)
    BY <2>1 DEF Doomed
  <2>3. CASE at \in used /\ gen[at] # generation
    <3>1. /\ used' = used \ {at} /\ Doomed(at) /\ at \in Slots
          /\ car' = [car EXCEPT ![at] = Null] /\ cdr' = [cdr EXCEPT ![at] = Null]
      BY <1>4, <2>1, <2>3 DEF Sweep, SweepTo, Doomed, HeapInv, TypeOK
    <3>2. used \subseteq Slots
      BY DEF HeapInv, TypeOK
    <3>3. \A s \in Slots : ~Doomed(s) => car'[s] = car[s] /\ cdr'[s] = cdr[s]
      BY <3>1 DEF HeapInv, TypeOK
    <3> QED
      BY <2>2, <3>1, <3>2, <3>3 DEF LeftUsed, LeftCar, LeftCdr
  <2>4. CASE ~(at \in used /\ gen[at] # generation)
    <3>1. UNCHANGED <<used, car, cdr>>
      BY <1>4, <2>4 DEF Sweep, SweepTo
    <3>2. used \subseteq Slots
      BY DEF HeapInv, TypeOK
    <3> QED
      BY <2>2, <3>1, <3>2 DEF LeftUsed, LeftCar, LeftCdr
  <2> QED
    BY <2>3, <2>4
<1>5. CASE Swept
  <2>1. /\ phase = "sweep" /\ phase' = "idle" /\ at = cap
        /\ UNCHANGED <<used, gen, car, cdr, generation>>
    BY <1>5 DEF Swept, heapVars
  <2>2. used = Black
    BY <2>1 DEF HeapInv, Tricolor, SweepInv, SlotsAccounted, Black
  <2>3. \A s \in used : ~Doomed(s)
    BY <2>2 DEF Black, Doomed
  <2>4. \A s \in Slots : Doomed(s) => car[s] = Null /\ cdr[s] = Null
    BY <2>3 DEF HeapInv, Exact, FreeIsNull
  <2>5. LeftUsed = used /\ LeftCar = car /\ LeftCdr = cdr
    BY <2>3, <2>4 DEF LeftUsed, LeftCar, LeftCdr, HeapInv, TypeOK
  <2>6. LeftUsed' = used' /\ LeftCar' = car' /\ LeftCdr' = cdr'
    BY <2>1, LeftIsAll DEF HeapInv
  <2> QED
    BY <2>1, <2>5, <2>6
<1>6. CASE UNCHANGED vars
  BY <1>6 DEF vars, heapVars, gcVars, LeftUsed, LeftCar, LeftCdr, Doomed
<1> QED
  BY <1>3, <1>4, <1>5, <1>6

\* The collector of src/vm.c, with its hints, its marking and its sweeping, does
\* what Collector says in one step: it deletes all that is not reachable, and
\* nothing else ever deletes a value.
THEOREM CollectorKeepsPromise ==
    ASSUME MaxCollections < GenMod
    PROVE  Spec => KeepsPromise
<1>1. Init => Promise!Init
  BY DEF Init, Promise!Init, Promise!Null, Null, Doomed
<1>2. HeapInv /\ HeapInv' /\ [Next]_vars => [Promise!Next]_(Promise!vars)
  <2> SUFFICES ASSUME HeapInv, HeapInv', [Next]_vars
               PROVE  Promise!Next \/ UNCHANGED Promise!vars
    OBVIOUS
  <2>1. CASE Make \/ Mutate \/ SetRoot \/ Push \/ Pop
    BY <2>1, UserImplements DEF HeapInv
  <2>2. CASE Marked
    BY <2>2, MarkedImplements DEF Promise!Next
  <2>3. CASE Begin \/ Mark \/ Sweep \/ Swept \/ UNCHANGED vars
    BY <2>3, OthersStutter
  <2> QED
    BY <2>1, <2>2, <2>3 DEF Next, Collecting
<1>3. Spec => []HeapInv
  BY HeapInvariant
<1> QED
  BY <1>1, <1>2, <1>3, PTL DEF Spec, KeepsPromise, Promise!Spec

=============================================================================
