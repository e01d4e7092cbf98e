---------------------------- MODULE ViaHeapProofs ---------------------------
(* Proofs about ViaHeap, for heaps, stacks and programs of every size.       *)
EXTENDS ViaHeap, SequenceTheorems, TLAPS

USE DEF Null

-----------------------------------------------------------------------------
(* The data stack. *)

\* Dropping the last entry of a stack keeps the entries below it.
LEMMA PopFact ==
    ASSUME NEW S, NEW s \in Seq(S), s # <<>>
    PROVE  /\ SubSeq(s, 1, Len(s) - 1) \in Seq(S)
           /\ Len(SubSeq(s, 1, Len(s) - 1)) = Len(s) - 1
           /\ \A i \in 1 .. Len(s) - 1 : SubSeq(s, 1, Len(s) - 1)[i] = s[i]
<1>1. Len(s) \in Nat \ {0} /\ \A i \in 1 .. Len(s) - 1 : s[i] \in S
  OBVIOUS
<1> DEFINE n == Len(s) - 1
<1>2. n \in Int /\ 1 \in Int /\ n >= 0 /\ \A i \in 1 .. n : s[i] \in S
  BY <1>1
<1> HIDE DEF n
<1>3. /\ SubSeq(s, 1, n) \in Seq(S)
      /\ Len(SubSeq(s, 1, n)) = IF 1 <= n THEN n - 1 + 1 ELSE 0
      /\ \A i \in 1 .. n - 1 + 1 : SubSeq(s, 1, n)[i] = s[1 + i - 1]
  BY ONLY <1>2, SubSeqProperties
<1>4. /\ SubSeq(s, 1, n) \in Seq(S)
      /\ Len(SubSeq(s, 1, n)) = n
      /\ \A i \in 1 .. n : SubSeq(s, 1, n)[i] = s[i]
  <2>1. n - 1 + 1 = n /\ \A i \in 1 .. n : 1 + i - 1 = i
    BY <1>2
  <2> QED
    BY <1>2, <1>3, <2>1
<1> QED
  BY <1>4 DEF n

\* What a stack is when an entry is pushed.
LEMMA PushFact ==
    ASSUME NEW S, NEW s \in Seq(S), NEW v \in S
    PROVE  LET t == Append(s, v)
           IN  /\ t \in Seq(S)
               /\ Len(t) = Len(s) + 1
               /\ \A i \in 1 .. Len(t) :
                      t[i] = IF i = Len(t) THEN v ELSE s[i]
BY AppendProperties, LenProperties

-----------------------------------------------------------------------------
(* Type correctness. *)

\* Everything reachable is a slot.
LEMMA ReachableSlots == Reachable \subseteq Slots
BY DEF Reachable, ReachableFrom

\* Every variable of the heap keeps its type: slots stay inside the heap,
\* generations inside a byte (via_make_value, via_sweep, via_garbage_collect).
THEOREM TypeCorrect == Spec => []TypeOK
<1>1. Init => TypeOK
  BY HeapAssumption DEF Init, TypeOK, Slots
<1>2. TypeOK /\ [Next]_vars => TypeOK'
  <2> SUFFICES ASSUME TypeOK, [Next]_vars PROVE TypeOK'
    OBVIOUS
  <2> USE HeapAssumption
  <2>1. CASE Make
    <3>1. PICK i \in Slots, r \in Roots, a \in Values, d \in Values :
              /\ cap' = IF i = cap THEN cap * 2 ELSE cap
              /\ used' = used \cup {i}
              /\ gen' = [gen EXCEPT ![i] = 0]
              /\ car' = [car EXCEPT ![i] = a]
              /\ cdr' = [cdr EXCEPT ![i] = d]
              /\ top' = IF i > top THEN i ELSE top
              /\ free' = i + 1
              /\ root' = [root EXCEPT ![r] = i]
      BY <2>1 DEF Make
    <3>2. a \in Slots \cup {Null} /\ d \in Slots \cup {Null}
      BY ReachableSlots DEF Values
    <3>3. i \in Nat /\ i + 1 \in 0 .. MaxCells
      BY DEF Slots
    <3>4. UNCHANGED <<stackVars, gcVars>>
      BY <2>1 DEF Make
    <3>5. cap' \in Nat \ {0}
      BY <3>1 DEF TypeOK
    <3>6. gen' \in [Slots -> 0 .. GenMod - 1]
      BY <3>1 DEF TypeOK
    <3> QED
      BY <3>1, <3>2, <3>3, <3>4, <3>5, <3>6 DEF TypeOK, stackVars, gcVars
  <2>2. CASE Mutate
    BY <2>2, ReachableSlots DEF TypeOK, Mutate, Values, stackVars, gcVars
  <2>3. CASE SetRoot
    BY <2>3, ReachableSlots DEF TypeOK, SetRoot, Values, heapVars, stackVars, gcVars
  <2>4. CASE Push
    <3>1. stack' \in Seq(Slots)
      BY <2>4, ReachableSlots, PushFact DEF TypeOK, Push
    <3>2. Len(stack') <= MaxDepth
      BY <2>4, ReachableSlots, PushFact DEF TypeOK, Push
    <3>3. isNull' \subseteq 0 .. MaxDepth
      <4>1. isNull \subseteq 0 .. MaxDepth /\ isNull' = isNull \ {Len(stack)}
        BY <2>4 DEF TypeOK, Push
      <4> QED
        BY <4>1
    <3>4. stackSize' \in Nat /\ popped' \in BOOLEAN
      <4>1. /\ stackSize' = IF Len(stack) = stackSize THEN stackSize * 2
                                                      ELSE stackSize
            /\ popped' = FALSE
        BY <2>4 DEF Push
      <4>2. stackSize \in Nat /\ stackSize * 2 \in Nat
        BY DEF TypeOK
      <4> QED
        BY <4>1, <4>2
    <3> QED
      BY <2>4, <3>1, <3>2, <3>3, <3>4 DEF TypeOK, Push, heapVars, gcVars
  <2>5. CASE Pop
    <3>1. stack' \in Seq(Slots)
      BY <2>5, PopFact DEF TypeOK, Pop, PopTo
    <3>3. isNull' \subseteq 0 .. MaxDepth
      <4>1. Len(stack) \in Nat /\ Len(stack) <= MaxDepth
        BY DEF TypeOK
      <4>2. Len(stack) > 0
        BY <2>5, <4>1, EmptySeq DEF TypeOK, Pop, PopTo
      <4>3. Len(stack) - 1 \in 0 .. MaxDepth
        BY <4>1, <4>2, HeapAssumption
      <4>4. /\ isNull \subseteq 0 .. MaxDepth
            /\ isNull' = isNull \cup {Len(stack) - 1}
        BY <2>5 DEF TypeOK, Pop, PopTo
      <4> QED
        BY ONLY <4>3, <4>4
    <3>4. Len(stack') <= MaxDepth
      BY <2>5, PopFact DEF TypeOK, Pop, PopTo
    <3> QED
      BY <2>5, <3>1, <3>3, <3>4 DEF TypeOK, Pop, PopTo, heapVars, gcVars
  <2>6. CASE Begin
    <3>1. gray' \subseteq Slots
      <4>1. \A i \in 1 .. Len(stack) : stack[i] \in Slots
        BY ElementOfSeq DEF TypeOK
      <4> QED
        BY <2>6, <4>1 DEF TypeOK, Begin, BeginWith, Pointers
    <3>2. generation' \in 0 .. GenMod - 1
      BY <2>6 DEF TypeOK, Begin, BeginWith
    <3> QED
      BY <2>6, <3>1, <3>2 DEF TypeOK, Begin, BeginWith, heapVars, stackVars
  <2>7. CASE Mark
    BY <2>7 DEF TypeOK, Mark, stackVars
  <2>8. CASE Marked
    BY <2>8 DEF TypeOK, Marked, SweepFrom, heapVars, stackVars
  <2>9. CASE Sweep
    <3>1. at' \in Nat /\ free' \in 0 .. MaxCells
      BY <2>9 DEF TypeOK, Sweep, SweepTo
    <3>2. used' \subseteq Slots
      BY <2>9 DEF TypeOK, Sweep, SweepTo
    <3>3. /\ car' \in [Slots -> Slots \cup {Null}]
          /\ cdr' \in [Slots -> Slots \cup {Null}]
      BY <2>9 DEF TypeOK, Sweep, SweepTo
    <3> QED
      BY <2>9, <3>1, <3>2, <3>3 DEF TypeOK, Sweep, SweepTo, stackVars
  <2>10. CASE Swept
    BY <2>10 DEF TypeOK, Swept, heapVars, stackVars
  <2>11. CASE UNCHANGED vars
    BY <2>11 DEF TypeOK, vars, heapVars, stackVars, gcVars
  <2> QED
    BY <2>1, <2>2, <2>3, <2>4, <2>5, <2>6, <2>7, <2>8, <2>9, <2>10, <2>11
       DEF Next, Collecting
<1> QED
  BY <1>1, <1>2, PTL DEF Spec

-----------------------------------------------------------------------------
(* Allocation. *)

\* SlotsAccounted is inductive: via_make_value settles on the first slot from
\* heap_free on that is NULL, and via_sweep brings heap_free down to what it
\* frees.
LEMMA SlotsStep == TypeOK /\ SlotsAccounted /\ [Next]_vars => SlotsAccounted'
<1> SUFFICES ASSUME TypeOK, SlotsAccounted, [Next]_vars PROVE SlotsAccounted'
  OBVIOUS
<1>0. /\ used \subseteq Nat /\ top \in Nat /\ free \in Nat /\ at \in Nat
      /\ cap \in Nat \ {0}
  BY HeapAssumption DEF TypeOK, Slots
<1>1. CASE Make
  <2>1. PICK i \in Slots :
            /\ IsNextSlot(i)
            /\ cap' = IF i = cap THEN cap * 2 ELSE cap
            /\ used' = used \cup {i}
            /\ top' = IF i > top THEN i ELSE top
            /\ free' = i + 1
    BY <1>1 DEF Make
  <2>2. i \in Nat /\ i <= cap
    <3>1. i \in Nat /\ i >= free
      BY <2>1 DEF Slots, IsNextSlot
    <3>2. CASE i = 0
      BY <3>1, <3>2, <1>0
    <3>3. CASE i > 0
      <4>1. i - 1 \in used
        <5>1. CASE i = free
          BY <5>1, <3>1, <3>3 DEF SlotsAccounted
        <5>2. CASE i > free
          BY <5>2, <3>1, <3>3, <2>1, <1>0 DEF IsNextSlot
        <5> QED
          BY <3>1, <1>0, <5>1, <5>2
      <4> QED
        BY <4>1, <3>1, <1>0 DEF SlotsAccounted
    <3> QED
      BY <3>1, <3>2, <3>3
  <2>3. cap' \in Nat /\ cap' >= cap /\ i < cap'
    BY <2>1, <2>2, <1>0
  <2>4. \A s \in used' : s <= top' /\ s < cap'
    BY <2>1, <2>2, <2>3, <1>0 DEF SlotsAccounted
  <2>5. \A s \in 0 .. free' - 1 : s \in used'
    <3> SUFFICES ASSUME NEW s \in 0 .. i, s # i PROVE s \in used
      BY <2>1, <2>2
    <3>1. CASE s < free
      BY <3>1, <1>0 DEF SlotsAccounted
    <3>2. CASE s >= free
      BY <3>2, <2>1, <2>2, <1>0 DEF IsNextSlot
    <3> QED
      BY <3>1, <3>2, <1>0
  <2>6. free' <= top' + 1
    BY <2>1, <2>2, <1>0
  <2> QED
    BY <2>4, <2>5, <2>6 DEF SlotsAccounted
<1>2. CASE Sweep
  <2>0. at' = at + 1 /\ at < cap /\ top' = top /\ cap' = cap
    BY <1>2 DEF Sweep, SweepTo
  <2>1. CASE at \in used /\ gen[at] # generation
    <3>1. used' = used \ {at} /\ free' = IF at < free THEN at ELSE free
      BY <1>2, <2>1 DEF Sweep, SweepTo
    <3>2. \A s \in used' : s <= top' /\ s < cap'
      BY <2>0, <3>1 DEF SlotsAccounted
    <3>3. \A s \in 0 .. free' - 1 : s \in used'
      BY <3>1, <1>0 DEF SlotsAccounted
    <3>4. free' <= top' + 1
      BY <2>0, <3>1, <1>0 DEF SlotsAccounted
    <3> QED
      BY <3>2, <3>3, <3>4 DEF SlotsAccounted
  <2>2. CASE ~(at \in used /\ gen[at] # generation)
    BY <1>2, <2>2, <2>0 DEF Sweep, SweepTo, SlotsAccounted
  <2> QED
    BY <2>1, <2>2
<1>3. CASE UNCHANGED <<used, cap, top, free>>
  BY <1>3 DEF SlotsAccounted
<1>4. Make \/ Sweep \/ UNCHANGED <<used, cap, top, free>>
  BY DEF Next, Collecting, Mutate, SetRoot, Push, Pop, PopTo, Begin, BeginWith,
         Mark, Marked, SweepFrom, Swept, heapVars, vars
<1> QED
  BY <1>1, <1>2, <1>3, <1>4

\* via_make_value never misses a free slot, never writes over a value and never
\* writes beyond the array it has just made large enough.
THEOREM SlotsStayAccounted == Spec => []SlotsAccounted
<1>1. Init => SlotsAccounted
  BY DEF Init, SlotsAccounted
<1> QED
  BY <1>1, SlotsStep, TypeCorrect, PTL DEF Spec

-----------------------------------------------------------------------------
(* The scan of the data stack. *)

\* Right after a pop the slot above the top entry is NULL, and a collection
\* starts only then.
ScanInv ==
    /\ popped => Len(stack) \in isNull
    /\ phase = "mark" => popped

\* The collector marks the data stack up to its top and never reads on, however
\* often the array has doubled without being cleared.
THEOREM ScanStops == Spec => []ScanStopsAtTop
<1>1. Init => ScanInv
  BY HeapAssumption DEF Init, ScanInv
<1>2. TypeOK /\ ScanInv /\ [Next]_vars => ScanInv'
  <2> SUFFICES ASSUME TypeOK, ScanInv, [Next]_vars PROVE ScanInv'
    OBVIOUS
  <2>1. CASE Push
    BY <2>1 DEF Push, ScanInv, gcVars
  <2>2. CASE Pop
    <3>1. Len(stack') = Len(stack) - 1
      BY <2>2, PopFact DEF Pop, PopTo, TypeOK
    <3> QED
      BY <2>2, <3>1 DEF Pop, PopTo, ScanInv, gcVars
  <2>3. CASE Begin
    BY <2>3 DEF Begin, BeginWith, ScanInv, stackVars
  <2>4. CASE UNCHANGED stackVars /\ (phase' = phase \/ phase' # "mark")
    BY <2>4 DEF ScanInv, stackVars
  <2>5. \/ Push \/ Pop \/ Begin
        \/ UNCHANGED stackVars /\ (phase' = phase \/ phase' # "mark")
    BY DEF Next, Collecting, Make, Mutate, SetRoot, Mark, Marked, SweepFrom, Sweep, SweepTo,
           Swept, vars, gcVars, stackVars
  <2> QED
    BY <2>1, <2>2, <2>3, <2>4, <2>5
<1>3. ScanInv => ScanStopsAtTop
  BY DEF ScanInv, ScanStopsAtTop
<1> QED
  BY <1>1, <1>2, <1>3, TypeCorrect, PTL DEF Spec

-----------------------------------------------------------------------------
(* Nothing reachable is freed. *)

\* The values marked in this collection, or, between two, the ones that came
\* through the last.
Black == {s \in used : gen[s] = generation}

\* S holds the machine's own pointers and the data stack.
HoldsPointers(S) ==
    /\ \A r \in Roots : root[r] \in S \cup {Null}
    /\ \A i \in 1 .. Len(stack) : stack[i] \in S \cup {Null}

\* No generation is in use twice: the counter has not wrapped yet.
GenerationInv ==
    /\ generation = collections
    /\ \A s \in used : gen[s] <= generation

\* Between two collections, and while one marks, no value points at a free slot.
UsedInv ==
    phase # "sweep" => HoldsPointers(used) /\ ClosedUnder(used, car, cdr)

\* While a collection marks, what a marked value points at is marked already
\* or gray: it still is to be.
MarkInv ==
    phase = "mark" =>
        /\ gray \subseteq used
        /\ HoldsPointers(gray \cup Black)
        /\ \A s \in Black : /\ car[s] \in gray \cup Black \cup {Null}
                            /\ cdr[s] \in gray \cup Black \cup {Null}

\* While it sweeps, the marked values hold every pointer, and the slots it has
\* passed hold nothing else.
SweepInv ==
    phase = "sweep" =>
        /\ HoldsPointers(Black)
        /\ ClosedUnder(Black, car, cdr)
        /\ \A s \in used : s < at => s \in Black

Tricolor == GenerationInv /\ UsedInv /\ MarkInv /\ SweepInv

\* A closed set that holds the pointers holds everything reachable from them.
LEMMA ReachableWithin ==
    ASSUME NEW S, S \subseteq Slots, HoldsPointers(S), ClosedUnder(S, car, cdr)
    PROVE  Reachable \subseteq S
<1>1. Pointers \subseteq S \cup {Null}
  BY DEF HoldsPointers, Pointers
<1> QED
  BY <1>1 DEF Reachable, ReachableFrom

\* Before a collection sweeps, what the program can get at is in the heap.
LEMMA ValuesUsed ==
    ASSUME TypeOK, UsedInv, phase = "idle"
    PROVE  Reachable \subseteq used /\ Values \subseteq used \cup {Null}
BY ReachableWithin DEF TypeOK, UsedInv, Values

LEMMA GenerationStep ==
    ASSUME TypeOK, GenerationInv, [Next]_vars, MaxCollections < GenMod
    PROVE  GenerationInv'
<1>0. generation \in Nat /\ \A s \in Slots : gen[s] \in Nat
  BY HeapAssumption DEF TypeOK
<1>1. CASE Begin
  <2>1. generation' = (generation + 1) % GenMod /\ collections' = collections + 1
    BY <1>1 DEF Begin, BeginWith
  <2>2. collections + 1 < GenMod
    BY <1>1, <1>0, HeapAssumption DEF Begin, BeginWith, GenerationInv
  <2>3. generation' = generation + 1
    BY <2>1, <2>2, <1>0, HeapAssumption DEF GenerationInv
  <2>4. used' = used /\ gen' = gen /\ used \subseteq Slots
    BY <1>1 DEF Begin, BeginWith, heapVars, TypeOK
  <2>5. \A s \in used : gen[s] <= generation + 1
    BY <1>0, <2>4 DEF GenerationInv
  <2> QED
    BY <2>1, <2>3, <2>4, <2>5 DEF GenerationInv
<1>2. CASE Make
  <2>1. PICK i \in Slots : /\ used' = used \cup {i}
                           /\ gen' = [gen EXCEPT ![i] = 0]
    BY <1>2 DEF Make
  <2>2. UNCHANGED <<generation, collections>>
    BY <1>2 DEF Make, gcVars
  <2> QED
    BY <2>1, <2>2, <1>0 DEF GenerationInv, TypeOK
<1>3. CASE Mark
  <2>1. PICK i \in gray : gen' = [gen EXCEPT ![i] = generation]
    BY <1>3 DEF Mark
  <2>2. UNCHANGED <<used, generation, collections>>
    BY <1>3 DEF Mark
  <2> QED
    BY <2>1, <2>2, <1>0 DEF GenerationInv, TypeOK
<1>4. CASE used' \subseteq used /\ UNCHANGED <<gen, generation, collections>>
  BY <1>4 DEF GenerationInv
<1>5. \/ Begin \/ Make \/ Mark
      \/ used' \subseteq used /\ UNCHANGED <<gen, generation, collections>>
  BY DEF Next, Collecting, Mutate, SetRoot, Push, Pop, PopTo, Marked, SweepFrom, Sweep,
         SweepTo, Swept, heapVars, gcVars, vars
<1> QED
  BY <1>1, <1>2, <1>3, <1>4, <1>5

\* What the program does between two collections keeps every pointer in the heap.
LEMMA UserStep ==
    ASSUME TypeOK, Tricolor, Make \/ Mutate \/ SetRoot \/ Push \/ Pop
    PROVE  UsedInv' /\ phase' = "idle"
<1>1. phase = "idle" /\ phase' = phase
  BY DEF Make, Mutate, SetRoot, Push, Pop, PopTo, gcVars
<1>2. /\ HoldsPointers(used) /\ ClosedUnder(used, car, cdr)
      /\ Reachable \subseteq used /\ Values \subseteq used \cup {Null}
  BY <1>1, ValuesUsed DEF Tricolor, UsedInv
<1>3. CASE Make
  <2>1. PICK i \in Slots, r \in Roots, a \in Values, d \in Values :
            /\ used' = used \cup {i}
            /\ car' = [car EXCEPT ![i] = a]
            /\ cdr' = [cdr EXCEPT ![i] = d]
            /\ root' = [root EXCEPT ![r] = i]
    BY <1>3 DEF Make
  <2>2. HoldsPointers(used)'
    BY <1>2, <1>3, <2>1 DEF Make, HoldsPointers, stackVars, TypeOK
  <2>3. ClosedUnder(used, car, cdr)'
    BY <1>2, <2>1 DEF ClosedUnder, TypeOK
  <2> QED
    BY <1>1, <2>2, <2>3 DEF UsedInv
<1>4. CASE Mutate
  <2>1. HoldsPointers(used)'
    BY <1>2, <1>4 DEF Mutate, HoldsPointers, stackVars
  <2>2. ClosedUnder(used, car, cdr)'
    BY <1>2, <1>4 DEF Mutate, ClosedUnder, TypeOK
  <2> QED
    BY <1>1, <2>1, <2>2 DEF UsedInv
<1>5. CASE SetRoot
  <2>1. HoldsPointers(used)'
    BY <1>2, <1>5 DEF SetRoot, HoldsPointers, heapVars, stackVars, TypeOK
  <2>2. ClosedUnder(used, car, cdr)'
    BY <1>2, <1>5 DEF SetRoot, heapVars, ClosedUnder
  <2> QED
    BY <1>1, <2>1, <2>2 DEF UsedInv
<1>6. CASE Push
  <2>1. PICK v \in Reachable : stack' = Append(stack, v)
    BY <1>6 DEF Push
  <2>2. /\ Len(stack') = Len(stack) + 1
        /\ \A i \in 1 .. Len(stack') :
               stack'[i] = IF i = Len(stack') THEN v ELSE stack[i]
    BY <2>1, ReachableSlots, PushFact DEF TypeOK
  <2>3. HoldsPointers(used)'
    BY <1>2, <1>6, <2>2, LenProperties
       DEF Push, HoldsPointers, heapVars, TypeOK
  <2>4. ClosedUnder(used, car, cdr)'
    BY <1>2, <1>6 DEF Push, heapVars, ClosedUnder
  <2> QED
    BY <1>1, <2>3, <2>4 DEF UsedInv
<1>7. CASE Pop
  <2>1. /\ Len(stack') = Len(stack) - 1
        /\ \A i \in 1 .. Len(stack) - 1 : stack'[i] = stack[i]
    BY <1>7, PopFact DEF Pop, PopTo, TypeOK
  <2>2. HoldsPointers(used)'
    BY <1>2, <1>7, <2>1, LenProperties
       DEF Pop, PopTo, HoldsPointers, heapVars, TypeOK
  <2>3. ClosedUnder(used, car, cdr)'
    BY <1>2, <1>7 DEF Pop, PopTo, heapVars, ClosedUnder
  <2> QED
    BY <1>1, <2>2, <2>3 DEF UsedInv
<1> QED
  BY <1>3, <1>4, <1>5, <1>6, <1>7

\* Marking starts with every pointer gray and no value marked.
LEMMA BeginStep ==
    ASSUME TypeOK, Tricolor, Begin, MaxCollections < GenMod
    PROVE  Tricolor'
<1>1. GenerationInv'
  BY GenerationStep DEF Tricolor, Next
<1>2. UsedInv'
  BY DEF Tricolor, UsedInv, HoldsPointers, ClosedUnder, Begin, BeginWith,
         heapVars, stackVars
<1>3. \A s \in used : gen[s] # generation'
  <2>1. \A s \in used : gen[s] <= generation /\ gen[s] \in Nat
    BY HeapAssumption DEF Tricolor, GenerationInv, TypeOK
  <2>2. generation' = generation + 1
    BY <1>1 DEF Tricolor, GenerationInv, Begin, BeginWith
  <2>3. generation \in Nat
    BY HeapAssumption DEF TypeOK
  <2> QED
    BY <2>1, <2>2, <2>3
<1>4. MarkInv'
  <2>1. used' = used /\ gen' = gen /\ root' = root /\ stack' = stack
    BY DEF Begin, BeginWith, heapVars, stackVars
  <2>2. Black' = {}
    BY <1>3, <2>1 DEF Black
  <2>3. gray' = Pointers \ {Null} /\ phase = "idle"
    BY DEF Begin, BeginWith
  <2>4. gray' \subseteq used'
    BY <2>1, <2>3 DEF Tricolor, UsedInv, HoldsPointers, Pointers
  <2>5. HoldsPointers(gray \cup Black)'
    BY <2>1, <2>3 DEF HoldsPointers, Pointers
  <2> QED
    BY <2>2, <2>4, <2>5 DEF MarkInv
<1>5. SweepInv'
  BY DEF SweepInv, Begin, BeginWith
<1> QED
  BY <1>1, <1>2, <1>4, <1>5 DEF Tricolor

\* Marking a value moves it from gray to black, and what it points at to gray.
LEMMA MarkStep ==
    ASSUME TypeOK, Tricolor, Mark, MaxCollections < GenMod
    PROVE  Tricolor'
<1>1. GenerationInv'
  BY GenerationStep DEF Tricolor, Next, Collecting
<1>2. PICK s \in gray :
          /\ gen' = [gen EXCEPT ![s] = generation]
          /\ gray' = (gray \ {s}) \cup
                         IF gen[s] = generation THEN {}
                         ELSE {car[s], cdr[s]} \ {Null}
  BY DEF Mark
<1>3. /\ phase = "mark" /\ phase' = phase
      /\ UNCHANGED <<used, car, cdr, root, stack, generation>>
  BY DEF Mark, stackVars
<1>4. /\ gray \subseteq used /\ s \in used /\ s \in Slots
      /\ HoldsPointers(gray \cup Black)
      /\ ClosedUnder(used, car, cdr) /\ HoldsPointers(used)
  BY <1>3 DEF Tricolor, MarkInv, UsedInv, TypeOK
<1>5. Black' = Black \cup {s}
  BY <1>2, <1>3, <1>4 DEF Black, TypeOK
<1>6. gray \cup Black \subseteq gray' \cup Black'
  BY <1>2, <1>5
<1>7. UsedInv'
  BY <1>3, <1>4 DEF UsedInv, HoldsPointers, ClosedUnder
<1>8. MarkInv'
  <2>1. gray' \subseteq used'
    BY <1>2, <1>3, <1>4 DEF ClosedUnder
  <2>2. HoldsPointers(gray \cup Black)'
    BY <1>3, <1>4, <1>6 DEF HoldsPointers
  <2>3. ASSUME NEW t \in Black'
        PROVE  /\ car[t] \in gray' \cup Black' \cup {Null}
               /\ cdr[t] \in gray' \cup Black' \cup {Null}
    <3>1. CASE t \in Black
      BY <3>1, <1>3, <1>6 DEF Tricolor, MarkInv
    <3>2. CASE t \notin Black
      BY <3>2, <1>2, <1>4, <1>5 DEF Black
    <3> QED
      BY <3>1, <3>2
  <2> QED
    BY <1>3, <2>1, <2>2, <2>3 DEF MarkInv
<1>9. SweepInv'
  BY <1>3 DEF SweepInv
<1> QED
  BY <1>1, <1>7, <1>8, <1>9 DEF Tricolor

\* When nothing is gray the marked values are closed; sweeping leaves them be.
LEMMA SweepStep ==
    ASSUME TypeOK, SlotsAccounted, Tricolor, Marked \/ Sweep \/ Swept,
           MaxCollections < GenMod
    PROVE  Tricolor'
<1>1. GenerationInv'
  BY GenerationStep DEF Tricolor, Next, Collecting
<1>2. CASE Marked
  <2>1. /\ phase = "mark" /\ phase' = "sweep" /\ gray = {} /\ at' = 0
        /\ UNCHANGED <<used, gen, car, cdr, root, stack, generation>>
    BY <1>2 DEF Marked, SweepFrom, heapVars, stackVars
  <2>2. HoldsPointers(Black) /\ ClosedUnder(Black, car, cdr)
    BY <2>1 DEF Tricolor, MarkInv, HoldsPointers, ClosedUnder
  <2>3. Black' = Black
    BY <2>1 DEF Black
  <2>4. \A s \in used : ~(s < 0)
    BY DEF TypeOK, Slots
  <2>5. SweepInv'
    BY <2>1, <2>2, <2>3, <2>4 DEF SweepInv, HoldsPointers, ClosedUnder
  <2> QED
    BY <1>1, <2>1, <2>5 DEF Tricolor, UsedInv, MarkInv
<1>3. CASE Sweep
  <2>1. /\ phase = "sweep" /\ phase' = phase /\ at' = at + 1
        /\ UNCHANGED <<gen, root, stack, generation>>
    BY <1>3 DEF Sweep, SweepTo, stackVars
  <2>2. /\ HoldsPointers(Black) /\ ClosedUnder(Black, car, cdr)
        /\ \A s \in used : s < at => s \in Black
    BY <2>1 DEF Tricolor, SweepInv
  <2>3. /\ used' \subseteq used /\ Black' = Black
        /\ \A s \in Black : car'[s] = car[s] /\ cdr'[s] = cdr[s]
        /\ at \in used' => at \in Black
    <3>1. CASE at \in used /\ gen[at] # generation
      BY <1>3, <2>1, <3>1 DEF Sweep, SweepTo, Black, TypeOK
    <3>2. CASE ~(at \in used /\ gen[at] # generation)
      BY <1>3, <2>1, <3>2 DEF Sweep, SweepTo, Black
    <3> QED
      BY <3>1, <3>2
  <2>4. \A s \in used' : s < at' => s \in Black
    <3>1. \A s \in used : s \in Nat
      BY DEF TypeOK, Slots
    <3> QED
      BY <2>1, <2>2, <2>3, <3>1 DEF TypeOK
  <2>5. SweepInv'
    BY <2>1, <2>2, <2>3, <2>4 DEF SweepInv, HoldsPointers, ClosedUnder
  <2> QED
    BY <1>1, <2>1, <2>5 DEF Tricolor, UsedInv, MarkInv
<1>4. CASE Swept
  <2>1. /\ phase = "sweep" /\ phase' = "idle" /\ at = cap
        /\ UNCHANGED <<used, gen, car, cdr, root, stack, generation>>
    BY <1>4 DEF Swept, heapVars, stackVars
  <2>2. used = Black
    BY <2>1 DEF Tricolor, SweepInv, SlotsAccounted, Black
  <2>3. UsedInv'
    BY <2>1, <2>2 DEF Tricolor, SweepInv, UsedInv, HoldsPointers, ClosedUnder
  <2> QED
    BY <1>1, <2>1, <2>3 DEF Tricolor, MarkInv, SweepInv
<1> QED
  BY <1>2, <1>3, <1>4

LEMMA TricolorStep ==
    ASSUME TypeOK, SlotsAccounted, Tricolor, [Next]_vars, MaxCollections < GenMod
    PROVE  Tricolor'
<1>1. CASE Make \/ Mutate \/ SetRoot \/ Push \/ Pop
  <2>1. UsedInv' /\ phase' = "idle"
    BY <1>1, UserStep
  <2>2. GenerationInv'
    BY GenerationStep DEF Tricolor
  <2> QED
    BY <2>1, <2>2 DEF Tricolor, MarkInv, SweepInv
<1>2. CASE UNCHANGED vars
  BY <1>2 DEF Tricolor, GenerationInv, UsedInv, MarkInv, SweepInv, Black,
              HoldsPointers, ClosedUnder, vars, heapVars, stackVars, gcVars
<1> QED
  BY <1>1, <1>2, BeginStep, MarkStep, SweepStep DEF Next, Collecting

\* As long as the generation byte has not wrapped around (fewer collections than
\* generations), no value the program can get at is ever freed.
THEOREM NothingIsLost ==
    ASSUME MaxCollections < GenMod
    PROVE  Spec => []NothingLost
<1>1. Init => Tricolor
  BY DEF Init, Tricolor, GenerationInv, UsedInv, MarkInv, SweepInv,
         HoldsPointers, ClosedUnder
<1>2. TypeOK /\ SlotsAccounted /\ Tricolor /\ [Next]_vars => Tricolor'
  BY TricolorStep
<1>3. TypeOK /\ Tricolor => NothingLost
  <2> SUFFICES ASSUME TypeOK, Tricolor PROVE Reachable \subseteq used
    BY DEF NothingLost
  <2>1. CASE phase = "sweep"
    <3>1. Black \subseteq used /\ Black \subseteq Slots
      BY DEF Black, TypeOK
    <3> QED
      BY <2>1, <3>1, ReachableWithin DEF Tricolor, SweepInv
  <2>2. CASE phase # "sweep"
    BY <2>2, ReachableWithin DEF Tricolor, UsedInv, TypeOK
  <2> QED
    BY <2>1, <2>2
<1> QED
  BY <1>1, <1>2, <1>3, TypeCorrect, SlotsStayAccounted, PTL DEF Spec

-----------------------------------------------------------------------------
(* Collections come to an end. *)

\* The slots a sweep has come to are slots of the array.
SweepInside == phase = "sweep" => at <= cap

LEMMA SweepStaysInside ==
    ASSUME TypeOK, SweepInside, [Next]_vars
    PROVE  SweepInside'
<1>1. at \in Nat /\ cap \in Nat
  BY DEF TypeOK
<1>2. CASE Marked
  BY <1>1, <1>2 DEF Marked, SweepFrom, SweepInside, heapVars
<1>3. CASE Sweep
  BY <1>1, <1>3 DEF Sweep, SweepTo, SweepInside
<1>4. CASE phase' # "sweep"
  BY <1>4 DEF SweepInside
<1>5. CASE UNCHANGED <<phase, at, cap>>
  BY <1>5 DEF SweepInside
<1>6. \/ Marked \/ Sweep \/ phase' # "sweep" \/ UNCHANGED <<phase, at, cap>>
  BY DEF Next, Collecting, Make, Mutate, SetRoot, Push, Pop, PopTo, Begin,
         BeginWith, Mark, Swept, heapVars, gcVars, vars
<1> QED
  BY <1>2, <1>3, <1>4, <1>5, <1>6

\* A value that is marked again leaves only less to mark.
LEMMA MarkAdvances ==
    ASSUME TypeOK, Mark
    PROVE  MarkedMore
<1>1. PICK s \in gray :
          /\ gen' = [gen EXCEPT ![s] = generation]
          /\ gray' = (gray \ {s}) \cup IF gen[s] = generation THEN {}
                                      ELSE {car[s], cdr[s]} \ {Null}
          /\ generation' = generation
  BY DEF Mark
<1>2. s \in Slots /\ gen \in [Slots -> 0 .. GenMod - 1]
  BY DEF TypeOK
<1>3. \A t \in Slots : gen'[t] = IF t = s THEN generation ELSE gen[t]
  BY <1>1, <1>2
<1>4. Unmarked' = Unmarked \ {s}
  BY <1>1, <1>3 DEF Unmarked
<1>5. CASE gen[s] = generation
  <2>1. Unmarked' = Unmarked
    BY <1>4, <1>5 DEF Unmarked
  <2>2. gray' = gray \ {s}
    BY <1>1, <1>5
  <2> QED
    BY <2>1, <2>2 DEF MarkedMore
<1>6. CASE gen[s] # generation
  <2>1. s \in Unmarked
    BY <1>2, <1>6 DEF Unmarked
  <2> QED
    BY <1>4, <2>1 DEF MarkedMore
<1> QED
  BY <1>5, <1>6

\* Every step of a collection leaves less of it to do, however large the heap and
\* whatever cycles its values form: the recursion of via_mark and the loop of
\* via_sweep have a variant each.
THEOREM CollectionsAdvance == Spec => CollectionAdvances
<1>1. Init => SweepInside
  BY DEF Init, SweepInside
<1>2. ASSUME TypeOK, SweepInside, [Next]_vars
      PROVE  SweepInside' /\ [Advancing]_vars
  <2>1. SweepInside'
    BY <1>2, SweepStaysInside
  <2>2. at \in Nat /\ cap \in Nat
    BY <1>2 DEF TypeOK
  <2>3. CASE Mark
    <3>1. phase = "mark" /\ phase' = "mark"
      BY <2>3 DEF Mark
    <3>2. MarkedMore
      BY <1>2, <2>3, MarkAdvances
    <3> QED
      BY <2>1, <3>1, <3>2 DEF Advancing
  <2>4. CASE Marked
    BY <2>1, <2>4 DEF Marked, SweepFrom, SweepInside, Advancing
  <2>5. CASE Sweep
    <3>1. /\ phase = "sweep" /\ phase' = "sweep" /\ at' = at + 1 /\ at < cap
          /\ cap' = cap
      BY <2>5 DEF Sweep, SweepTo
    <3>2. at < at' /\ at' <= cap
      BY <2>2, <3>1
    <3> QED
      BY <2>1, <3>1, <3>2 DEF Advancing
  <2>6. CASE Swept
    <3>1. phase = "sweep" /\ phase' = "idle"
      BY <2>6 DEF Swept
    <3> QED
      BY <2>1, <3>1 DEF Advancing
  <2>7. CASE Make \/ Mutate \/ SetRoot \/ Push \/ Pop \/ Begin
    <3>1. phase = "idle"
      BY <2>7 DEF Make, Mutate, SetRoot, Push, Pop, PopTo, Begin, BeginWith
    <3> QED
      BY <2>1, <3>1 DEF Advancing
  <2> QED
    BY <1>2, <2>1, <2>3, <2>4, <2>5, <2>6, <2>7 DEF Next, Collecting
<1> QED
  BY <1>1, <1>2, TypeCorrect, PTL DEF Spec, CollectionAdvances

=============================================================================
