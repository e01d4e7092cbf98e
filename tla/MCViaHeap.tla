----------------------------- MODULE MCViaHeap ------------------------------
(* Instance of ViaHeap for model checking.                                   *)
EXTENDS ViaHeap, FiniteSets

Pointing ==
    Cardinality({s \in Slots : car[s] # Null})
        + Cardinality({s \in Slots : cdr[s] # Null})

\* Bound on the graphs explored: at most two pointers between values and entries
\* on the data stack together, or three entries and no pointer.  With three values
\* that leaves chains, sharing, branching and every cycle, and two growths of the
\* stack.
FewPointers ==
    \/ Pointing + Len(stack) <= 2
    \/ Pointing = 0 /\ Len(stack) <= 3
=============================================================================
