----------------------------- MODULE Collector ------------------------------
(* What the garbage collector promises its users, whatever it does inside:   *)
(* a program makes values, points them at each other and drops them, and a   *)
(* collection removes, in one step, exactly the values nothing can reach.    *)
EXTENDS ValueGraph, Sequences

CONSTANTS
    Slots,          \* where values live
    Roots,          \* the names of the machine's own pointers
    MaxDepth        \* bound: entries on the data stack

VARIABLES
    used,           \* the slots that hold a value
    car, cdr,       \* the pointers of those values
    root,           \* the machine's own pointers
    stack           \* the data stack

vars == <<used, car, cdr, root, stack>>

Pointers == {root[r] : r \in Roots} \cup {stack[i] : i \in 1 .. Len(stack)}

Reachable == ReachableFrom(Pointers, Slots, car, cdr)

Values == Reachable \cup {Null}

Init ==
    /\ used = {}
    /\ car = [s \in Slots |-> Null]
    /\ cdr = [s \in Slots |-> Null]
    /\ root = [r \in Roots |-> Null]
    /\ stack = <<>>

\* A new value, in any slot that holds none.
Make ==
    \E s \in Slots \ used, r \in Roots, a, d \in Values :
        /\ used' = used \cup {s}
        /\ car' = [car EXCEPT ![s] = a]
        /\ cdr' = [cdr EXCEPT ![s] = d]
        /\ root' = [root EXCEPT ![r] = s]
        /\ UNCHANGED stack

\* One pointer of a value is set anew.
Mutate ==
    \E s \in Reachable, v \in Values :
        /\ \/ car' = [car EXCEPT ![s] = v] /\ UNCHANGED cdr
           \/ cdr' = [cdr EXCEPT ![s] = v] /\ UNCHANGED car
        /\ UNCHANGED <<used, root, stack>>

\* One of the machine's own pointers is set anew.
SetRoot ==
    \E r \in Roots, v \in Values :
        /\ root' = [root EXCEPT ![r] = v]
        /\ UNCHANGED <<used, car, cdr, stack>>

Push ==
    \E v \in Reachable :
        /\ Len(stack) < MaxDepth
        /\ stack' = Append(stack, v)
        /\ UNCHANGED <<used, car, cdr, root>>

Pop ==
    /\ stack # <<>>
    /\ stack' = SubSeq(stack, 1, Len(stack) - 1)
    /\ UNCHANGED <<used, car, cdr, root>>

Collect ==
    /\ used' = Reachable
    /\ car' = [s \in Slots |-> IF s \in Reachable THEN car[s] ELSE Null]
    /\ cdr' = [s \in Slots |-> IF s \in Reachable THEN cdr[s] ELSE Null]
    /\ UNCHANGED <<root, stack>>

Next == Make \/ Mutate \/ SetRoot \/ Push \/ Pop \/ Collect

Spec == Init /\ [][Next]_vars

=============================================================================
