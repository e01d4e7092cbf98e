----------------------------- MODULE ValueGraph -----------------------------
(* Values that point at each other, as the Via heap holds them: node n is a  *)
(* value with the two pointers car[n] and cdr[n].  (Arrays and frames have   *)
(* more; two are enough to build every shape of graph.)                      *)
EXTENDS Integers

\* The pointer to no value.
Null == -1

\* S holds every value its members point at.
ClosedUnder(S, car, cdr) ==
    \A n \in S : /\ car[n] \in S \cup {Null}
                 /\ cdr[n] \in S \cup {Null}

\* The members of Nodes that a program can get at from the pointers in R: they
\* are in every closed set that holds R.
ReachableFrom(R, Nodes, car, cdr) ==
    {n \in Nodes : \A S \in SUBSET Nodes :
                       R \subseteq S \cup {Null} /\ ClosedUnder(S, car, cdr)
                           => n \in S}

=============================================================================
