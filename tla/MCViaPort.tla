------------------------------ MODULE MCViaPort ------------------------------
(* A small instance of ViaPort.                                              *)
EXTENDS ViaPort

\* What was thrown last makes no difference to what can happen next, and no
\* property is about it.
SameNext == <<streams, handles, live, held, released, undefined, freed>>
=============================================================================
