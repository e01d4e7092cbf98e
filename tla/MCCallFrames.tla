---------------------------- MODULE MCCallFrames ----------------------------
(* Instance of CallFrames for model checking.  Six frames are enough for a  *)
(* base frame, its default handler, a catch inside a waiting argument, the  *)
(* waiting frame that a throw abandons, and a second run of the host.       *)
EXTENDS CallFrames
=============================================================================
