---------------------------- MODULE MCAnchorQueue ----------------------------
(***************************************************************************)
(* AnchorQueue on small instances.                                         *)
(***************************************************************************)
EXTENDS AnchorQueue, TLC

Symmetry == Permutations(Tx) \cup Permutations(Worker) \cup Permutations(Extra)
=============================================================================
