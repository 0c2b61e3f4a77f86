----------------------------- MODULE MCAnchorV2 -----------------------------
(***************************************************************************)
(* AnchorV2 and the receipts of PogReceipts on small instances. Hashes,    *)
(* workers and declarations are interchangeable, so the safety runs count  *)
(* states up to symmetry.                                                  *)
(***************************************************************************)
EXTENDS PogReceipts, TLC

Symmetry == Permutations(Tx) \cup Permutations(Worker) \cup Permutations(Decl)
=============================================================================
