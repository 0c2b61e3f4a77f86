---------------------------- MODULE MCRecordsV1 ----------------------------
(***************************************************************************)
(* RecordsV1 on small instances.                                           *)
(***************************************************************************)
EXTENDS RecordsV1, TLC

Symmetry == Permutations(Content) \cup Permutations(Nonce) \cup Permutations(Req)
              \cup Permutations(Transfer) \cup Permutations(Spelling)
              \cup Permutations(Usdc)
=============================================================================
