----------------------------- MODULE MCAcceptV2 -----------------------------
(***************************************************************************)
(* AcceptV2 on a small instance: an agent with three nonces, one of them   *)
(* for either of two declarations, and an agent with two. Three nonces are *)
(* what it takes to pass a quota of one by more than one.                  *)
(***************************************************************************)
EXTENDS AcceptV2, TLC

CONSTANTS a1, a2

D(a, n, c) == [agent |-> a, nonce |-> n, content |-> c]

MCDeclaration ==
  {D(a1, 1, "x"), D(a1, 1, "y"), D(a1, 2, "x"), D(a1, 3, "x"),
   D(a2, 1, "x"), D(a2, 2, "x")}

Symmetry == Permutations(Req)
=============================================================================
