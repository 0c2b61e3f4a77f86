----------------------------- MODULE MCAnchorV1 -----------------------------
(***************************************************************************)
(* AnchorV1 by itself, on small instances.                                 *)
(***************************************************************************)
EXTENDS AnchorV1
=============================================================================
