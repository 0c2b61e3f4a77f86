---------------------------- MODULE MCMcpServer ----------------------------
(***************************************************************************)
(* McpServer on a small instance. Bound: where the ledger may fail, tools  *)
(* run one at a time.                                                      *)
(***************************************************************************)
EXTENDS McpServer, TLC

OneTool == \A j, k \in Call : j = k \/ At(j, "idle") \/ At(k, "idle")

MCNext == Next /\ ("ledger" \in may => OneTool')

MCSpec == Init /\ [][MCNext]_vars

Symmetry == Permutations(Content) \cup Permutations(Call) \cup Permutations(Conf)
=============================================================================
