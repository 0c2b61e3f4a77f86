--------------------------- MODULE MCAnchorV1Told ---------------------------
(***************************************************************************)
(* What follows the creation of v1 records, on small instances: their      *)
(* anchoring and the agents that wait for it (WaitV1), and the webhooks    *)
(* told of it (Webhooks). The two share no state, so that a behaviour is   *)
(* one of three scenes: anchoring; the webhooks of two wallets, without    *)
(* events; events, for webhooks one wallet registers. No symmetry, as a    *)
(* run checks liveness.                                                    *)
(***************************************************************************)
EXTENDS WaitV1, Webhooks

CONSTANT Registering   \* the wallet that registers when there are events

VARIABLE scene

\* A kind of fault only adds behaviours: what holds with all of them, or with
\* all that a property admits, holds with fewer.
MCFaultSets ==
  {FaultKinds, {"rpc", "redis", "crash"}, {"rpc", "redis", "db"},
   {"rpc", "lostReply", "redis"}, {"rpc", "lostReply"}, {}}
MCAges       == {0, 2}

allVars == <<waitVars, hookVars, scene>>

MCInit ==
  /\ scene \in {"anchoring", "registration", "delivery"}
  /\ WaitInit /\ HookInit
  /\ scene = "anchoring" => hookMay = {}
  /\ scene # "anchoring" => may = {}
  /\ scene = "registration" => hookMay = {}

MCNext ==
  /\ UNCHANGED scene
  /\ \/ scene = "anchoring" /\ WaitNext /\ UNCHANGED hookVars
     \/ /\ scene = "registration" /\ HookNext /\ UNCHANGED waitVars
        /\ UNCHANGED event
     \/ /\ scene = "delivery" /\ HookNext /\ UNCHANGED waitVars
        /\ \A p \in Post : post'[p].wallet \in {NoWallet, Registering}

MCSpec == MCInit /\ [][MCNext]_allVars /\ Fairness /\ HookFairness
=============================================================================
