------------------------------ MODULE MCClients ------------------------------
(***************************************************************************)
(* What runs at the agent, on small instances: the SDK against the server  *)
(* (SdkV1), and the Merkle trees of the rxm-pog-v2 library (MerkleV2). The *)
(* two share no state: a behaviour is one of two scenes.                   *)
(***************************************************************************)
EXTENDS SdkV1, MerkleV2

VARIABLE scene

clientVars == <<sdkVars, merkleVars, scene>>

MCInit ==
  /\ scene \in {"sdk", "merkle"}
  /\ SdkInit /\ MerkleInit
  /\ <<may, netMay>> \in {<<{}, {"timeout", "reverted"}>>,
                         <<{"lostReply", "crash"}, {"unreached", "wallet"}>>}
  /\ scene = "merkle" => may = {}

MCNext ==
  /\ UNCHANGED scene
  /\ \/ scene = "sdk" /\ SdkNext /\ UNCHANGED merkleVars
     \/ scene = "merkle" /\ MerkleNext /\ UNCHANGED sdkVars

MCSpec == MCInit /\ [][MCNext]_clientVars
=============================================================================
