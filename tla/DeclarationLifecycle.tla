------------------------ MODULE DeclarationLifecycle ------------------------
(***************************************************************************)
(* What a declaration goes through, as its agent can see it: it is open    *)
(* until the service reports it anchored or failed, once and for all, and  *)
(* it is reported anchored only when the chain holds its proof. A proof    *)
(* stays; it may also appear for a declaration that has been given up.     *)
(***************************************************************************)
CONSTANT Decl
VARIABLES
  status,   \* "open", "anchored" or "failed"
  proved    \* the declarations with an AnchorProof log on the chain

Init == status = [d \in Decl |-> "open"] /\ proved = {}

Prove(d) ==
  /\ d \notin proved
  /\ proved' = proved \cup {d}
  /\ UNCHANGED status

Confirm(d) ==
  /\ status[d] = "open"
  /\ d \in proved
  /\ status' = [status EXCEPT ![d] = "anchored"]
  /\ UNCHANGED proved

GiveUp(d) ==
  /\ status[d] = "open"
  /\ status' = [status EXCEPT ![d] = "failed"]
  /\ UNCHANGED proved

Next == \E d \in Decl : Prove(d) \/ Confirm(d) \/ GiveUp(d)

Spec == Init /\ [][Next]_<<status, proved>>
=============================================================================
