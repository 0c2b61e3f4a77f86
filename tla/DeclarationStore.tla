-------------------------- MODULE DeclarationStore --------------------------
(***************************************************************************)
(* The rows of the `declarations` table and the UPDATE statements of       *)
(* src/v2/store.ts, as operators from the row before to the row after.     *)
(* Each statement is one atomic UPDATE ... WHERE; a row its WHERE clause   *)
(* does not select is returned unchanged.                                  *)
(*                                                                         *)
(* lease_until is kept as what the statements can tell of it: no lease, a  *)
(* lease still running, or a lease that now() has passed.                  *)
(*                                                                         *)
(* The operators named Bad... are plausible mistakes in the operator that  *)
(* follows them. No specification uses them: they exist to be substituted  *)
(* for it, to see that a property notices.                                 *)
(***************************************************************************)
EXTENDS Integers

CONSTANTS
  Tx,            \* transaction hashes the relayer may come to use
  NoTx,          \* anchor_tx_hash IS NULL
  MaxAttempts    \* maxAttempts of anchorDeclaration (5 in production)

ASSUME TxAssumption == NoTx \notin Tx
ASSUME MaxAttemptsAssumption == MaxAttempts \in Nat \ {0}

\* chk_declarations_state, and "absent" for a row not inserted yet.
DeclState == {"absent", "pending", "anchoring", "anchored", "failed"}
Lease     == {"none", "live", "expired"}

Row == [state : DeclState, attempts : Nat, lease : Lease, tx : Tx \cup {NoTx}]

AbsentRow == [state |-> "absent", attempts |-> 0, lease |-> "none", tx |-> NoTx]

\* What insertDeclaration writes: the column defaults.
insertDeclaration(r) == [r EXCEPT !.state = "pending"]

\* The WHERE clause of claimForAnchoring.
BadClaimable(r) == r.state \in {"pending", "anchoring"}
Claimable(r) ==
  \/ r.state = "pending"
  \/ r.state = "anchoring" /\ r.lease = "expired"

\* Take a claimable row under a fresh lease, counting the attempt.
BadClaimUncounted(r) ==
  [r EXCEPT !.state = "anchoring", !.lease = "live",
            !.attempts = IF r.state = "pending" THEN @ + 1 ELSE @]
claimForAnchoring(r) ==
  [r EXCEPT !.state = "anchoring", !.lease = "live", !.attempts = @ + 1]

\* Store the hash of a transaction that was just sent.
BadRecordFirst(r, t) ==
  IF r.state = "anchoring" /\ r.tx = NoTx THEN [r EXCEPT !.tx = t] ELSE r
recordSentTx(r, t) ==
  IF r.state = "anchoring" THEN [r EXCEPT !.tx = t] ELSE r

\* Settle the row with the transaction that carries its log.
BadMarkAnyState(r, t) ==
  [r EXCEPT !.state = "anchored", !.tx = t, !.lease = "none"]
markAnchored(r, t) ==
  IF r.state = "anchoring"
    THEN [r EXCEPT !.state = "anchored", !.tx = t, !.lease = "none"]
    ELSE r

\* Back to pending, or failed once the attempts are used up.
BadFailAnyState(r) ==
  [r EXCEPT !.lease = "none",
            !.state = IF r.attempts >= MaxAttempts THEN "failed" ELSE "pending"]
markAttemptFailed(r) ==
  IF r.state = "anchoring"
    THEN [r EXCEPT !.lease = "none",
                   !.state = IF r.attempts >= MaxAttempts
                               THEN "failed" ELSE "pending"]
    ELSE r

\* Give a claimed row back without counting the attempt.
BadReleaseTwice(r) ==
  IF r.state = "anchoring"
    THEN [r EXCEPT !.state = "pending", !.lease = "none", !.attempts = @ - 2]
    ELSE r
releaseClaim(r) ==
  IF r.state = "anchoring"
    THEN [r EXCEPT !.state = "pending", !.lease = "none",
                   !.attempts = IF @ > 0 THEN @ - 1 ELSE 0]
    ELSE r

\* The WHERE clause of listToReconcile (the same rows Claimable selects).
Reconcilable(r) ==
  \/ r.state = "pending"
  \/ r.state = "anchoring" /\ r.lease = "expired"
=============================================================================
