------------------------------- MODULE WaitV1 -------------------------------
(***************************************************************************)
(* What agents are told of the anchoring of a v1 record: waitForAnchor     *)
(* (src/services/waitForAnchor.ts) for POST ?wait_for_anchor=true of       *)
(* src/routes/records.ts, GET /v1/records/:id and its export, with the     *)
(* blocks of src/utils/formatters.ts, and waitForRecord of the SDK, beside *)
(* the anchoring of AnchorV1.                                              *)
(*                                                                         *)
(* A wait is a sequence of reads of the row: those that do not end it      *)
(* leave nothing behind, so that a wait is the read it answers from.       *)
(***************************************************************************)
EXTENDS AnchorV1

VARIABLE heldState   \* the state a record's agent was last told, and its hash

waitVars == <<row, job, run, sent, mined, sends, told, may, heldState>>

Told   == [state : State, tx : Tx \cup {NoTx}, terminal : BOOLEAN]
Nobody == [state |-> "absent", tx |-> NoTx, terminal |-> FALSE]

WaitInit == Init /\ heldState = [r \in Record |-> Nobody]

\* terminal of a state; one the map does not have, like anchoring, is not.
getStateInfo(s) == s \in {"anchored", "anchor_failed"}

\* There is a block when there is a hash, whatever the state.
buildAnchorBlock(r) == row[r].tx
formatRecordResponse(r) ==
  [state |-> row[r].state, tx |-> buildAnchorBlock(r),
   terminal |-> getStateInfo(row[r].state)]

Tell(r, answer) ==
  /\ heldState' = [heldState EXCEPT ![r] = answer]
  /\ UNCHANGED vars

\* Any state but pending_anchor ends the wait; so does its deadline, after
\* which the answer is that of the insert.
BadWaitForAnchor(r) ==
  /\ row[r].state # "absent"
  /\ \/ /\ row[r].state # "pending_anchor"
        /\ Tell(r, [formatRecordResponse(r) EXCEPT !.terminal = TRUE])
     \/ Tell(r, [state |-> "pending_anchor", tx |-> NoTx, terminal |-> FALSE])
waitForAnchor(r) ==
  /\ row[r].state # "absent"
  /\ \/ /\ row[r].state # "pending_anchor"
        /\ Tell(r, formatRecordResponse(r))
     \/ Tell(r, [state |-> "pending_anchor", tx |-> NoTx,
                 terminal |-> getStateInfo("pending_anchor")])

getRecord(r) ==
  /\ row[r].state # "absent"
  /\ Tell(r, formatRecordResponse(r))

\* Full or compact, the export has the state and the block of a GET.
exportRecord(r) == getRecord(r)

\* anchored and anchor_failed end the wait; past its deadline it answers
\* what one more GET says. That one may fail, like any before it. The SDK
\* gives its caller no more than the state.
waitForRecord(r) == getRecord(r)

WaitNext ==
  \/ Next /\ UNCHANGED heldState
  \/ \E r \in Record : waitForAnchor(r) \/ exportRecord(r) \/ waitForRecord(r)

WaitSpec == WaitInit /\ [][WaitNext]_waitVars /\ Fairness
-----------------------------------------------------------------------------
\* An agent told anchored was given the hash of a mined transaction of its
\* record. An answer with terminal ("true if the state is final (will not
\* change anymore)", stateInfo.ts:11) is what the record says ever after, but
\* for the faults SettledIsFinal excepts. One told anchoring, which ends a wait
\* too ("Anchoring completado", records.ts:210), was told no hash, and its
\* record never goes back to pending_anchor.
AnswersHold ==
  \A r \in Record : LET ans == heldState[r] IN
    /\ ans.state = "anchored" => ans.tx \in mined /\ sent[ans.tx] = r
    /\ /\ ans.terminal
       /\ Without({"stall", "lostReply"}) /\ ~ {"crash", "db"} \subseteq may
       => row[r] = [state |-> ans.state, tx |-> ans.tx]
    /\ ans.state = "anchoring" =>
         ans.tx = NoTx /\ row[r].state # "pending_anchor"
=============================================================================
