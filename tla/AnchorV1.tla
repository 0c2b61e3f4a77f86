------------------------------ MODULE AnchorV1 ------------------------------
(***************************************************************************)
(* Anchoring of v1 records: anchorRecord and markAnchorFailed of           *)
(* src/services/anchor.ts, run by the BullMQ worker of                     *)
(* src/workers/anchor.worker.ts for the jobs of src/services/queue.ts.     *)
(*                                                                         *)
(* A record has one job (jobId: recordId). A run of the job is at one of   *)
(* these awaits:                                                           *)
(*                                                                         *)
(*   read    -> SELECT of the record                                       *)
(*   claim   -> UPDATE pending_anchor to anchoring                         *)
(*   send    -> sendTransaction                                            *)
(*   wait    -> waitForTransactionReceipt                                  *)
(*   mark    -> UPDATE to anchored, then the webhook                       *)
(*   return  -> the job completes                                          *)
(*   throw   -> the job fails: it is retried, or out of attempts           *)
(*   failed  -> markAnchorFailed in the handler of 'failed'                *)
(*                                                                         *)
(* The receipt's status is not looked at, so that a transaction is         *)
(* underway or mined here. Webhooks: told is what was dispatched.          *)
(***************************************************************************)
EXTENDS Naturals, FiniteSets

CONSTANTS
  Record, Worker,
  Tx,            \* transaction hashes
  NoTx, NoRecord,
  Attempts,      \* 5, of the queue's job options
  MaxStalled,    \* 2, maxStalledCount of the worker
  FaultSets      \* the combinations of kinds of fault a behaviour may meet

(***************************************************************************)
(* rpc        a call of the chain throws                                   *)
(* lostReply  a transaction or a statement gets through, its reply not     *)
(* db         a statement throws without having had its effect             *)
(* redis      the job cannot be added                                      *)
(* crash      the process of a run dies                                    *)
(* stall      a run is alive and loses the lock of its job                 *)
(***************************************************************************)
FaultKinds == {"rpc", "lostReply", "db", "redis", "crash", "stall"}

ASSUME AnchorV1Assumption ==
  /\ NoTx \notin Tx /\ NoRecord \notin Record
  /\ Attempts \in Nat \ {0} /\ MaxStalled \in Nat
  /\ FaultSets \subseteq SUBSET FaultKinds

VARIABLES
  row,     \* the records' state and anchor_tx_hash
  job,     \* the anchoring jobs
  run,     \* what each worker slot is doing
  sent,    \* the record each transaction was sent for
  mined,   \* the transactions that are on the chain
  sends,   \* how often sendTransaction was called for a record
  told,    \* the webhook events dispatched for a record
  may      \* the kinds of fault that may occur

vars == <<row, job, run, sent, mined, sends, told, may>>

State == {"absent", "pending_anchor", "anchoring", "anchored", "anchor_failed"}
Row   == [state : State, tx : Tx \cup {NoTx}]
Job   == [state : {"none", "waiting", "active", "completed", "failed"},
          made : 0..Attempts, stalls : 0..(MaxStalled + 1)]
PC    == {"idle", "read", "claim", "send", "wait", "mark", "return", "throw",
          "failed"}
Run   == [pc : PC, rec : Record \cup {NoRecord}, tx : Tx \cup {NoTx},
          locked : BOOLEAN]
Event == {"anchored", "anchor_failed"}

Idle == [pc |-> "idle", rec |-> NoRecord, tx |-> NoTx, locked |-> FALSE]

Init ==
  /\ row = [r \in Record |-> [state |-> "absent", tx |-> NoTx]]
  /\ job = [r \in Record |-> [state |-> "none", made |-> 0, stalls |-> 0]]
  /\ run = [w \in Worker |-> Idle]
  /\ sent = [t \in Tx |-> NoRecord] /\ mined = {}
  /\ sends = [r \in Record |-> 0]
  /\ told = [r \in Record |-> {}]
  /\ may \in FaultSets
-----------------------------------------------------------------------------
At(w, pc)   == run[w].pc = pc
Goto(w, pc) == run' = [run EXCEPT ![w].pc = pc]
rec(w)      == run[w].rec
Throws(w)   == Goto(w, "throw")

\* A webhook is dispatched, or its failure swallowed.
Dispatch(r, event) ==
  \/ told' = [told EXCEPT ![r] = @ \cup {event}]
  \/ UNCHANGED told

\* createRecord: the row, then its job, whose loss is only logged.
Create(r) ==
  /\ row[r].state = "absent"
  /\ row' = [row EXCEPT ![r].state = "pending_anchor"]
  /\ \/ job' = [job EXCEPT ![r].state = "waiting"]
     \/ "redis" \in may /\ UNCHANGED job
  /\ UNCHANGED <<run, sent, mined, sends, told, may>>

\* A job that has stalled too often is failed without being run.
Take(w, r) ==
  /\ At(w, "idle") /\ job[r].state = "waiting"
  /\ IF job[r].stalls <= MaxStalled
       THEN /\ job' = [job EXCEPT ![r].state = "active"]
            /\ run' = [run EXCEPT ![w] =
                 [pc |-> "read", rec |-> r, tx |-> NoTx, locked |-> TRUE]]
       ELSE /\ job' = [job EXCEPT ![r].state = "failed", ![r].made = @ + 1]
            /\ run' = IF job[r].made + 1 < Attempts THEN run
                      ELSE [run EXCEPT ![w] = [Idle EXCEPT !.pc = "failed",
                                                           !.rec = r]]
  /\ UNCHANGED <<row, sent, mined, sends, told, may>>

\* "If the record is already anchored, it does nothing."
BadRead(w) ==
  /\ At(w, "read")
  /\ Goto(w, IF row[rec(w)].state = "anchored" THEN "send" ELSE "claim")
  /\ UNCHANGED <<row, job, sent, mined, sends, told, may>>
Read(w) ==
  /\ At(w, "read")
  /\ \/ row[rec(w)].state = "anchored" /\ Goto(w, "return")
     \/ /\ row[rec(w)].state # "anchored"
        /\ run' = [run EXCEPT ![w].pc = "claim", ![w].tx = row[rec(w)].tx]
     \/ "db" \in may /\ Throws(w)
  /\ UNCHANGED <<row, job, sent, mined, sends, told, may>>

\* run.tx is what the SELECT saw in the row; a record with a transaction and a
\* state other than anchored is one that markAnchorFailed has overwritten.
BadClaim(w) ==
  /\ At(w, "claim")
  /\ IF row[rec(w)].state \in {"pending_anchor", "anchoring"}
       THEN /\ row' = [row EXCEPT ![rec(w)].state = "anchoring"]
            /\ Goto(w, "send")
       ELSE UNCHANGED row /\ Throws(w)
  /\ UNCHANGED <<job, sent, mined, sends, told, may>>
Claim(w) ==
  /\ At(w, "claim")
  /\ LET r == rec(w)
         claim == row' = [row EXCEPT ![r].state = "anchoring"] IN
       \/ row[r].state = "pending_anchor" /\ claim /\ Goto(w, "send")
       \/ /\ row[r].state # "pending_anchor"
          /\ UNCHANGED row
          /\ IF run[w].tx # NoTx THEN Goto(w, "return") ELSE Throws(w)
       \/ /\ "lostReply" \in may /\ row[r].state = "pending_anchor"
          /\ claim /\ Throws(w)
       \/ "db" \in may /\ UNCHANGED row /\ Throws(w)
  /\ UNCHANGED <<job, sent, mined, sends, told, may>>

Send(w) ==
  /\ At(w, "send")
  /\ sends' = [sends EXCEPT ![rec(w)] = @ + 1]
  /\ \/ \E t \in Tx :
          /\ sent[t] = NoRecord
          /\ sent' = [sent EXCEPT ![t] = rec(w)]
          /\ \/ run' = [run EXCEPT ![w].pc = "wait", ![w].tx = t]
             \/ "lostReply" \in may /\ Throws(w)
     \/ "rpc" \in may /\ UNCHANGED sent /\ Throws(w)
  /\ UNCHANGED <<row, job, mined, told, may>>

BadAwaitReceipt(w) ==
  /\ At(w, "wait")
  /\ Goto(w, "mark")
  /\ UNCHANGED <<row, job, sent, mined, sends, told, may>>
AwaitReceipt(w) ==
  /\ At(w, "wait")
  /\ \/ run[w].tx \in mined /\ Goto(w, "mark")
     \/ "rpc" \in may /\ Throws(w)
  /\ UNCHANGED <<row, job, sent, mined, sends, told, may>>

\* The UPDATE has no condition on the state.
MarkAnchored(w) ==
  /\ At(w, "mark")
  /\ LET r == rec(w)
         mark == row' = [row EXCEPT ![r] = [state |-> "anchored",
                                            tx |-> run[w].tx]] IN
       \/ mark /\ Dispatch(r, "anchored") /\ Goto(w, "return")
       \/ "lostReply" \in may /\ mark /\ Throws(w) /\ UNCHANGED told
       \/ "db" \in may /\ Throws(w) /\ UNCHANGED <<row, told>>
  /\ UNCHANGED <<job, sent, mined, sends, may>>

\* What a run that has lost its lock returns or throws is ignored.
BadReturn(w) ==
  /\ At(w, "return")
  /\ job' = [job EXCEPT ![rec(w)].state = "completed"]
  /\ run' = [run EXCEPT ![w] = Idle]
  /\ UNCHANGED <<row, sent, mined, sends, told, may>>
Return(w) ==
  /\ At(w, "return")
  /\ job' = IF run[w].locked THEN [job EXCEPT ![rec(w)].state = "completed"]
            ELSE job
  /\ run' = [run EXCEPT ![w] = Idle]
  /\ UNCHANGED <<row, sent, mined, sends, told, may>>

BadThrow(w) ==
  /\ At(w, "throw")
  /\ LET r == rec(w)  out == job[r].made + 1 >= Attempts IN
       /\ job' = IF run[w].locked
                   THEN [job EXCEPT ![r].made = @ + 1,
                           ![r].state = IF out THEN "failed" ELSE "waiting"]
                   ELSE job
       /\ run' = [run EXCEPT ![w] = Idle]
  /\ UNCHANGED <<row, sent, mined, sends, told, may>>
Throw(w) ==
  /\ At(w, "throw")
  /\ LET r == rec(w)  out == job[r].made + 1 >= Attempts IN
       IF run[w].locked
         THEN /\ job' = [job EXCEPT ![r].made = @ + 1,
                           ![r].state = IF out THEN "failed" ELSE "waiting"]
              /\ run' = [run EXCEPT ![w] =
                   IF out THEN [Idle EXCEPT !.pc = "failed", !.rec = r]
                   ELSE Idle]
         ELSE UNCHANGED job /\ run' = [run EXCEPT ![w] = Idle]
  /\ UNCHANGED <<row, sent, mined, sends, told, may>>

\* This UPDATE has no condition either.
MarkAnchorFailed(w) ==
  /\ At(w, "failed")
  /\ run' = [run EXCEPT ![w] = Idle]
  /\ \/ /\ row' = [row EXCEPT ![rec(w)].state = "anchor_failed"]
        /\ Dispatch(rec(w), "anchor_failed")
     \/ "db" \in may /\ UNCHANGED <<row, told>>
  /\ UNCHANGED <<job, sent, mined, sends, may>>
-----------------------------------------------------------------------------
\* The chain.
Mine(t) ==
  /\ sent[t] # NoRecord /\ t \notin mined
  /\ mined' = mined \cup {t}
  /\ UNCHANGED <<row, job, run, sent, sends, told, may>>

Crash(w) ==
  /\ "crash" \in may /\ ~At(w, "idle")
  /\ run' = [run EXCEPT ![w] = Idle]
  /\ UNCHANGED <<row, job, sent, mined, sends, told, may>>

\* BullMQ finds an active job without a lock and puts it back.
Stalled(r) ==
  /\ job[r].state = "active"
  /\ "stall" \in may \/ \A w \in Worker : ~(run[w].locked /\ rec(w) = r)
  /\ job' = [job EXCEPT ![r].state = "waiting", ![r].stalls = @ + 1]
  /\ run' = [w \in Worker |->
       IF rec(w) = r THEN [run[w] EXCEPT !.locked = FALSE] ELSE run[w]]
  /\ UNCHANGED <<row, sent, mined, sends, told, may>>

WorkerStep(w) ==
  \/ Read(w) \/ Claim(w) \/ Send(w) \/ AwaitReceipt(w) \/ MarkAnchored(w)
  \/ Return(w) \/ Throw(w) \/ MarkAnchorFailed(w)

Next ==
  \/ \E w \in Worker : WorkerStep(w) \/ Crash(w) \/ \E r \in Record : Take(w, r)
  \/ \E r \in Record : Create(r) \/ Stalled(r)
  \/ \E t \in Tx : Mine(t)

\* Workers go on, jobs are picked up, transactions get mined, BullMQ looks for
\* stalled jobs; nothing need be submitted and nothing need fail.
Fairness ==
  /\ \A w \in Worker : WF_vars(WorkerStep(w))
  /\ WF_vars(\E w \in Worker, r \in Record : Take(w, r))
  /\ \A r \in Record : WF_vars(Stalled(r))
  /\ \A t \in Tx : WF_vars(Mine(t))

Spec     == Init /\ [][Next]_vars
FairSpec == Spec /\ Fairness
-----------------------------------------------------------------------------
Without(kinds) == kinds \cap may = {}
Settled(r)     == row[r].state \in {"anchored", "anchor_failed"}
TxOf(r)        == {t \in Tx : sent[t] = r}

\* The state is well formed; the lock of a job is held by at most one run, and
\* only while the job is active.
TypeOK ==
  /\ row \in [Record -> Row] /\ job \in [Record -> Job]
  /\ run \in [Worker -> Run]
  /\ sent \in [Tx -> Record \cup {NoRecord}] /\ mined \subseteq Tx
  /\ sends \in [Record -> Nat] /\ told \in [Record -> SUBSET Event]
  /\ may \in FaultSets
  /\ \A w \in Worker : run[w].locked => job[rec(w)].state = "active"
  /\ \A v, w \in Worker : run[v].locked /\ run[w].locked /\ rec(v) = rec(w)
                            => v = w

\* "Idempotent anchoring", the claim that "prevents double execution": whatever
\* fails and however often the job is run again, a record's transaction is
\* sent once at most, and never for a record that is anchored already.
SentOnce ==
  \A r \in Record :
    /\ sends[r] <= 1
    /\ \A w \in Worker : At(w, "send") /\ rec(w) = r =>
         row[r].tx = NoTx /\ sends[r] = 0

\* The transaction a record shows was sent for it and is on the chain, and an
\* agent told "anchored" finds it in the record, whatever comes later.
AnchoredOnChain ==
  \A r \in Record :
    /\ row[r].tx # NoTx => sent[row[r].tx] = r /\ row[r].tx \in mined
    /\ row[r].state = "anchored" \/ "anchored" \in told[r] => row[r].tx # NoTx

\* No state comes after anchored or anchor_failed, although neither UPDATE asks
\* for the state: true unless a run outlives its lock, or a record's job goes on
\* failing after the UPDATE to anchored got through without its reply, or
\* without the job being completed.
SettledIsFinal ==
  [][\A r \in Record :
       /\ Without({"stall", "lostReply"}) /\ ~ {"crash", "db"} \subseteq may
       /\ Settled(r)
       => row'[r] = row[r]]_vars

\* A job that has ended leaves its record settled, or about to be: completed
\* means on the chain, always; failed means marked so, but for processes that
\* die, stalls, and a database that fails the marking.
EndedJobsSettle ==
  \A r \in Record :
    /\ job[r].state = "completed" => row[r].tx \in mined
    /\ job[r].state = "failed" /\ Without({"crash", "stall", "db"}) =>
         \/ row[r].state = "anchor_failed"
         \/ \E w \in Worker : At(w, "failed") /\ rec(w) = r

\* A record whose job was added is anchored or marked failed in the end, if
\* processes live and the database answers.
EventuallySettled ==
  Without({"crash", "stall", "db", "redis"}) =>
    \A r \in Record : row[r].state = "pending_anchor" ~> Settled(r)

\* "All retry attempts exhausted" (developer-guide-v1.md:505): a record marked
\* anchor_failed was tried as often as there are attempts.
FailedMeansTried ==
  \A r \in Record :
    row[r].state = "anchor_failed" => sends[r] = Attempts
=============================================================================
