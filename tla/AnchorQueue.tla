----------------------------- MODULE AnchorQueue -----------------------------
(***************************************************************************)
(* The anchor-v2 job queue, its workers and the reconciler                 *)
(* (src/workers/anchorV2.worker.ts), and the enqueue of acceptDeclaration, *)
(* around the anchoring steps of AnchorV2. The queue itself is BullMQ on   *)
(* Redis and is modelled from how that file uses it:                       *)
(*                                                                         *)
(*   - add with a jobId that exists is ignored, whatever state the job of  *)
(*     that id is in; a completed or failed job exists until it is evicted *)
(*     (removeOnComplete and removeOnFail keep the last KeepCompleted and  *)
(*     KeepFailed of them);                                                *)
(*   - a job whose worker died is found stalled and waits again, but fails *)
(*     when it stalls more than MaxStalled times;                          *)
(*   - attempts: 1, so a job that throws has failed for good.              *)
(*                                                                         *)
(* The job v2-<id> of a declaration is named by the declaration itself;    *)
(* the delayed jobs added without a jobId take their names from Extra. The *)
(* delays are left out: a delayed job may be taken at any time.            *)
(***************************************************************************)
EXTENDS AnchorV2, Sequences

CONSTANTS
  Extra,            \* ids for jobs added without one (a bound on their number)
  NoJob,
  KeepCompleted,    \* removeOnComplete
  KeepFailed,       \* removeOnFail
  MaxStalled,       \* BullMQ's maxStalledCount
  ReconcileLimit    \* rows listToReconcile returns at most

JobId == Decl \cup Extra

ASSUME QueueAssumption ==
  /\ Decl \cap Extra = {} /\ NoJob \notin JobId
  /\ {MaxStalled, ReconcileLimit} \subseteq Nat
  /\ {KeepCompleted, KeepFailed} \subseteq Nat \ {0}

VARIABLES
  job,         \* the queue's jobs
  completed,   \* the completed jobs still kept, oldest first
  failed,      \* the failed jobs still kept, oldest first
  runs,        \* the job each worker is processing
  requeued,    \* whether it has added the delayed job its outcome calls for
  accepting,   \* rows inserted by requests that have not enqueued them yet
  listed       \* rows the reconciler has listed and not enqueued yet

queueVars == <<job, completed, failed, runs, requeued, accepting, listed>>
allVars   == <<vars, queueVars>>

JobStatus == {"none", "waiting", "active", "completed", "failed"}
Job       == [decl : Decl \cup {NoDecl}, status : JobStatus, stalls : Nat]
NewJob    == [decl |-> NoDecl, status |-> "none", stalls |-> 0]

QueueInit ==
  /\ Init
  /\ job = [j \in JobId |-> NewJob]
  /\ completed = <<>> /\ failed = <<>>
  /\ runs = [w \in Worker |-> NoJob]
  /\ requeued = [w \in Worker |-> FALSE]
  /\ accepting = {} /\ listed = {}
-----------------------------------------------------------------------------
(***************************************************************************)
(* The queue's own operations.                                             *)
(***************************************************************************)
Waiting(d) == [decl |-> d, status |-> "waiting", stalls |-> 0]

\* The job id enqueueAnchorV2 gives a declaration, ignored when it exists.
BadEnqueueAnyway(d) ==
  job' = IF job[d].status # "waiting" THEN [job EXCEPT ![d] = Waiting(d)] ELSE job
enqueueAnchorV2(d) ==
  job' = IF job[d].status = "none" THEN [job EXCEPT ![d] = Waiting(d)] ELSE job

\* A delayed job for d, under an id of its own. Bound: when Extra has none left
\* and a job for d is already waiting, the two are counted as one.
Free         == {e \in Extra : job[e].status = "none"}
WaitingOf(d) == {j \in JobId : job[j].status = "waiting" /\ job[j].decl = d}

addDelayed(d) ==
  \/ \E e \in Free : job' = [job EXCEPT ![e] = Waiting(d)]
  \/ Free = {} /\ WaitingOf(d) # {} /\ UNCHANGED job

\* The log of kept jobs with j added and the oldest removed, and the jobs after
\* that: a removed job's id is free again.
Keep(log, j, n)    == IF Len(log) < n THEN Append(log, j) ELSE Append(Tail(log), j)
Dropped(log, n)    == IF Len(log) < n THEN {} ELSE {Head(log)}
Close(j, log, n, status) ==
  job' = [i \in JobId |-> IF i \in Dropped(log, n) THEN NewJob
                          ELSE IF i = j THEN [job[i] EXCEPT !.status = status]
                          ELSE job[i]]

Complete(j) ==
  /\ completed' = Keep(completed, j, KeepCompleted)
  /\ Close(j, completed, KeepCompleted, "completed")
  /\ UNCHANGED failed

Fail(j) ==
  /\ failed' = Keep(failed, j, KeepFailed)
  /\ Close(j, failed, KeepFailed, "failed")
  /\ UNCHANGED completed
-----------------------------------------------------------------------------
(***************************************************************************)
(* Requests: the row is inserted, then enqueued. If enqueueing throws, or  *)
(* the process dies first, the row is there without a job.                 *)
(***************************************************************************)
AcceptRequest(d) ==
  /\ Accept(d)
  /\ accepting' = accepting \cup {d}
  /\ UNCHANGED <<job, completed, failed, runs, requeued, listed>>

EnqueueAccepted(d) ==
  /\ d \in accepting
  /\ accepting' = accepting \ {d}
  /\ \/ enqueueAnchorV2(d)
     \/ "unenqueued" \in faults.may /\ UNCHANGED job
  /\ UNCHANGED <<vars, completed, failed, runs, requeued, listed>>
-----------------------------------------------------------------------------
(***************************************************************************)
(* The reconciler: every minute it lists the rows due and enqueues them    *)
(* one by one, giving up the pass when the queue throws.                   *)
(***************************************************************************)
Due == {d \in Decl : Reconcilable(row[d])}

ListToReconcile ==
  /\ listed = {}
  /\ Due # {}
  /\ \E S \in SUBSET Due :
       /\ \/ S = Due /\ Cardinality(S) <= ReconcileLimit
          \/ Cardinality(S) = ReconcileLimit
       /\ listed' = S
  /\ UNCHANGED <<vars, job, completed, failed, runs, requeued, accepting>>

BadReconcileRow(d) ==
  /\ d \in listed
  /\ listed' = listed \ {d}
  /\ row' = [row EXCEPT ![d].state = "pending", ![d].lease = "none"]
  /\ enqueueAnchorV2(d)
  /\ UNCHANGED <<chain, work, funded, faults, completed, failed, runs, requeued, accepting>>
ReconcileRow(d) ==
  /\ d \in listed
  /\ \/ enqueueAnchorV2(d) /\ listed' = listed \ {d}
     \/ "unlisted" \in faults.may /\ UNCHANGED job /\ listed' = {}
  /\ UNCHANGED <<vars, completed, failed, runs, requeued, accepting>>
-----------------------------------------------------------------------------
(***************************************************************************)
(* A worker takes a waiting job, runs anchorDeclaration, and deals with    *)
(* what it returned.                                                       *)
(***************************************************************************)
Take(w, j) ==
  /\ runs[w] = NoJob
  /\ job[j].status = "waiting"
  /\ LET d == job[j].decl IN Claim(w, d) \/ ClaimFails(w, d) \/ Skip(w, d)
  /\ job' = [job EXCEPT ![j].status = "active"]
  /\ runs' = [runs EXCEPT ![w] = j]
  /\ UNCHANGED <<completed, failed, requeued, accepting, listed>>

Anchoring(w) ==
  /\ WorkerStep(w)
  /\ work[w].pc # "done"
  /\ UNCHANGED queueVars

BadNeedsRequeue(w) == work[w].out = "paused" /\ ~requeued[w]
NeedsRequeue(w) == work[w].out \in {"paused", "retry"} /\ ~requeued[w]

\* The delayed job is added before this one completes, and belongs to the
\* same run: if adding it throws, the job fails.
Requeue(w) ==
  /\ work[w].pc = "done"
  /\ NeedsRequeue(w)
  /\ addDelayed(work[w].decl)
  /\ requeued' = [requeued EXCEPT ![w] = TRUE]
  /\ UNCHANGED <<vars, completed, failed, runs, accepting, listed>>

Release(w) ==
  /\ Finish(w)
  /\ runs' = [runs EXCEPT ![w] = NoJob]
  /\ requeued' = [requeued EXCEPT ![w] = FALSE]
  /\ UNCHANGED <<accepting, listed>>

JobCompletes(w) ==
  /\ work[w].pc = "done"
  /\ work[w].out # "threw" /\ ~NeedsRequeue(w)
  /\ Complete(runs[w])
  /\ Release(w)

JobFails(w) ==
  /\ work[w].pc = "done"
  /\ work[w].out = "threw" \/ (NeedsRequeue(w) /\ "unrequeued" \in faults.may)
  /\ Fail(runs[w])
  /\ Release(w)

WorkerDies(w) ==
  /\ Crash(w)
  /\ runs' = [runs EXCEPT ![w] = NoJob]
  /\ requeued' = [requeued EXCEPT ![w] = FALSE]
  /\ UNCHANGED <<job, completed, failed, accepting, listed>>

\* BullMQ finds an active job that no worker is processing.
Stalled(j) ==
  /\ job[j].status = "active"
  /\ \A w \in Worker : runs[w] # j
  /\ \/ /\ job[j].stalls < MaxStalled
        /\ job' = [job EXCEPT ![j].status = "waiting", ![j].stalls = @ + 1]
        /\ UNCHANGED <<completed, failed>>
     \/ job[j].stalls >= MaxStalled /\ Fail(j)
  /\ UNCHANGED <<vars, runs, requeued, accepting, listed>>

Environment ==
  /\ \/ \E d \in Decl : LeaseExpires(d)
     \/ \E t \in Tx : Mine(t)
     \/ BalanceChanges
  /\ UNCHANGED queueVars

JobStep(w) == Anchoring(w) \/ Requeue(w) \/ JobCompletes(w) \/ JobFails(w)

QueueNext ==
  \/ \E d \in Decl : AcceptRequest(d) \/ EnqueueAccepted(d) \/ ReconcileRow(d)
  \/ ListToReconcile
  \/ \E w \in Worker : JobStep(w) \/ WorkerDies(w)
  \/ \E w \in Worker, j \in JobId : Take(w, j)
  \/ \E j \in JobId : Stalled(j)
  \/ Environment

QueueSpec == QueueInit /\ [][QueueNext]_allVars

(***************************************************************************)
(* Fairness: running code goes on (awaits return: every call has a         *)
(* timeout), BullMQ hands out waiting jobs in order, so none is passed     *)
(* over for ever, and looks for stalled ones; the timer of the reconciler  *)
(* keeps firing; time passes; a broadcast transaction is mined. Faults,    *)
(* requests and the balance are not fair.                                  *)
(***************************************************************************)
QueueFairness ==
  /\ \A w \in Worker : WF_allVars(JobStep(w))
  /\ \A j \in JobId : SF_allVars(\E w \in Worker : Take(w, j))
  /\ \A j \in JobId : WF_allVars(Stalled(j))
  /\ \A d \in Decl :
       /\ WF_allVars(EnqueueAccepted(d))
       /\ WF_allVars(ReconcileRow(d))
       /\ WF_allVars(LeaseExpires(d) /\ UNCHANGED queueVars)
  /\ WF_allVars(ListToReconcile)
  /\ \A t \in Tx : WF_allVars(Mine(t) /\ UNCHANGED queueVars)

FairQueueSpec == QueueSpec /\ QueueFairness
-----------------------------------------------------------------------------
QueueTypeOK ==
  /\ job \in [JobId -> Job]
  /\ completed \in Seq(JobId) /\ Len(completed) <= KeepCompleted
  /\ failed \in Seq(JobId) /\ Len(failed) <= KeepFailed
  /\ runs \in [Worker -> JobId \cup {NoJob}]
  /\ requeued \in [Worker -> BOOLEAN]
  /\ accepting \subseteq Decl /\ listed \subseteq Decl

\* What the workers do under the queue is anchoring as AnchorV2 specifies it,
\* so all that is shown of AnchorV2 holds here.
ImplementsAnchoring == Spec

\* A job on its way that will look at the row of d again.
Coming(d) ==
  \/ \E j \in JobId : job[j].decl = d /\ job[j].status \in {"waiting", "active"}
  \/ job[d].status = "none"

\* No row depends on one job surviving (anchorV2.worker.ts:4): while a row is
\* unsettled, a job for it is on its way or the reconciler can add one. True
\* as long as no job fails and none is rerun after a crash: the reconciler's
\* add is ignored while the failed or completed job is kept.
NeverStranded ==
  faults.may \subseteq {"rpc", "prevLost", "unenqueued", "unlisted"} =>
  \A d \in Decl : row[d].state \in {"pending", "anchoring"} => Coming(d)

\* A job is processed by one worker at a time, on the row it was added for,
\* and it is active for as long as it is: BullMQ's view of who is at work and
\* the workers' own agree, through crashes, stalls and evictions; and no more
\* ended jobs are kept than the queue is told to.
JobsAgree ==
  /\ QueueTypeOK
  /\ \A w \in Worker :
       runs[w] # NoJob =>
         /\ job[runs[w]].status = "active"
         /\ job[runs[w]].decl = work[w].decl
         /\ \A v \in Worker : runs[v] = runs[w] => v = w

\* Every accepted declaration is eventually anchored or failed, if the relayer
\* is eventually funded for good.
Settles ==
  <>[]funded =>
    \A d \in Decl :
      row[d].state # "absent" ~> row[d].state \in {"anchored", "failed"}

\* "A crashed worker's lease expires, so the row is never stuck" (store.ts:46).
Stuck(d)         == row[d].state = "anchoring" /\ row[d].lease = "expired"
CrashesAreHealed == \A d \in Decl : Stuck(d) ~> ~Stuck(d)
=============================================================================
