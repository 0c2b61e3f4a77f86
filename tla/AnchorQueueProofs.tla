-------------------------- MODULE AnchorQueueProofs --------------------------
(***************************************************************************)
(* The queue implements anchoring as AnchorV2 specifies it, its jobs and   *)
(* its workers agree, and while no job fails or is lost no declaration is  *)
(* stranded: for any declarations, workers, transactions, extra jobs and   *)
(* limits.                                                                 *)
(***************************************************************************)
EXTENDS AnchorQueue, AnchorV2Proofs

(***************************************************************************)
(* The queue and the workers. A worker is busy exactly when it has a job,  *)
(* which is then active, its own, and for the row it works on; the kept    *)
(* jobs are those that ended, each once.                                   *)
(***************************************************************************)
Busy(w) ==
  /\ runs[w] = NoJob <=> work[w].pc = "idle"
  /\ runs[w] # NoJob =>
       /\ job[runs[w]].status = "active"
       /\ job[runs[w]].decl = work[w].decl
       /\ \A v \in Worker : runs[v] = runs[w] => v = w
  /\ requeued[w] => work[w].pc = "done"

Logged(log, status) ==
  \A i \in 1..Len(log) :
    /\ job[log[i]].status = status
    /\ \A k \in 1..Len(log) : log[i] = log[k] => i = k

JobInv ==
  /\ QueueTypeOK
  /\ \A j \in JobId : job[j].status # "none" => job[j].decl \in Decl
  /\ \A w \in Worker : Busy(w)
  /\ Logged(completed, "completed") /\ Logged(failed, "failed")

(***************************************************************************)
(* A row that was never accepted has no job and is not about to get one.   *)
(***************************************************************************)
AbsentInv ==
  \A d \in Decl : row[d].state = "absent" =>
    job[d].status = "none" /\ d \notin accepting \cup listed

(***************************************************************************)
(* While no job fails or is lost: an unsettled row has a job waiting, or a *)
(* worker that holds it or will requeue it, or can be enqueued; a row      *)
(* being anchored has a worker that holds it; and no job has thrown.       *)
(***************************************************************************)
Calm == faults.may \subseteq {"rpc", "prevLost", "unenqueued", "unlisted"}

Serves(w, d) ==
  Holds(w, d) \/ (work[w].pc = "done" /\ work[w].decl = d /\ NeedsRequeue(w))
Served(d) ==
  job[d].status = "none" \/ WaitingOf(d) # {} \/ \E w \in Worker : Serves(w, d)

ServedRow(d) ==
  /\ row[d].state \in {"pending", "anchoring"} => Served(d)
  /\ row[d].state = "anchoring" => Holders(d) # {}

ServedInv ==
  Calm => \A d \in Decl :
            /\ ServedRow(d)
            /\ \A w \in Worker : work[w].pc = "done" => work[w].out # "threw"
-----------------------------------------------------------------------------
LEMMA JobInit == QueueInit => JobInv
<1>1. NewJob \in Job
  BY DEF NewJob, Job, JobStatus
<1>2. QED
  BY <1>1, QueueAssumption
     DEF QueueInit, Init, JobInv, QueueTypeOK, Busy, Logged, Idle, NewJob, JobId
(***************************************************************************)
(* Every step of the queue is one of AnchorV2, or leaves it alone.         *)
(***************************************************************************)
LEMMA TakeAnchors ==
  ASSUME JobInv, NEW w \in Worker, NEW j \in JobId, Take(w, j)
  PROVE  \E d \in Decl : d = job[j].decl /\ (Claim(w, d) \/ ClaimFails(w, d) \/ Skip(w, d))
<1>1. job[j].decl \in Decl
  BY DEF JobInv, Take
<1>2. QED
  BY <1>1 DEF Take

LEMMA QueueStep == JobInv /\ [QueueNext]_allVars => [Next]_vars
<1> SUFFICES ASSUME JobInv, QueueNext \/ UNCHANGED allVars PROVE [Next]_vars
  OBVIOUS
<1>1. ASSUME NEW d \in Decl, AcceptRequest(d) PROVE Next
  BY <1>1 DEF AcceptRequest, Next
<1>2. ASSUME NEW d \in Decl, EnqueueAccepted(d) \/ ReconcileRow(d)
      PROVE  UNCHANGED vars
  BY <1>2 DEF EnqueueAccepted, ReconcileRow
<1>3. ASSUME NEW w \in Worker, JobStep(w) \/ WorkerDies(w)
      PROVE  Next \/ UNCHANGED vars
  BY <1>3 DEF JobStep, Anchoring, Requeue, JobCompletes, JobFails, Release,
              WorkerDies, WorkerStep, Next
<1>4. ASSUME NEW w \in Worker, NEW j \in JobId, Take(w, j) PROVE Next
  BY <1>4, TakeAnchors DEF Next
<1>5. CASE Environment
  BY <1>5 DEF Environment, Next
<1>6. CASE ListToReconcile \/ (\E j \in JobId : Stalled(j)) \/ UNCHANGED allVars
  BY <1>6 DEF ListToReconcile, Stalled, allVars
<1>7. QED
  BY <1>1, <1>2, <1>3, <1>4, <1>5, <1>6 DEF QueueNext
-----------------------------------------------------------------------------
(***************************************************************************)
(* The queue's own operations, on jobs.                                    *)
(***************************************************************************)

\* What appending to a log of kept jobs, with the oldest removed, makes of it.
LEMMA KeepLog ==
  ASSUME NEW log \in Seq(JobId), NEW n \in Nat \ {0}, Len(log) <= n, NEW j \in JobId
  PROVE  /\ Keep(log, j, n) \in Seq(JobId)
         /\ Len(Keep(log, j, n)) <= n
         /\ Len(log) < n =>
              /\ Len(Keep(log, j, n)) = Len(log) + 1
              /\ \A i \in 1..Len(log) : Keep(log, j, n)[i] = log[i]
              /\ Keep(log, j, n)[Len(log) + 1] = j
         /\ ~(Len(log) < n) =>
              /\ Len(log) > 0 /\ Len(Keep(log, j, n)) = Len(log)
              /\ \A i \in 1..(Len(log) - 1) : Keep(log, j, n)[i] = log[i + 1]
              /\ Keep(log, j, n)[Len(log)] = j
<1>1. CASE Len(log) < n
  BY <1>1 DEF Keep
<1>2. CASE ~(Len(log) < n)
  <2>1. Len(log) = n /\ log # <<>>
    BY <1>2
  <2>2. /\ Tail(log) \in Seq(JobId) /\ Len(Tail(log)) = n - 1
        /\ \A i \in 1..(n - 1) : Tail(log)[i] = log[i + 1]
    BY <2>1
  <2>3. Keep(log, j, n) = Append(Tail(log), j)
    BY <1>2 DEF Keep
  <2>4. QED
    BY <2>1, <2>2, <2>3
<1>3. QED
  BY <1>1, <1>2

\* A new job under an id that has none.
LEMMA AddJob ==
  ASSUME JobInv, NEW j \in JobId, NEW d \in Decl,
         job[j].status = "none", job' = [job EXCEPT ![j] = Waiting(d)]
  PROVE  /\ job' \in [JobId -> Job]
         /\ \A i \in JobId : job'[i].status # "none" => job'[i].decl \in Decl
         /\ job'[j].status = "waiting" /\ job'[j].decl = d
         /\ \A i \in JobId : job[i].status # "none" => job'[i] = job[i]
         /\ \A i \in JobId : i # j => job'[i] = job[i]
<1>1. Waiting(d) \in Job /\ Waiting(d).status = "waiting" /\ Waiting(d).decl = d
  BY DEF Waiting, Job, JobStatus
<1>2. QED
  BY <1>1 DEF JobInv, QueueTypeOK

\* Jobs that exist keep, workers and logs too: all is well.
LEMMA JobsStay ==
  ASSUME JobInv, QueueTypeOK',
         \A i \in JobId : job'[i].status # "none" => job'[i].decl \in Decl,
         \A i \in JobId : job[i].status # "none" => job'[i] = job[i],
         UNCHANGED <<work, runs, requeued, completed, failed>>
  PROVE  JobInv'
<1>1. ASSUME NEW w \in Worker PROVE Busy(w)'
  <2>1. runs[w] # NoJob => runs[w] \in JobId /\ job'[runs[w]] = job[runs[w]]
    BY DEF JobInv, Busy, QueueTypeOK
  <2>2. QED
    BY <2>1 DEF JobInv, Busy
<1>2. Logged(completed, "completed")'
  BY DEF JobInv, Logged, QueueTypeOK
<1>3. Logged(failed, "failed")'
  BY DEF JobInv, Logged, QueueTypeOK
<1>4. QED
  BY <1>1, <1>2, <1>3 DEF JobInv

\* A job that ends is logged, and the one it displaces is free again; all
\* others stay as they are.
LEMMA CloseJob ==
  ASSUME JobInv, NEW log \in Seq(JobId), NEW n \in Nat \ {0}, Len(log) <= n,
         NEW status \in {"completed", "failed"}, Logged(log, status),
         NEW j \in JobId, job[j].status = "active", Close(j, log, n, status)
  PROVE  /\ job' \in [JobId -> Job]
         /\ \A i \in JobId : job'[i].status # "none" => job'[i].decl \in Decl
         /\ \A i \in JobId : i # j /\ job[i].status # status => job'[i] = job[i]
         /\ \A i \in JobId : job'[i].status = "waiting" <=> job[i].status = "waiting"
         /\ \A i \in JobId : job[i].status = "none" => job'[i].status = "none"
         /\ Keep(log, j, n) \in Seq(JobId) /\ Len(Keep(log, j, n)) <= n
         /\ \A i \in 1..Len(Keep(log, j, n)) :
              /\ job'[Keep(log, j, n)[i]].status = status
              /\ \A k \in 1..Len(Keep(log, j, n)) :
                   Keep(log, j, n)[i] = Keep(log, j, n)[k] => i = k
<1> DEFINE new == Keep(log, j, n)
           D   == Dropped(log, n)
<1>1. /\ new \in Seq(JobId) /\ Len(new) <= n
      /\ Len(log) < n =>
           /\ Len(new) = Len(log) + 1 /\ new[Len(log) + 1] = j
           /\ \A i \in 1..Len(log) : new[i] = log[i]
      /\ ~(Len(log) < n) =>
           /\ Len(log) > 0 /\ Len(new) = Len(log) /\ new[Len(log)] = j
           /\ \A i \in 1..(Len(log) - 1) : new[i] = log[i + 1]
  BY KeepLog
<1>2. D = IF Len(log) < n THEN {} ELSE {log[1]}
  BY DEF Dropped
<1>3. \A i \in 1..Len(log) : /\ log[i] \in JobId /\ log[i] # j
                             /\ job[log[i]].status = status
                             /\ \A k \in 1..Len(log) : log[i] = log[k] => i = k
  BY DEF Logged
<1>4. /\ NewJob \in Job /\ NewJob.status = "none"
      /\ [job[j] EXCEPT !.status = status] \in Job
      /\ [job[j] EXCEPT !.status = status].status = status
      /\ [job[j] EXCEPT !.status = status].decl = job[j].decl
      /\ job[j].decl \in Decl /\ job \in [JobId -> Job]
  BY DEF NewJob, Job, JobStatus, JobInv, QueueTypeOK
<1>5. \A i \in JobId : job'[i] = IF i \in D THEN NewJob
                                 ELSE IF i = j THEN [job[j] EXCEPT !.status = status]
                                 ELSE job[i]
  BY DEF Close
<1>6. j \notin D /\ \A i \in D : job[i].status = status
  BY <1>1, <1>2, <1>3
<1>7. job' \in [JobId -> Job]
  BY <1>4 DEF Close
<1>8. job'[j].status = status
  BY <1>4, <1>5, <1>6
<1> HIDE DEF new, D
<1>9. /\ \A i \in JobId : job'[i].status # "none" => job'[i].decl \in Decl
      /\ \A i \in JobId : i # j /\ job[i].status # status => job'[i] = job[i]
  BY <1>4, <1>5, <1>6 DEF JobInv
<1>10. /\ \A i \in JobId : job'[i].status = "waiting" <=> job[i].status = "waiting"
       /\ \A i \in JobId : job[i].status = "none" => job'[i].status = "none"
  BY <1>4, <1>5, <1>6, <1>8
<1>11. ASSUME NEW i \in 1..Len(new)
       PROVE  /\ job'[new[i]].status = status
              /\ \A k \in 1..Len(new) : new[i] = new[k] => i = k
  <2>1. CASE Len(log) < n
    <3>1. \A k \in 1..Len(log) : job'[log[k]].status = status
      BY <1>2, <1>3, <1>5, <2>1
    <3>2. QED
      BY <1>1, <1>3, <1>8, <2>1, <3>1
  <2>2. CASE ~(Len(log) < n)
    <3>1. \A k \in 2..Len(log) : job'[log[k]].status = status
      <4>1. ASSUME NEW k \in 2..Len(log) PROVE job'[log[k]] = job[log[k]]
        <5>1. log[k] # log[1] /\ log[k] # j /\ log[k] \in JobId
          BY <1>1, <1>3, <2>2
        <5>2. QED
          BY <1>2, <1>5, <2>2, <5>1
      <4>2. QED
        BY <1>3, <4>1
    <3>2. i = Len(log) \/ (i \in 1..(Len(log) - 1) /\ i + 1 \in 2..Len(log))
      BY <1>1, <2>2
    <3>3. job'[new[i]].status = status
      BY <1>1, <1>8, <2>2, <3>1, <3>2
    <3>4. ASSUME NEW k \in 1..Len(new), new[i] = new[k] PROVE i = k
      <4>1. k = Len(log) \/ (k \in 1..(Len(log) - 1) /\ k + 1 \in 2..Len(log))
        BY <1>1, <2>2
      <4>2. CASE i = Len(log) \/ k = Len(log)
        BY <1>1, <1>3, <2>2, <3>2, <3>4, <4>1, <4>2
      <4>3. CASE i \in 1..(Len(log) - 1) /\ k \in 1..(Len(log) - 1)
        <5>1. log[i + 1] = log[k + 1]
          BY <1>1, <2>2, <3>4, <4>3
        <5>2. i + 1 \in 1..Len(log) /\ k + 1 \in 1..Len(log)
          BY <4>3
        <5>3. i + 1 = k + 1
          BY <1>3, <5>1, <5>2
        <5>4. QED
          BY <4>3, <5>3
      <4>4. QED
        BY <3>2, <4>1, <4>2, <4>3
    <3>5. QED
      BY <3>3, <3>4
  <2>3. QED
    BY <2>1, <2>2
<1>12. QED
  BY <1>1, <1>7, <1>9, <1>10, <1>11 DEF new

\* A log is left alone when a job of the other kind ends.
LEMMA OtherLog ==
  ASSUME JobInv, NEW log \in Seq(JobId), NEW j \in JobId, NEW status, NEW other,
         Logged(log, other), other # status, job[j].status = "active", other # "active",
         \A i \in JobId : i # j /\ job[i].status # status => job'[i] = job[i]
  PROVE  \A i \in 1..Len(log) : /\ job'[log[i]].status = other
                                /\ \A k \in 1..Len(log) : log[i] = log[k] => i = k
BY DEF Logged

LEMMA EndJob ==
  ASSUME JobInv, NEW j \in JobId, job[j].status = "active", Complete(j) \/ Fail(j)
  PROVE  /\ job' \in [JobId -> Job]
         /\ \A i \in JobId : job'[i].status # "none" => job'[i].decl \in Decl
         /\ \A i \in JobId : i # j /\ job[i].status = "active" => job'[i] = job[i]
         /\ \A i \in JobId : job'[i].status = "waiting" <=> job[i].status = "waiting"
         /\ \A i \in JobId : job[i].status = "none" => job'[i].status = "none"
         /\ \A i \in JobId : job[i].status = "waiting" => job'[i] = job[i]
         /\ completed' \in Seq(JobId) /\ Len(completed') <= KeepCompleted
         /\ failed' \in Seq(JobId) /\ Len(failed') <= KeepFailed
         /\ Logged(completed, "completed")' /\ Logged(failed, "failed")'
<1>1. /\ completed \in Seq(JobId) /\ Len(completed) <= KeepCompleted
      /\ failed \in Seq(JobId) /\ Len(failed) <= KeepFailed
      /\ Logged(completed, "completed") /\ Logged(failed, "failed")
      /\ KeepCompleted \in Nat \ {0} /\ KeepFailed \in Nat \ {0}
  BY QueueAssumption DEF JobInv, QueueTypeOK
<1>2. CASE Complete(j)
  <2>1. /\ completed' = Keep(completed, j, KeepCompleted) /\ failed' = failed
        /\ Close(j, completed, KeepCompleted, "completed")
    BY <1>2 DEF Complete
  <2>2. Logged(completed, "completed")'
    BY <1>1, <2>1, CloseJob DEF Logged
  <2>3. \A i \in JobId : i # j /\ job[i].status # "completed" => job'[i] = job[i]
    BY <1>1, <2>1, CloseJob
  <2>4. Logged(failed, "failed")'
    BY <1>1, <2>1, <2>3, OtherLog DEF Logged
  <2>5. QED
    BY <1>1, <2>1, <2>2, <2>4, CloseJob
<1>3. CASE Fail(j)
  <2>1. /\ failed' = Keep(failed, j, KeepFailed) /\ completed' = completed
        /\ Close(j, failed, KeepFailed, "failed")
    BY <1>3 DEF Fail
  <2>2. Logged(failed, "failed")'
    BY <1>1, <2>1, CloseJob DEF Logged
  <2>3. \A i \in JobId : i # j /\ job[i].status # "failed" => job'[i] = job[i]
    BY <1>1, <2>1, CloseJob
  <2>4. Logged(completed, "completed")'
    BY <1>1, <2>1, <2>3, OtherLog DEF Logged
  <2>5. QED
    BY <1>1, <2>1, <2>2, <2>4, CloseJob
<1>4. QED
  BY <1>2, <1>3
-----------------------------------------------------------------------------
(***************************************************************************)
(* The queue and its workers agree.                                        *)
(***************************************************************************)

\* Between taking a job and returning, a worker stays with its declaration.
LEMMA AnchoringShape ==
  ASSUME TypeInv, NEW w \in Worker, Anchoring(w)
  PROVE  /\ Others(w) /\ work'[w].decl = work[w].decl
         /\ work[w].pc \notin {"idle", "done"} /\ work'[w].pc # "idle"
<1>1. ASSUME NEW pc \in PC \ {"idle"}, Goto(w, pc)
      PROVE  Others(w) /\ work'[w].decl = work[w].decl /\ work'[w].pc # "idle"
  BY <1>1, GotoShape DEF TypeInv
<1>2. ASSUME NEW o \in Outcome, Return(w, o)
      PROVE  Others(w) /\ work'[w].decl = work[w].decl /\ work'[w].pc # "idle"
  BY <1>2 DEF Return, Others, TypeInv, GoodWork, Work
<1>3. ASSUME NEW t \in Tx, work' = [work EXCEPT ![w].pc = "record", ![w].tx = t]
      PROVE  Others(w) /\ work'[w].decl = work[w].decl /\ work'[w].pc # "idle"
  BY <1>3 DEF Others, TypeInv, GoodWork, Work
<1>4. ~Finish(w) /\ WorkerStep(w)
  BY DEF Anchoring, Finish
<1>5. work[w].pc \notin {"idle", "done"}
  BY <1>4 DEF WorkerStep, CheckPrev, MarkAnchored, CheckBalance, ReleaseClaim, Send,
              RecordSentTx, AwaitReceipt, MarkAttemptFailed
<1>6. CASE CheckPrev(w) \/ CheckBalance(w) \/ AwaitReceipt(w) \/ RecordSentTx(w)
  BY <1>1, <1>5, <1>6 DEF CheckPrev, CheckBalance, AwaitReceipt, RecordSentTx, PC
<1>7. CASE MarkAnchored(w) \/ ReleaseClaim(w) \/ MarkAttemptFailed(w)
  BY <1>1, <1>2, <1>5, <1>7
     DEF MarkAnchored, ReleaseClaim, MarkAttemptFailed, Statement, PC, Outcome
<1>8. CASE Send(w)
  BY <1>1, <1>3, <1>5, <1>8 DEF Send, PC
<1>9. QED
  BY <1>4, <1>6, <1>7, <1>8 DEF WorkerStep

\* The other workers go on with their jobs.
LEMMA BusyStays ==
  ASSUME JobInv, NEW w \in Worker, NEW v \in Worker, v # w, Others(w),
         runs'[v] = runs[v], requeued'[v] = requeued[v],
         runs[v] # NoJob => job'[runs[v]] = job[runs[v]],
         \A u \in Worker : runs[v] # NoJob /\ runs'[u] = runs[v] => u = v
  PROVE  Busy(v)'
BY DEF JobInv, Busy, Others

\* enqueueAnchorV2 and addDelayed keep the agreement.
LEMMA EnqueueKeeps ==
  ASSUME JobInv, NEW d \in Decl,
         enqueueAnchorV2(d) \/ addDelayed(d) \/ UNCHANGED job,
         UNCHANGED <<work, runs, completed, failed>>,
         accepting' \subseteq Decl, listed' \subseteq Decl
  PROVE  /\ requeued' = requeued => JobInv'
         /\ \A j \in JobId : job[j].status # "none" => job'[j] = job[j]
         /\ \A j \in Decl : j # d => job'[j] = job[j]
         /\ job' \in [JobId -> Job]
         /\ \A i \in JobId : job'[i].status # "none" => job'[i].decl \in Decl
<1>1. \/ job' = job
      \/ \E j \in JobId : /\ job[j].status = "none" /\ job' = [job EXCEPT ![j] = Waiting(d)]
                          /\ j \in Decl => j = d
  BY QueueAssumption DEF enqueueAnchorV2, addDelayed, Free, JobId
<1>2. /\ job' \in [JobId -> Job]
      /\ \A i \in JobId : job'[i].status # "none" => job'[i].decl \in Decl
      /\ \A i \in JobId : job[i].status # "none" => job'[i] = job[i]
      /\ \A j \in Decl : j # d => job'[j] = job[j]
  <2>1. CASE job' = job
    BY <2>1 DEF JobInv, QueueTypeOK
  <2>2. ASSUME NEW j \in JobId, job[j].status = "none",
               job' = [job EXCEPT ![j] = Waiting(d)], j \in Decl => j = d
        PROVE  /\ job' \in [JobId -> Job]
               /\ \A i \in JobId : job'[i].status # "none" => job'[i].decl \in Decl
               /\ \A i \in JobId : job[i].status # "none" => job'[i] = job[i]
               /\ \A i \in Decl : i # d => job'[i] = job[i]
    BY <2>2, AddJob DEF JobId
  <2>3. QED
    BY <1>1, <2>1, <2>2
<1>3. ASSUME requeued' = requeued PROVE JobInv'
  <2>1. QueueTypeOK'
    BY <1>2, <1>3 DEF JobInv, QueueTypeOK
  <2>2. QED
    BY <1>2, <1>3, <2>1, JobsStay
<1>4. QED
  BY <1>2, <1>3

LEMMA QuietKeeps ==
  ASSUME JobInv, UNCHANGED <<job, work, runs, requeued, completed, failed>>,
         accepting' \subseteq Decl, listed' \subseteq Decl
  PROVE  JobInv'
<1>1. QueueTypeOK'
  BY DEF JobInv, QueueTypeOK
<1>2. QED
  BY <1>1, JobsStay DEF JobInv

LEMMA AnchoringKeeps ==
  ASSUME TypeInv, JobInv, NEW w \in Worker, Anchoring(w)
  PROVE  JobInv'
<1>1. /\ Others(w) /\ work'[w].decl = work[w].decl
      /\ work[w].pc \notin {"idle", "done"} /\ work'[w].pc # "idle"
      /\ UNCHANGED queueVars
  BY AnchoringShape DEF Anchoring
<1>2. ASSUME NEW v \in Worker PROVE Busy(v)'
  BY <1>1 DEF JobInv, Busy, Others, queueVars
<1>3. QueueTypeOK' /\ Logged(completed, "completed")' /\ Logged(failed, "failed")'
  BY <1>1 DEF JobInv, QueueTypeOK, Logged, queueVars
<1>4. QED
  BY <1>1, <1>2, <1>3 DEF JobInv, queueVars

\* The kept jobs stay as they are when only ids that are free get a job.
LEMMA LogStays ==
  ASSUME NEW log \in Seq(JobId), NEW status, status # "none", Logged(log, status),
         \A j \in JobId : job[j].status # "none" => job'[j] = job[j]
  PROVE  \A i \in 1..Len(log) : /\ job'[log[i]].status = status
                                /\ \A k \in 1..Len(log) : log[i] = log[k] => i = k
<1>1. \A i \in 1..Len(log) : log[i] \in JobId
  OBVIOUS
<1>2. QED
  BY <1>1 DEF Logged

LEMMA RequeueKeeps ==
  ASSUME TypeInv, JobInv, NEW w \in Worker, Requeue(w)
  PROVE  JobInv'
<1>1. work[w].decl \in Decl
  BY DEF Requeue, TypeInv, GoodWork
<1>2. /\ work' = work /\ work[w].pc = "done" /\ addDelayed(work[w].decl)
      /\ requeued' = [requeued EXCEPT ![w] = TRUE]
      /\ UNCHANGED <<work, runs, completed, failed, accepting, listed>>
  BY DEF Requeue, vars
<1>3. accepting' \subseteq Decl /\ listed' \subseteq Decl
  BY <1>2 DEF JobInv, QueueTypeOK
<1>4. /\ \A j \in JobId : job[j].status # "none" => job'[j] = job[j]
      /\ job' \in [JobId -> Job]
      /\ \A i \in JobId : job'[i].status # "none" => job'[i].decl \in Decl
  BY <1>1, <1>2, <1>3, EnqueueKeeps
<1>5. QueueTypeOK'
  BY <1>2, <1>4 DEF JobInv, QueueTypeOK
<1>6. ASSUME NEW v \in Worker PROVE Busy(v)'
  <2>1. runs[v] # NoJob => runs[v] \in JobId /\ job'[runs[v]] = job[runs[v]]
    BY <1>4 DEF JobInv, Busy, QueueTypeOK
  <2>2. requeued'[v] => work[v].pc = "done"
    BY <1>2 DEF JobInv, Busy, QueueTypeOK
  <2>3. QED
    BY <1>2, <2>1, <2>2 DEF JobInv, Busy
<1>7. Logged(completed, "completed")'
  <2>1. completed \in Seq(JobId) /\ Logged(completed, "completed")
    BY DEF JobInv, QueueTypeOK
  <2>2. QED
    BY <1>2, <1>4, <2>1, LogStays DEF Logged
<1>8. Logged(failed, "failed")'
  <2>1. failed \in Seq(JobId) /\ Logged(failed, "failed")
    BY DEF JobInv, QueueTypeOK
  <2>2. QED
    BY <1>2, <1>4, <2>1, LogStays DEF Logged
<1>9. QED
  BY <1>4, <1>5, <1>6, <1>7, <1>8 DEF JobInv

\* What a worker that returned, or died, leaves behind.
LEMMA FreeWorker ==
  ASSUME JobInv, NEW w \in Worker, work' = [work EXCEPT ![w] = Idle],
         runs' = [runs EXCEPT ![w] = NoJob], requeued' = [requeued EXCEPT ![w] = FALSE],
         work \in [Worker -> GoodWork],
         \A i \in JobId : i # runs[w] /\ job[i].status = "active" => job'[i] = job[i]
  PROVE  /\ runs' \in [Worker -> JobId \cup {NoJob}] /\ requeued' \in [Worker -> BOOLEAN]
         /\ \A v \in Worker : Busy(v)'
<1>1. /\ Others(w) /\ work'[w] = Idle /\ runs'[w] = NoJob /\ requeued'[w] = FALSE
      /\ \A v \in Worker : v # w => runs'[v] = runs[v] /\ requeued'[v] = requeued[v]
  BY DEF Others, JobInv, QueueTypeOK
<1>2. runs' \in [Worker -> JobId \cup {NoJob}] /\ requeued' \in [Worker -> BOOLEAN]
  BY DEF JobInv, QueueTypeOK
<1>3. Busy(w)'
  BY <1>1 DEF Busy, Idle
<1>4. ASSUME NEW v \in Worker, v # w PROVE Busy(v)'
  <2>1. runs[v] # NoJob => job'[runs[v]] = job[runs[v]]
    BY <1>4 DEF JobInv, Busy, QueueTypeOK
  <2>2. \A u \in Worker : runs[v] # NoJob /\ runs'[u] = runs[v] => u = v
    BY <1>1, <1>4 DEF JobInv, Busy
  <2>3. QED
    BY <1>1, <1>4, <2>1, <2>2, BusyStays
<1>5. QED
  BY <1>2, <1>3, <1>4

LEMMA EndKeeps ==
  ASSUME TypeInv, JobInv, NEW w \in Worker, JobCompletes(w) \/ JobFails(w)
  PROVE  JobInv'
<1>1. /\ work[w].pc = "done" /\ work' = [work EXCEPT ![w] = Idle]
      /\ runs' = [runs EXCEPT ![w] = NoJob] /\ requeued' = [requeued EXCEPT ![w] = FALSE]
      /\ UNCHANGED <<accepting, listed>> /\ (Complete(runs[w]) \/ Fail(runs[w]))
  BY DEF JobCompletes, JobFails, Release, Finish
<1>2. runs[w] \in JobId /\ job[runs[w]].status = "active"
  BY <1>1 DEF JobInv, Busy, QueueTypeOK
<1>3. /\ job' \in [JobId -> Job]
      /\ \A i \in JobId : job'[i].status # "none" => job'[i].decl \in Decl
      /\ \A i \in JobId : i # runs[w] /\ job[i].status = "active" => job'[i] = job[i]
      /\ completed' \in Seq(JobId) /\ Len(completed') <= KeepCompleted
      /\ failed' \in Seq(JobId) /\ Len(failed') <= KeepFailed
      /\ Logged(completed, "completed")' /\ Logged(failed, "failed")'
  BY <1>1, <1>2, EndJob
<1>4. /\ runs' \in [Worker -> JobId \cup {NoJob}] /\ requeued' \in [Worker -> BOOLEAN]
      /\ \A v \in Worker : Busy(v)'
  BY <1>1, <1>3, FreeWorker DEF TypeInv
<1>5. QueueTypeOK'
  BY <1>1, <1>3, <1>4 DEF JobInv, QueueTypeOK
<1>6. QED
  BY <1>3, <1>4, <1>5 DEF JobInv

LEMMA DeathKeeps ==
  ASSUME TypeInv, JobInv, NEW w \in Worker, WorkerDies(w)
  PROVE  JobInv'
<1>1. /\ work' = [work EXCEPT ![w] = Idle]
      /\ runs' = [runs EXCEPT ![w] = NoJob] /\ requeued' = [requeued EXCEPT ![w] = FALSE]
      /\ UNCHANGED <<job, completed, failed, accepting, listed>>
  BY DEF WorkerDies, Crash
<1>2. /\ runs' \in [Worker -> JobId \cup {NoJob}] /\ requeued' \in [Worker -> BOOLEAN]
      /\ \A v \in Worker : Busy(v)'
  BY <1>1, FreeWorker DEF TypeInv
<1>3. QueueTypeOK' /\ Logged(completed, "completed")' /\ Logged(failed, "failed")'
  BY <1>1, <1>2 DEF JobInv, QueueTypeOK, Logged
<1>4. QED
  BY <1>1, <1>2, <1>3 DEF JobInv

LEMMA TakeKeeps ==
  ASSUME TypeInv, JobInv, NEW w \in Worker, NEW j \in JobId, Take(w, j)
  PROVE  JobInv'
<1>1. PICK d \in Decl : d = job[j].decl /\ (Claim(w, d) \/ ClaimFails(w, d) \/ Skip(w, d))
  BY TakeAnchors
<1>2. Others(w) /\ work'[w].decl = d /\ work'[w].pc # "idle" /\ work[w].pc = "idle"
  BY <1>1 DEF Claim, ClaimFails, Skip, Others, TypeInv
<1>3. /\ job[j].status = "waiting" /\ job' = [job EXCEPT ![j].status = "active"]
      /\ runs' = [runs EXCEPT ![w] = j]
      /\ UNCHANGED <<completed, failed, requeued, accepting, listed>>
  BY DEF Take
<1>4. /\ job' \in [JobId -> Job] /\ job'[j].status = "active" /\ job'[j].decl = d
      /\ \A i \in JobId : i # j => job'[i] = job[i]
      /\ runs' \in [Worker -> JobId \cup {NoJob}] /\ runs'[w] = j
      /\ \A v \in Worker : v # w => runs'[v] = runs[v]
  BY <1>1, <1>3 DEF JobInv, QueueTypeOK, Job, JobStatus
<1>5. \A v \in Worker : runs[v] # j
  BY <1>3, QueueAssumption DEF JobInv, Busy
<1>6. ASSUME NEW v \in Worker, v # w PROVE Busy(v)'
  <2>1. runs[v] # NoJob => job'[runs[v]] = job[runs[v]]
    BY <1>4, <1>5 DEF JobInv, QueueTypeOK
  <2>2. \A u \in Worker : runs[v] # NoJob /\ runs'[u] = runs[v] => u = v
    BY <1>4, <1>5, <1>6 DEF JobInv, Busy
  <2>3. QED
    BY <1>2, <1>3, <1>4, <1>6, <2>1, <2>2, BusyStays
<1>7. Busy(w)'
  <2>1. ~requeued[w] /\ j # NoJob
    BY <1>2, QueueAssumption DEF JobInv, Busy
  <2>2. \A v \in Worker : runs'[v] = j => v = w
    BY <1>4, <1>5
  <2>3. QED
    BY <1>2, <1>3, <1>4, <2>1, <2>2 DEF Busy
<1>8. QueueTypeOK'
  BY <1>3, <1>4 DEF JobInv, QueueTypeOK
<1>9. Logged(completed, "completed")'
  BY <1>3, <1>4 DEF JobInv, Logged, QueueTypeOK
<1>10. Logged(failed, "failed")'
  BY <1>3, <1>4 DEF JobInv, Logged, QueueTypeOK
<1>11. \A i \in JobId : job'[i].status # "none" => job'[i].decl \in Decl
  BY <1>4 DEF JobInv
<1>12. QED
  BY <1>6, <1>7, <1>8, <1>9, <1>10, <1>11 DEF JobInv

LEMMA StalledKeeps ==
  ASSUME TypeInv, JobInv, NEW j \in JobId, Stalled(j)
  PROVE  JobInv'
<1>1. /\ job[j].status = "active" /\ \A w \in Worker : runs[w] # j
      /\ UNCHANGED <<work, runs, requeued, accepting, listed>>
  BY DEF Stalled, vars
<1>2. ASSUME \A i \in JobId : i # j /\ job[i].status = "active" => job'[i] = job[i],
             NEW w \in Worker
      PROVE  Busy(w)'
  <2>1. runs[w] # NoJob => job'[runs[w]] = job[runs[w]]
    BY <1>1, <1>2 DEF JobInv, Busy, QueueTypeOK
  <2>2. QED
    BY <1>1, <2>1 DEF JobInv, Busy
<1>3. CASE Fail(j)
  <2>1. QueueTypeOK'
    BY <1>1, <1>3, EndJob DEF JobInv, QueueTypeOK
  <2>2. QED
    BY <1>1, <1>2, <1>3, <2>1, EndJob DEF JobInv
<1>4. CASE /\ job' = [job EXCEPT ![j].status = "waiting", ![j].stalls = @ + 1]
           /\ UNCHANGED <<completed, failed>>
  <2> DEFINE n == job[j].stalls + 1
  <2>1. n \in Nat /\ job' = [job EXCEPT ![j] = [job[j] EXCEPT !.status = "waiting", !.stalls = n]]
    BY <1>4 DEF JobInv, QueueTypeOK, Job
  <2> HIDE DEF n
  <2>2. /\ job' \in [JobId -> Job]
        /\ \A i \in JobId : i # j => job'[i] = job[i]
        /\ job'[j].decl = job[j].decl
    BY <2>1 DEF JobInv, QueueTypeOK, Job, JobStatus
  <2>3. QueueTypeOK'
    BY <1>1, <1>4, <2>2 DEF JobInv, QueueTypeOK
  <2>4. Logged(completed, "completed")'
    BY <1>1, <1>4, <2>2 DEF JobInv, Logged, QueueTypeOK
  <2>5. Logged(failed, "failed")'
    BY <1>1, <1>4, <2>2 DEF JobInv, Logged, QueueTypeOK
  <2>6. \A i \in JobId : job'[i].status # "none" => job'[i].decl \in Decl
    BY <1>1, <2>2 DEF JobInv
  <2>7. QED
    BY <1>2, <2>2, <2>3, <2>4, <2>5, <2>6 DEF JobInv
<1>5. QED
  BY <1>3, <1>4 DEF Stalled

LEMMA JobInvStep == TypeInv /\ JobInv /\ [QueueNext]_allVars => JobInv'
<1> SUFFICES ASSUME TypeInv, JobInv, QueueNext \/ UNCHANGED allVars PROVE JobInv'
  OBVIOUS
<1>1. accepting \subseteq Decl /\ listed \subseteq Decl
  BY DEF JobInv, QueueTypeOK
<1>2. ASSUME NEW d \in Decl, EnqueueAccepted(d) PROVE JobInv'
  <2>1. /\ enqueueAnchorV2(d) \/ UNCHANGED job
        /\ UNCHANGED <<work, runs, requeued, completed, failed>>
        /\ accepting' \subseteq Decl /\ listed' \subseteq Decl
    BY <1>1, <1>2 DEF EnqueueAccepted, vars
  <2>2. QED
    BY <2>1, EnqueueKeeps
<1>3. ASSUME NEW d \in Decl, ReconcileRow(d) PROVE JobInv'
  <2>1. /\ enqueueAnchorV2(d) \/ UNCHANGED job
        /\ UNCHANGED <<work, runs, requeued, completed, failed>>
        /\ accepting' \subseteq Decl /\ listed' \subseteq Decl
    BY <1>1, <1>3 DEF ReconcileRow, vars
  <2>2. QED
    BY <2>1, EnqueueKeeps
<1>4. ASSUME NEW d \in Decl, AcceptRequest(d) PROVE JobInv'
  BY <1>1, <1>4, QuietKeeps DEF AcceptRequest, Accept
<1>5. CASE ListToReconcile
  <2>1. /\ listed' \subseteq Decl /\ accepting' \subseteq Decl
        /\ UNCHANGED <<job, work, runs, requeued, completed, failed>>
    BY <1>1, <1>5 DEF ListToReconcile, Due, vars
  <2>2. QED
    BY <2>1, QuietKeeps
<1>6. CASE Environment \/ UNCHANGED allVars
  <2>1. UNCHANGED <<job, work, runs, requeued, completed, failed, accepting, listed>>
    BY <1>6 DEF Environment, LeaseExpires, Mine, BalanceChanges, allVars, queueVars, vars
  <2>2. QED
    BY <1>1, <2>1, QuietKeeps
<1>7. ASSUME NEW w \in Worker, JobStep(w) \/ WorkerDies(w) PROVE JobInv'
  BY <1>7, AnchoringKeeps, RequeueKeeps, EndKeeps, DeathKeeps DEF JobStep
<1>8. QED
  BY <1>2, <1>3, <1>4, <1>5, <1>6, <1>7, TakeKeeps, StalledKeeps DEF QueueNext
-----------------------------------------------------------------------------
LEMMA QueueInvariant == QueueSpec => [](TypeInv /\ JobInv)
<1>1. QueueInit => TypeInv /\ JobInv
  BY TypeInit, JobInit DEF QueueInit
<1>2. TypeInv /\ JobInv /\ [QueueNext]_allVars => TypeInv' /\ JobInv'
  BY QueueStep, TypeStep, JobInvStep
<1>3. QED
  BY <1>1, <1>2, PTL DEF QueueSpec

\* What the jobs of anchorV2.worker.ts make the workers do, crashes, stalls and
\* evictions included, is anchoring as AnchorV2 specifies it: so every theorem
\* about AnchorV2 is one about the workers under the queue.
THEOREM QueueImplementsAnchoring == QueueSpec => ImplementsAnchoring
<1>1. QueueInit => Init
  BY DEF QueueInit
<1>2. QED
  BY <1>1, QueueInvariant, QueueStep, PTL DEF QueueSpec, Spec, ImplementsAnchoring

\* So, however jobs are rerun, requeued and evicted: a row that says anchored has
\* its proof on the chain and what is settled stays; attempts bound what is spent;
\* and, short of the faults each names, one worker holds a row, a retry checks the
\* transaction recorded first, and a declaration has one transaction, or none once
\* it has failed.
THEOREM AnchoringUnderTheQueue ==
  QueueSpec =>
    /\ []AnchoredHasProof
    /\ SettledIsFinal
    /\ []SpendBounded
    /\ []ClaimIsExclusive
    /\ RetryChecksRecordedTx
    /\ []AnchoredOnce
    /\ []FailedIsUnanchored
<1>1. Spec => []AnchoredHasProof /\ SettledIsFinal /\ []SpendBounded
  BY AnchoredProven, SettledFinal, AttemptsBoundSpending
<1>2. Spec => []ClaimIsExclusive /\ RetryChecksRecordedTx
  BY ClaimsExclude, RetriesCheck
<1>3. Spec => []AnchoredOnce /\ []FailedIsUnanchored
  BY AnchorsOnce, FailedForGood
<1>4. QED
  BY <1>1, <1>2, <1>3, QueueImplementsAnchoring DEF ImplementsAnchoring

\* What an agent is promised of a declaration, the workers under the queue keep.
THEOREM QueueImplementsLifecycle == QueueSpec => ImplementsLifecycle
<1>1. QED
  BY QueueImplementsAnchoring, AnchoringImplementsLifecycle DEF ImplementsAnchoring

\* BullMQ's view of who is at work and the workers' own agree: no two workers
\* process one job, and none works on another row than its job's.
THEOREM JobsAndWorkersAgree == QueueSpec => []JobsAgree
<1>1. JobInv => JobsAgree
  BY DEF JobInv, Busy, JobsAgree
<1>2. QED
  BY <1>1, QueueInvariant, PTL
-----------------------------------------------------------------------------
(***************************************************************************)
(* No declaration is stranded.                                             *)
(***************************************************************************)

\* A row once accepted is never absent again.
LEMMA NeverAbsent ==
  ASSUME TypeInv, [Next]_vars, NEW d \in Decl, row'[d].state = "absent"
  PROVE  row[d].state = "absent"
<1>1. row[d] \in Row /\ (row'[d] = row[d] \/ RowChange(d))
  BY RowStep DEF OtherRows, TypeInv
<1>2. CASE \E t \in Tx : row'[d] = recordSentTx(row[d], t) \/ row'[d] = markAnchored(row[d], t)
  BY <1>1, <1>2 DEF recordSentTx, markAnchored, Row
<1>3. CASE row'[d] = markAttemptFailed(row[d]) \/ row'[d] = releaseClaim(row[d])
  BY <1>1, <1>3 DEF markAttemptFailed, releaseClaim, Row
<1>4. CASE Claimable(row[d]) /\ row'[d] = claimForAnchoring(row[d])
  BY <1>1, <1>4, ClaimRow
<1>5. CASE row'[d] = [row[d] EXCEPT !.lease = "expired"]
  BY <1>1, <1>5 DEF Row
<1>6. QED
  BY <1>1, <1>2, <1>3, <1>4, <1>5 DEF RowChange

LEMMA AbsentStep ==
  TypeInv /\ JobInv /\ AbsentInv /\ [QueueNext]_allVars => AbsentInv'
<1> SUFFICES ASSUME TypeInv, JobInv, AbsentInv, QueueNext \/ UNCHANGED allVars,
                    NEW d \in Decl, row'[d].state = "absent"
             PROVE  job'[d].status = "none" /\ d \notin accepting' \cup listed'
  BY DEF AbsentInv
<1>1. row[d].state = "absent" /\ job[d].status = "none" /\ d \notin accepting \cup listed
  BY QueueStep, NeverAbsent DEF AbsentInv
<1>2. d \in JobId
  BY DEF JobId
<1>3. ASSUME NEW e \in Decl, EnqueueAccepted(e) \/ ReconcileRow(e)
      PROVE  job'[d].status = "none" /\ d \notin accepting' \cup listed'
  BY <1>1, <1>2, <1>3 DEF EnqueueAccepted, ReconcileRow, enqueueAnchorV2, JobInv, QueueTypeOK
<1>4. ASSUME NEW e \in Decl, AcceptRequest(e)
      PROVE  job'[d].status = "none" /\ d \notin accepting' \cup listed'
  BY <1>1, <1>4, InsertRow DEF AcceptRequest, Accept, TypeInv
<1>5. CASE ListToReconcile
  BY <1>1, <1>5 DEF ListToReconcile, Due, Reconcilable
<1>6. ASSUME NEW w \in Worker, Anchoring(w) \/ WorkerDies(w)
      PROVE  job'[d].status = "none" /\ d \notin accepting' \cup listed'
  BY <1>1, <1>6 DEF Anchoring, WorkerDies, queueVars
<1>7. ASSUME NEW w \in Worker, Requeue(w)
      PROVE  job'[d].status = "none" /\ d \notin accepting' \cup listed'
  BY <1>1, <1>2, <1>7, QueueAssumption DEF Requeue, addDelayed, Free, JobInv, QueueTypeOK
<1>8. ASSUME NEW w \in Worker, JobCompletes(w) \/ JobFails(w)
      PROVE  job'[d].status = "none" /\ d \notin accepting' \cup listed'
  <2>1. /\ work[w].pc = "done" /\ UNCHANGED <<accepting, listed>>
        /\ Complete(runs[w]) \/ Fail(runs[w])
    BY <1>8 DEF JobCompletes, JobFails, Release
  <2>2. runs[w] \in JobId /\ job[runs[w]].status = "active"
    BY <2>1 DEF JobInv, Busy, QueueTypeOK
  <2>3. QED
    BY <1>1, <1>2, <2>1, <2>2, EndJob
<1>9. ASSUME NEW w \in Worker, NEW j \in JobId, Take(w, j)
      PROVE  job'[d].status = "none" /\ d \notin accepting' \cup listed'
  BY <1>1, <1>2, <1>9 DEF Take, JobInv, QueueTypeOK
<1>10. ASSUME NEW j \in JobId, Stalled(j)
       PROVE  job'[d].status = "none" /\ d \notin accepting' \cup listed'
  <2>1. job[j].status = "active" /\ UNCHANGED <<accepting, listed>>
    BY <1>10 DEF Stalled
  <2>2. CASE Fail(j)
    BY <1>1, <1>2, <2>1, <2>2, EndJob
  <2>3. CASE job' = [job EXCEPT ![j].status = "waiting", ![j].stalls = @ + 1]
    BY <1>1, <1>2, <2>1, <2>3 DEF JobInv, QueueTypeOK
  <2>4. QED
    BY <1>10, <2>1, <2>2, <2>3 DEF Stalled
<1>11. CASE Environment \/ UNCHANGED allVars
  BY <1>1, <1>11 DEF Environment, allVars, queueVars
<1>12. QED
  BY <1>3, <1>4, <1>5, <1>6, <1>7, <1>8, <1>9, <1>10, <1>11 DEF QueueNext, JobStep

\* A row in the same state whose jobs and workers are as they were is served
\* as before.
LEMMA SameRow ==
  ASSUME NEW d \in Decl, ServedRow(d), row'[d].state = row[d].state,
         job[d].status = "none" => job'[d].status = "none" \/ WaitingOf(d)' # {},
         \A j \in JobId : job[j].status = "waiting" /\ job[j].decl = d => job'[j] = job[j],
         \A w \in Worker : Serves(w, d) => Serves(w, d)',
         \A w \in Worker : Holds(w, d) => Holds(w, d)'
  PROVE  ServedRow(d)'
<1>1. Holders(d) # {} => Holders(d)' # {}
  BY DEF Holders
<1>2. WaitingOf(d) # {} => WaitingOf(d)' # {}
  BY DEF WaitingOf
<1>3. Served(d) => Served(d)'
  BY <1>2 DEF Served
<1>4. QED
  BY <1>1, <1>3 DEF ServedRow

\* A worker whose job ends in calm weather has settled its row, or given it
\* back and will requeue it.
LEMMA CalmReturns ==
  ASSUME TypeInv, Calm, NEW w \in Worker, Anchoring(w), work'[w].pc = "done",
         row[work[w].decl].state = "anchoring"
  PROVE  /\ work'[w].out # "threw"
         /\ row'[work[w].decl].state # "anchoring"
         /\ \/ row'[work[w].decl].state \in {"anchored", "failed"}
            \/ work'[w].out \in {"paused", "retry"}
<1> DEFINE e == work[w].decl
<1>1. /\ WorkerStep(w) /\ ~Finish(w) /\ e \in Decl /\ row[e] \in Row /\ work[w] \in Work
      /\ row \in [Decl -> Row]
  BY AnchoringShape DEF Anchoring, Finish, TypeInv, GoodWork
<1>2. {"db", "lostReply"} \cap faults.may = {}
  BY DEF Calm
<1>3. ASSUME NEW pc \in PC \ {"done"}, Goto(w, pc) PROVE FALSE
  BY <1>3, GotoShape DEF TypeInv
<1>4. ASSUME NEW o \in Outcome, Return(w, o) PROVE work'[w].out = o
  BY <1>4 DEF Return, TypeInv, GoodWork, Work
<1>5. CASE MarkAnchored(w)
  <2>1. row' = [row EXCEPT ![e] = markAnchored(row[e], work[w].tx)] /\ Return(w, "anchored")
    BY <1>2, <1>3, <1>5 DEF MarkAnchored, Statement, May, PC
  <2>2. row'[e] = markAnchored(row[e], work[w].tx)
    BY <1>1, <2>1
  <2>3. row'[e].state = "anchored"
    BY <1>1, <2>2 DEF markAnchored, Row
  <2>4. QED
    BY <1>4, <2>1, <2>3 DEF Outcome
<1>6. CASE ReleaseClaim(w)
  <2>1. row' = [row EXCEPT ![e] = releaseClaim(row[e])] /\ Return(w, "paused")
    BY <1>2, <1>3, <1>6 DEF ReleaseClaim, Statement, May, PC
  <2>2. row'[e] = releaseClaim(row[e])
    BY <1>1, <2>1
  <2>3. row'[e].state = "pending"
    BY <1>1, <2>2, ReleasedRow
  <2>4. QED
    BY <1>4, <2>1, <2>3 DEF Outcome
<1>7. CASE MarkAttemptFailed(w)
  <2>1. /\ row' = [row EXCEPT ![e] = markAttemptFailed(row[e])]
        /\ Return(w, IF markAttemptFailed(row[e]).state = "failed" THEN "failed" ELSE "retry")
    BY <1>2, <1>7 DEF MarkAttemptFailed, May, Breaks
  <2>2. row'[e] = markAttemptFailed(row[e])
    BY <1>1, <2>1
  <2>3. row'[e].state # "anchoring"
    BY <1>1, <2>2 DEF markAttemptFailed, Row
  <2>4. QED
    BY <1>4, <2>1, <2>2, <2>3 DEF Outcome
<1>8. CASE CheckPrev(w) \/ CheckBalance(w) \/ AwaitReceipt(w) \/ RecordSentTx(w)
  BY <1>3, <1>8 DEF CheckPrev, CheckBalance, AwaitReceipt, RecordSentTx, PC
<1>9. CASE Send(w)
  <2>1. ASSUME NEW t \in Tx, work' = [work EXCEPT ![w].pc = "record", ![w].tx = t] PROVE FALSE
    BY <2>1 DEF TypeInv
  <2>2. QED
    BY <1>3, <1>9, <2>1 DEF Send, PC
<1>10. QED
  BY <1>1, <1>5, <1>6, <1>7, <1>8, <1>9 DEF WorkerStep

\* What a worker does before it returns.
LEMMA AnchoringServes ==
  ASSUME TypeInv, JobInv, ExclInv, Calm, NEW w \in Worker, Anchoring(w),
         NEW d \in Decl, ServedRow(d)
  PROVE  ServedRow(d)' /\ (work'[w].pc = "done" => work'[w].out # "threw")
<1>1. PICK e \in Decl : e = work[w].decl /\ Move(w, e) /\ Holds(w, e)
  <2>1. Safe /\ WorkerStep(w) /\ ~Finish(w)
    BY DEF Calm, Safe, Without, Anchoring, Finish
  <2>2. QED
    BY <2>1, MoveStep DEF Move, Holds
<1>2. /\ Others(w) /\ OtherRows(e) /\ work'[w].decl = e /\ UNCHANGED <<job, requeued>>
      /\ work[w].pc \notin {"idle", "done"} /\ work'[w].pc # "idle"
  BY <1>1, AnchoringShape DEF Move, Anchoring, queueVars
<1>3. row[e].state = "anchoring"
  BY <1>1 DEF ExclInv, Exclusive, Calm, Safe, Without
<1>4. /\ work'[w].pc = "done" => work'[w].out # "threw"
      /\ work'[w].pc = "done" => row'[e].state # "anchoring"
      /\ work'[w].pc = "done" => \/ row'[e].state \in {"anchored", "failed"}
                                 \/ work'[w].out \in {"paused", "retry"}
  BY <1>1, <1>3, CalmReturns
<1>5. CASE d # e
  <2>1. row'[d].state = row[d].state
    BY <1>2, <1>5 DEF OtherRows
  <2>2. \A v \in Worker : Serves(v, d) => Serves(v, d)'
    BY <1>1, <1>2, <1>5 DEF Others, Serves, Holds, NeedsRequeue
  <2>3. \A v \in Worker : Holds(v, d) => Holds(v, d)'
    BY <1>1, <1>2, <1>5 DEF Others, Holds
  <2>4. QED
    BY <1>2, <1>4, <2>1, <2>2, <2>3, SameRow
<1>6. CASE d = e /\ work'[w].pc # "done"
  <2>1. Holds(w, d)'
    BY <1>2, <1>6 DEF Holds
  <2>2. QED
    BY <1>6, <2>1 DEF ServedRow, Served, Serves, Holders
<1>7. CASE d = e /\ work'[w].pc = "done"
  <2>1. ~requeued[w]
    BY <1>2 DEF JobInv, Busy
  <2>2. CASE row'[e].state \in {"anchored", "failed"}
    BY <1>4, <1>7, <2>2 DEF ServedRow
  <2>3. CASE work'[w].out \in {"paused", "retry"} /\ row'[e].state \notin {"anchored", "failed"}
    <3>1. Serves(w, d)'
      BY <1>2, <1>7, <2>1, <2>3 DEF Serves, NeedsRequeue
    <3>2. QED
      BY <1>4, <1>7, <3>1 DEF ServedRow, Served
  <2>4. QED
    BY <1>4, <1>7, <2>2, <2>3
<1>8. QED
  BY <1>4, <1>5, <1>6, <1>7

\* A step that moves no worker and changes no state of a row.
LEMMA StillServed ==
  ASSUME JobInv, NEW d \in Decl, ServedRow(d),
         row'[d].state = row[d].state, UNCHANGED <<work, requeued>>,
         job[d].status = "none" => job'[d].status = "none" \/ WaitingOf(d)' # {},
         \A j \in JobId : job[j].status = "waiting" => job'[j] = job[j]
  PROVE  ServedRow(d)'
<1>1. \A w \in Worker : Serves(w, d) => Serves(w, d)'
  BY DEF Serves, Holds, NeedsRequeue
<1>2. \A w \in Worker : Holds(w, d) => Holds(w, d)'
  BY DEF Holds
<1>3. QED
  BY <1>1, <1>2, SameRow

\* Adding a job for e serves e, and takes nothing from any row.
LEMMA EnqueueServes ==
  ASSUME JobInv, NEW e \in Decl, enqueueAnchorV2(e) \/ addDelayed(e) \/ UNCHANGED job,
         NEW d \in Decl
  PROVE  /\ job[d].status = "none" => job'[d].status = "none" \/ WaitingOf(d)' # {}
         /\ \A j \in JobId : job[j].status = "waiting" => job'[j] = job[j]
         /\ addDelayed(e) => WaitingOf(e)' # {}
<1>1. ASSUME NEW j \in JobId, job[j].status = "none", job' = [job EXCEPT ![j] = Waiting(e)]
      PROVE  /\ j \in WaitingOf(e)'
             /\ \A i \in JobId : job[i].status # "none" => job'[i] = job[i]
             /\ \A i \in JobId : i # j => job'[i] = job[i]
  BY <1>1, AddJob DEF WaitingOf
<1>2. d \in JobId /\ e \in JobId /\ Extra \subseteq JobId /\ d \notin Extra
  BY QueueAssumption DEF JobId
<1>3. CASE job' = job
  <2>1. addDelayed(e) => WaitingOf(e)' # {}
    <3>1. CASE Free = {} /\ WaitingOf(e) # {}
      BY <1>3, <3>1 DEF WaitingOf
    <3>2. ASSUME NEW j \in Free, job' = [job EXCEPT ![j] = Waiting(e)]
          PROVE  WaitingOf(e)' # {}
      BY <1>1, <1>2, <3>2 DEF Free
    <3>3. QED
      BY <3>1, <3>2 DEF addDelayed
  <2>2. QED
    BY <1>3, <2>1
<1>4. CASE enqueueAnchorV2(e) /\ job' # job
  <2>1. job[e].status = "none" /\ job' = [job EXCEPT ![e] = Waiting(e)]
    BY <1>4 DEF enqueueAnchorV2
  <2>2. e \in WaitingOf(e)'
    BY <1>1, <1>2, <2>1
  <2>3. QED
    BY <1>1, <1>2, <2>1, <2>2
<1>5. CASE addDelayed(e) /\ job' # job
  <2>1. PICK j \in Extra : job[j].status = "none" /\ job' = [job EXCEPT ![j] = Waiting(e)]
    BY <1>5 DEF addDelayed, Free
  <2>2. QED
    BY <1>1, <1>2, <2>1
<1>6. QED
  BY <1>3, <1>4, <1>5

LEMMA RequeueServes ==
  ASSUME TypeInv, JobInv, NEW w \in Worker, Requeue(w), NEW d \in Decl, ServedRow(d)
  PROVE  ServedRow(d)'
<1>1. PICK e \in Decl : e = work[w].decl
  BY DEF Requeue, TypeInv, GoodWork
<1>2. /\ addDelayed(e) /\ work[w].pc = "done" /\ UNCHANGED <<row, work>>
      /\ \A v \in Worker : v # w => requeued'[v] = requeued[v]
  BY <1>1 DEF Requeue, vars, JobInv, QueueTypeOK
<1>3. /\ job[d].status = "none" => job'[d].status = "none" \/ WaitingOf(d)' # {}
      /\ \A j \in JobId : job[j].status = "waiting" => job'[j] = job[j]
      /\ WaitingOf(e)' # {}
  BY <1>2, EnqueueServes
<1>4. \A v \in Worker : Holds(v, d) => Holds(v, d)'
  BY <1>2 DEF Holds
<1>5. CASE d = e
  BY <1>2, <1>3, <1>4, <1>5 DEF ServedRow, Served, Holders
<1>6. CASE d # e
  <2>1. \A v \in Worker : Serves(v, d) => Serves(v, d)'
    BY <1>1, <1>2, <1>6 DEF Serves, Holds, NeedsRequeue
  <2>2. QED
    BY <1>2, <1>3, <1>4, <2>1, SameRow
<1>7. QED
  BY <1>5, <1>6

LEMMA EndServes ==
  ASSUME TypeInv, JobInv, Calm, NEW w \in Worker, JobCompletes(w) \/ JobFails(w),
         work[w].pc = "done" => work[w].out # "threw",
         NEW d \in Decl, ServedRow(d)
  PROVE  ServedRow(d)'
<1>1. JobCompletes(w)
  BY DEF Calm, JobFails
<1>2. /\ work[w].pc = "done" /\ ~NeedsRequeue(w) /\ Complete(runs[w])
      /\ row' = row /\ work' = [work EXCEPT ![w] = Idle]
      /\ requeued' = [requeued EXCEPT ![w] = FALSE]
  BY <1>1 DEF JobCompletes, Release, Finish
<1>3. runs[w] \in JobId /\ job[runs[w]].status = "active"
  BY <1>2 DEF JobInv, Busy, QueueTypeOK
<1>4. /\ job[d].status = "none" => job'[d].status = "none"
      /\ \A j \in JobId : job[j].status = "waiting" => job'[j] = job[j]
  BY <1>2, <1>3, EndJob DEF JobId
<1>5. \A v \in Worker : v # w => work'[v] = work[v] /\ requeued'[v] = requeued[v]
  BY <1>2 DEF TypeInv, JobInv, QueueTypeOK
<1>6. /\ ~Serves(w, d) /\ ~Holds(w, d)
      /\ \A v \in Worker : v # w => /\ Serves(v, d) => Serves(v, d)'
                                    /\ Holds(v, d) => Holds(v, d)'
  BY <1>2, <1>5 DEF Serves, Holds, NeedsRequeue
<1>7. QED
  BY <1>2, <1>4, <1>6, SameRow

\* A worker that skips a row finds it settled, or held by another.
LEMMA TakeServes ==
  ASSUME TypeInv, JobInv, Calm, NEW w \in Worker, NEW j \in JobId, Take(w, j),
         NEW d \in Decl, ServedRow(d)
  PROVE  ServedRow(d)' /\ (work'[w].pc = "done" => work'[w].out # "threw")
<1>1. PICK e \in Decl : e = job[j].decl /\ (Claim(w, e) \/ Skip(w, e))
  BY TakeAnchors DEF Calm, ClaimFails, May, Breaks
<1>2. /\ Others(w) /\ OtherRows(e) /\ work[w].pc = "idle"
      /\ work'[w].pc = "done" => work'[w].out # "threw"
      /\ UNCHANGED requeued /\ job' = [job EXCEPT ![j].status = "active"]
  BY <1>1 DEF Claim, Skip, Others, OtherRows, TypeInv, Take
<1>3. job[j].status = "waiting" /\ \A i \in JobId : i # j => job'[i] = job[i]
  BY <1>2 DEF Take, JobInv, QueueTypeOK
<1>4. \A v \in Worker : /\ Serves(v, d) => v # w /\ Serves(v, d)'
                        /\ Holds(v, d) => v # w /\ Holds(v, d)'
  BY <1>2 DEF Serves, Holds, NeedsRequeue, Others
<1>5. CASE d # e
  <2>1. row'[d].state = row[d].state
    BY <1>2, <1>5 DEF OtherRows
  <2>2. job[d].status = "none" => job'[d].status = "none"
    BY <1>3 DEF JobId
  <2>3. \A i \in JobId : job[i].status = "waiting" /\ job[i].decl = d => job'[i] = job[i]
    BY <1>1, <1>3, <1>5
  <2>4. QED
    BY <1>2, <1>4, <2>1, <2>2, <2>3, SameRow
<1>6. CASE d = e /\ Claim(w, e)
  <2>1. Holds(w, d)'
    BY <1>6 DEF Claim, Holds, TypeInv
  <2>2. QED
    BY <1>2, <2>1 DEF ServedRow, Served, Serves, Holders
<1>7. CASE d = e /\ Skip(w, e)
  <2>1. row' = row /\ ~Claimable(row[d])
    BY <1>7 DEF Skip
  <2>2. CASE row[d].state = "anchoring"
    <3>1. PICK v \in Worker : Holds(v, d)
      BY <2>2 DEF ServedRow, Holders
    <3>2. Holds(v, d)'
      BY <1>4, <3>1
    <3>3. QED
      BY <1>2, <3>2 DEF ServedRow, Served, Serves, Holders
  <2>3. CASE row[d].state # "anchoring"
    BY <1>2, <2>1, <2>3 DEF ServedRow, Claimable
  <2>4. QED
    BY <2>2, <2>3
<1>8. QED
  BY <1>1, <1>2, <1>5, <1>6, <1>7

LEMMA ServedStep ==
  TypeInv /\ JobInv /\ ExclInv /\ AbsentInv /\ ServedInv /\ [QueueNext]_allVars
    => ServedInv'
<1> SUFFICES ASSUME TypeInv, JobInv, ExclInv, AbsentInv, ServedInv,
                    QueueNext \/ UNCHANGED allVars
             PROVE  ServedInv'
  OBVIOUS
<1>0. Calm' => Calm
  BY QueueStep, MayStays DEF Calm, TypeInv
<1> SUFFICES ASSUME Calm, NEW d \in Decl
             PROVE  /\ ServedRow(d)'
                    /\ \A v \in Worker : work'[v].pc = "done" => work'[v].out # "threw"
  BY <1>0 DEF ServedInv
<1>1. /\ ServedRow(d)
      /\ \A v \in Worker : work[v].pc = "done" => work[v].out # "threw"
  BY DEF ServedInv
<1>2. ASSUME NEW e \in Decl, AcceptRequest(e)
      PROVE  ServedRow(d)' /\ work' = work
  <2>1. /\ UNCHANGED <<job, work, requeued>> /\ row[e].state = "absent"
        /\ row' = [row EXCEPT ![e] = insertDeclaration(row[e])]
    BY <1>2 DEF AcceptRequest, Accept
  <2>2. CASE d = e
    <3>1. row'[d].state = "pending"
      BY <2>1, <2>2, InsertRow DEF TypeInv
    <3>2. job'[d].status = "none"
      BY <2>1, <2>2 DEF AbsentInv
    <3>3. QED
      BY <2>1, <3>1, <3>2 DEF ServedRow, Served
  <2>3. CASE d # e
    BY <1>1, <2>1, <2>3, StillServed DEF TypeInv
  <2>4. QED
    BY <2>1, <2>2, <2>3
<1>3. ASSUME NEW e \in Decl, EnqueueAccepted(e) \/ ReconcileRow(e)
      PROVE  ServedRow(d)' /\ work' = work
  <2>1. UNCHANGED <<row, work, requeued>> /\ (enqueueAnchorV2(e) \/ UNCHANGED job)
    BY <1>3 DEF EnqueueAccepted, ReconcileRow, vars
  <2>2. QED
    BY <1>1, <2>1, EnqueueServes, StillServed
<1>4. CASE ListToReconcile \/ UNCHANGED allVars
  <2>1. UNCHANGED <<row, work, requeued, job>>
    BY <1>4 DEF ListToReconcile, allVars, queueVars, vars
  <2>2. QED
    BY <1>1, <2>1, StillServed
<1>5. CASE Environment
  <2>1. UNCHANGED <<work, requeued, job>>
    BY <1>5 DEF Environment, LeaseExpires, Mine, BalanceChanges, queueVars
  <2>2. row'[d].state = row[d].state
    BY <1>5 DEF Environment, LeaseExpires, Mine, BalanceChanges, TypeInv, Row
  <2>3. QED
    BY <1>1, <2>1, <2>2, StillServed
<1>6. ASSUME NEW w \in Worker, Others(w),
             work'[w].pc = "done" => work'[w].out # "threw"
      PROVE  \A v \in Worker : work'[v].pc = "done" => work'[v].out # "threw"
  BY <1>1, <1>6 DEF Others
<1>7. ASSUME NEW w \in Worker, Anchoring(w)
      PROVE  ServedRow(d)' /\ \A v \in Worker : work'[v].pc = "done" => work'[v].out # "threw"
  BY <1>1, <1>6, <1>7, AnchoringServes, AnchoringShape
<1>8. ASSUME NEW w \in Worker, Requeue(w)
      PROVE  ServedRow(d)' /\ work' = work
  BY <1>1, <1>8, RequeueServes DEF Requeue, vars
<1>9. ASSUME NEW w \in Worker, JobCompletes(w) \/ JobFails(w)
      PROVE  ServedRow(d)' /\ \A v \in Worker : work'[v].pc = "done" => work'[v].out # "threw"
  <2>1. Others(w) /\ work'[w].pc = "idle"
    BY <1>9 DEF JobCompletes, JobFails, Release, Finish, Others, Idle, TypeInv
  <2>2. QED
    BY <1>1, <1>6, <1>9, <2>1, EndServes
<1>10. ASSUME NEW w \in Worker, NEW j \in JobId, Take(w, j)
       PROVE  ServedRow(d)' /\ \A v \in Worker : work'[v].pc = "done" => work'[v].out # "threw"
  <2>1. Others(w)
    BY <1>10 DEF Take, Claim, ClaimFails, Skip, Others, TypeInv
  <2>2. QED
    BY <1>1, <1>6, <1>10, <2>1, TakeServes
<1>11. ASSUME NEW j \in JobId, Stalled(j)
       PROVE  ServedRow(d)' /\ work' = work
  <2>1. UNCHANGED <<row, work, requeued>> /\ job[j].status = "active"
    BY <1>11 DEF Stalled, vars
  <2>2. CASE Fail(j)
    <3>1. /\ job[d].status = "none" => job'[d].status = "none"
          /\ \A i \in JobId : job[i].status = "waiting" => job'[i] = job[i]
      BY <2>1, <2>2, EndJob DEF JobId
    <3>2. QED
      BY <1>1, <2>1, <3>1, StillServed
  <2>3. CASE job' = [job EXCEPT ![j].status = "waiting", ![j].stalls = @ + 1]
    <3>1. \A i \in JobId : i # j => job'[i] = job[i]
      BY <2>3 DEF JobInv, QueueTypeOK
    <3>2. /\ job[d].status = "none" => job'[d].status = "none"
          /\ \A i \in JobId : job[i].status = "waiting" => job'[i] = job[i]
      BY <2>1, <3>1 DEF JobId
    <3>3. QED
      BY <1>1, <2>1, <3>2, StillServed
  <2>4. QED
    BY <1>11, <2>1, <2>2, <2>3 DEF Stalled
<1>12. ASSUME NEW w \in Worker, WorkerDies(w) PROVE FALSE
  BY <1>12 DEF WorkerDies, Crash, Breaks, Calm
<1>13. QED
  BY <1>1, <1>2, <1>3, <1>4, <1>5, <1>7, <1>8, <1>9, <1>10, <1>11, <1>12
     DEF QueueNext, JobStep

\* While no job fails and none is lost, whatever RPC calls, enqueues and passes
\* of the reconciler fail, every unsettled row has a job on its way or can be
\* given one by the reconciler (anchorV2.worker.ts:4).
THEOREM NobodyStranded == QueueSpec => []NeverStranded
<1>1. QueueInit => Init /\ AbsentInv /\ ServedInv
  <2>1. QueueInit => AbsentInv
    BY DEF QueueInit, AbsentInv, NewJob, JobId
  <2>2. QueueInit => ServedInv
    BY DEF QueueInit, Init, ServedInv, ServedRow, AbsentRow, Idle
  <2>3. QED
    BY <2>1, <2>2 DEF QueueInit
<1>2. QueueSpec => [](TypeInv /\ JobInv /\ ExclInv)
  <2>1. QueueInit => ExclInv
    BY ExclInit DEF QueueInit
  <2>2. TypeInv /\ JobInv /\ ExclInv /\ [QueueNext]_allVars => ExclInv'
    BY QueueStep, ExclStep
  <2>3. QED
    BY <2>1, <2>2, QueueInvariant, PTL DEF QueueSpec
<1>3. QueueSpec => [](AbsentInv /\ ServedInv)
  BY <1>1, <1>2, AbsentStep, ServedStep, PTL DEF QueueSpec
<1>4. JobInv /\ ServedInv => NeverStranded
  <2> SUFFICES ASSUME JobInv, ServedInv, Calm, NEW d \in Decl,
                      row[d].state \in {"pending", "anchoring"}
               PROVE  Coming(d)
    BY DEF NeverStranded, Calm
  <2>1. CASE job[d].status = "none"
    BY <2>1 DEF Coming
  <2>2. ASSUME NEW j \in WaitingOf(d) PROVE Coming(d)
    BY <2>2 DEF WaitingOf, Coming
  <2>3. ASSUME NEW w \in Worker, Serves(w, d) PROVE Coming(d)
    <3>1. work[w].pc # "idle" /\ work[w].decl = d
      BY <2>3 DEF Serves, Holds
    <3>2. runs[w] \in JobId /\ job[runs[w]].status = "active" /\ job[runs[w]].decl = d
      BY <3>1 DEF JobInv, Busy, QueueTypeOK
    <3>3. QED
      BY <3>2 DEF Coming
  <2>4. QED
    BY <2>1, <2>2, <2>3 DEF ServedInv, ServedRow, Served
<1>5. QED
  BY <1>2, <1>3, <1>4, PTL
=============================================================================
