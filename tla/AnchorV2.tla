------------------------------ MODULE AnchorV2 ------------------------------
(***************************************************************************)
(* Anchoring of rxm-pog-v2 declarations: anchorDeclaration of              *)
(* src/v2/anchor.ts, run by the workers of one or more server processes    *)
(* over the declarations table and the chain.                              *)
(*                                                                         *)
(* anchorDeclaration is an async function: every await is a point where    *)
(* other workers, the chain and the clock move on, where the process may   *)
(* die, and where the awaited call may fail. So each stretch of code       *)
(* between two awaits is one action, and a worker's pc names the await it  *)
(* is at:                                                                  *)
(*                                                                         *)
(*   claimed   -> the claim is made, a previous tx hash may be in the row  *)
(*   markPrev  -> the previous tx has the log; markAnchored comes next     *)
(*   balance   -> getBalance                                               *)
(*   release   -> the balance is too low; releaseClaim comes next          *)
(*   send      -> writeContract                                            *)
(*   record    -> the tx was sent; recordSentTx comes next                 *)
(*   wait      -> findAnchorLog for the tx it sent                         *)
(*   mark      -> the log was found; markAnchored comes next               *)
(*   fail      -> in the catch block; markAttemptFailed comes next         *)
(*   done      -> anchorDeclaration has returned (or thrown)               *)
(*                                                                         *)
(* The row a worker works from is the snapshot its claim returned: only    *)
(* its anchor_tx_hash matters later and it is kept in work[w].tx.          *)
(*                                                                         *)
(* Which job makes a worker claim which row is left open here (AnchorQueue *)
(* adds the job queue and the reconciler).                                 *)
(***************************************************************************)
EXTENDS DeclarationStore, FiniteSets

CONSTANTS
  Decl,        \* declarations agents may submit
  NoDecl,
  Worker,      \* anchor-v2 workers, one per server process (concurrency 1)
  FaultSets,   \* the combinations of kinds of fault a behaviour may meet
  MaxFaults    \* bound: how often a worker may drop or outlive its claim

(***************************************************************************)
(* crash       the process dies at any await but "record"                  *)
(* unrecorded  a transaction is broadcast and its hash is never stored:    *)
(*             the process dies before recordSentTx, recordSentTx fails,   *)
(*             or the reply of writeContract is lost                       *)
(* stall       a lease runs out while its worker is still at work          *)
(* db          a statement throws without having had its effect            *)
(* lostReply   a statement has its effect and its reply is lost: it throws *)
(* rpc         getBalance, writeContract or the wait for one's own         *)
(*             receipt throws                                              *)
(* prevLost    the wait for the previous transaction's receipt throws,     *)
(*             which .catch(() => null) takes for "no receipt"             *)
(* unenqueued, unlisted, unrequeued                                        *)
(*             adding a job throws: in a request, in the reconciler, at    *)
(*             the end of a job (AnchorQueue)                              *)
(***************************************************************************)
FaultKinds ==
  {"crash", "unrecorded", "stall", "db", "lostReply", "rpc", "prevLost",
   "unenqueued", "unlisted", "unrequeued"}

ASSUME DeclAssumption  == NoDecl \notin Decl
ASSUME FaultAssumption ==
  FaultSets \subseteq SUBSET FaultKinds /\ MaxFaults \in Nat

VARIABLES
  row,      \* the declarations table
  chain,    \* the relayer's transactions
  work,     \* what each worker is doing
  funded,   \* the relayer's balance reaches minRelayerBalanceWei
  faults    \* the kinds that may occur, and the claims dropped or outlived

vars == <<row, chain, work, funded, faults>>

(***************************************************************************)
(* A transaction is in the mempool once broadcast (and may stay there). It *)
(* is mined with the AnchorProof log of its declaration, without it (the   *)
(* configured address holds no RxMAnchor: the call does nothing), or       *)
(* reverted.                                                               *)
(***************************************************************************)
TxStatus == {"unsent", "mempool", "logged", "silent", "reverted"}
ChainTx  == [decl : Decl \cup {NoDecl}, status : TxStatus]
FaultLog == [may : SUBSET FaultKinds, used : Nat]
NewTx    == [decl |-> NoDecl, status |-> "unsent"]

PC      == {"idle", "claimed", "markPrev", "balance", "release", "send",
            "record", "wait", "mark", "fail", "done"}
Outcome == {"none", "anchored", "skipped", "paused", "retry", "failed", "threw"}
Work    == [pc : PC, decl : Decl \cup {NoDecl}, tx : Tx \cup {NoTx}, out : Outcome]
Idle    == [pc |-> "idle", decl |-> NoDecl, tx |-> NoTx, out |-> "none"]

\* A worker holds d from its claim until anchorDeclaration returns.
Holds(w, d)  == work[w].decl = d /\ work[w].pc \notin {"idle", "done"}
Holders(d)   == {w \in Worker : Holds(w, d)}
TxsOf(d)     == {t \in Tx : chain[t].decl = d}

Init ==
  /\ row = [d \in Decl |-> AbsentRow]
  /\ chain = [t \in Tx |-> NewTx]
  /\ work = [w \in Worker |-> Idle]
  /\ funded \in BOOLEAN
  /\ \E kinds \in FaultSets : faults = [may |-> kinds, used |-> 0]
-----------------------------------------------------------------------------
(***************************************************************************)
(* Steps of a worker.                                                      *)
(***************************************************************************)
Goto(w, pc)  == work' = [work EXCEPT ![w].pc = pc]
Return(w, o) ==
  work' = [work EXCEPT ![w] = [@ EXCEPT !.pc = "done", !.tx = NoTx, !.out = o]]

\* A fault that costs nothing but the present attempt.
May(kind)    == kind \in faults.may /\ UNCHANGED faults
\* A fault after which a claim may be left with nobody at work on it.
Breaks(kind) ==
  /\ kind \in faults.may
  /\ faults.used < MaxFaults
  /\ faults' = [faults EXCEPT !.used = @ + 1]

\* A statement inside the try block: it returns and the worker goes on with
\* next, or it throws, applied or not, and the catch block is entered.
Statement(w, d, after, next) ==
  \/ /\ row' = [row EXCEPT ![d] = after]
     /\ next
     /\ UNCHANGED faults
  \/ May("db") /\ UNCHANGED row /\ Goto(w, "fail")
  \/ May("lostReply") /\ row' = [row EXCEPT ![d] = after] /\ Goto(w, "fail")

\* The row an agent's accepted declaration becomes (acceptDeclaration).
Accept(d) ==
  /\ row[d].state = "absent"
  /\ row' = [row EXCEPT ![d] = insertDeclaration(@)]
  /\ UNCHANGED <<chain, work, funded, faults>>

\* claimForAnchoring takes the row and returns it.
Claim(w, d) ==
  /\ work[w].pc = "idle"
  /\ Claimable(row[d])
  /\ row' = [row EXCEPT ![d] = claimForAnchoring(@)]
  /\ work' = [work EXCEPT ![w] = [pc |-> "claimed", decl |-> d,
                                  tx |-> row[d].tx, out |-> "none"]]
  /\ UNCHANGED <<chain, funded, faults>>

\* It throws, outside the try block, with the claim made or not.
ClaimFails(w, d) ==
  /\ work[w].pc = "idle"
  /\ row[d].state # "absent"
  /\ work' = [work EXCEPT ![w] = [pc |-> "done", decl |-> d,
                                  tx |-> NoTx, out |-> "threw"]]
  /\ \/ May("db") /\ UNCHANGED row
     \/ /\ Claimable(row[d])
        /\ Breaks("lostReply")
        /\ row' = [row EXCEPT ![d] = claimForAnchoring(@)]
  /\ UNCHANGED <<chain, funded>>

\* Its WHERE clause selects no row.
Skip(w, d) ==
  /\ work[w].pc = "idle"
  /\ row[d].state # "absent"
  /\ ~Claimable(row[d])
  /\ work' = [work EXCEPT ![w] = [pc |-> "done", decl |-> d,
                                  tx |-> NoTx, out |-> "skipped"]]
  /\ UNCHANGED <<row, chain, funded, faults>>

\* findAnchorLog(t) once t is mined: found, reverted, or it throws for want
\* of the log.
BadFound(t) == chain[t].status \in {"logged", "silent"}
Found(t)    == chain[t].status = "logged"
BadNotFound(t) == chain[t].status # "logged"
NotFound(t) == chain[t].status \in {"silent", "reverted"}

\* The check of a hash an earlier attempt stored. Anything but the log found
\* falls through to sending again.
BadCheckPrev(w) ==
  /\ work[w].pc = "claimed"
  /\ Goto(w, "balance")
  /\ UNCHANGED <<row, chain, funded, faults>>
CheckPrev(w) ==
  /\ work[w].pc = "claimed"
  /\ LET t == work[w].tx IN
       \/ t = NoTx /\ Goto(w, "balance") /\ UNCHANGED faults
       \/ t # NoTx /\ Found(t) /\ Goto(w, "markPrev") /\ UNCHANGED faults
       \/ t # NoTx /\ NotFound(t) /\ Goto(w, "balance") /\ UNCHANGED faults
       \/ t # NoTx /\ May("prevLost") /\ Goto(w, "balance")
  /\ UNCHANGED <<row, chain, funded>>

MarkAnchored(w) ==
  /\ work[w].pc \in {"markPrev", "mark"}
  /\ LET d == work[w].decl IN
       Statement(w, d, markAnchored(row[d], work[w].tx), Return(w, "anchored"))
  /\ UNCHANGED <<chain, funded>>

CheckBalance(w) ==
  /\ work[w].pc = "balance"
  /\ \/ funded /\ Goto(w, "send") /\ UNCHANGED faults
     \/ ~funded /\ Goto(w, "release") /\ UNCHANGED faults
     \/ May("rpc") /\ Goto(w, "fail")
  /\ UNCHANGED <<row, chain, funded>>

ReleaseClaim(w) ==
  /\ work[w].pc = "release"
  /\ LET d == work[w].decl IN
       Statement(w, d, releaseClaim(row[d]), Return(w, "paused"))
  /\ UNCHANGED <<chain, funded>>

\* writeContract: the transaction is broadcast and its hash returned; or it
\* is broadcast and the reply is lost; or nothing is sent.
Broadcast(t, d) ==
  /\ chain[t].status = "unsent"
  /\ chain' = [chain EXCEPT ![t] = [decl |-> d, status |-> "mempool"]]

Send(w) ==
  /\ work[w].pc = "send"
  /\ \/ \E t \in Tx :
          /\ Broadcast(t, work[w].decl)
          /\ \/ /\ work' = [work EXCEPT ![w].pc = "record", ![w].tx = t]
                /\ UNCHANGED faults
             \/ May("unrecorded") /\ Goto(w, "fail")
     \/ May("rpc") /\ Goto(w, "fail") /\ UNCHANGED chain
  /\ UNCHANGED <<row, funded>>

RecordSentTx(w) ==
  /\ work[w].pc = "record"
  /\ LET d     == work[w].decl
         after == [row EXCEPT ![d] = recordSentTx(@, work[w].tx)] IN
       \/ row' = after /\ Goto(w, "wait") /\ UNCHANGED faults
       \/ row' = after /\ May("lostReply") /\ Goto(w, "fail")
       \/ row' = row /\ May("unrecorded") /\ Goto(w, "fail")
  /\ UNCHANGED <<chain, funded>>

AwaitReceipt(w) ==
  /\ work[w].pc = "wait"
  /\ \/ Found(work[w].tx) /\ Goto(w, "mark") /\ UNCHANGED faults
     \/ NotFound(work[w].tx) /\ Goto(w, "fail") /\ UNCHANGED faults
     \/ May("rpc") /\ Goto(w, "fail")
  /\ UNCHANGED <<row, chain, funded>>

\* The catch block. An UPDATE that selects no row is reported as a retry; one
\* that throws makes the job fail and leaves the row as it was.
MarkAttemptFailed(w) ==
  /\ work[w].pc = "fail"
  /\ LET d     == work[w].decl
         after == markAttemptFailed(row[d])
         out   == IF row[d].state = "anchoring" /\ after.state = "failed"
                    THEN "failed" ELSE "retry" IN
       \/ row' = [row EXCEPT ![d] = after] /\ Return(w, out) /\ UNCHANGED faults
       \/ /\ May("lostReply")
          /\ row' = [row EXCEPT ![d] = after]
          /\ Return(w, "threw")
       \/ Breaks("db") /\ UNCHANGED row /\ Return(w, "threw")
  /\ UNCHANGED <<chain, funded>>

\* The job processor has dealt with the outcome and the worker is free.
Finish(w) ==
  /\ work[w].pc = "done"
  /\ work' = [work EXCEPT ![w] = Idle]
  /\ UNCHANGED <<row, chain, funded, faults>>

\* The process dies. Its worker restarts with nothing in memory.
Crash(w) ==
  /\ work[w].pc # "idle"
  /\ Breaks(IF work[w].pc = "record" THEN "unrecorded" ELSE "crash")
  /\ work' = [work EXCEPT ![w] = Idle]
  /\ UNCHANGED <<row, chain, funded>>
-----------------------------------------------------------------------------
(***************************************************************************)
(* The clock, the chain and the relayer's account.                         *)
(***************************************************************************)
LeaseExpires(d) ==
  /\ row[d].lease = "live"
  /\ \/ Holders(d) = {} /\ UNCHANGED faults
     \/ Holders(d) # {} /\ Breaks("stall")
  /\ row' = [row EXCEPT ![d].lease = "expired"]
  /\ UNCHANGED <<chain, work, funded>>

Mine(t) ==
  /\ chain[t].status = "mempool"
  /\ \E s \in {"logged", "silent", "reverted"} :
       chain' = [chain EXCEPT ![t].status = s]
  /\ UNCHANGED <<row, work, funded, faults>>

BalanceChanges ==
  /\ funded' = ~funded
  /\ UNCHANGED <<row, chain, work, faults>>

WorkerStep(w) ==
  \/ CheckPrev(w) \/ MarkAnchored(w) \/ CheckBalance(w) \/ ReleaseClaim(w)
  \/ Send(w) \/ RecordSentTx(w) \/ AwaitReceipt(w) \/ MarkAttemptFailed(w)
  \/ Finish(w)

Next ==
  \/ \E d \in Decl : Accept(d) \/ LeaseExpires(d)
  \/ \E w \in Worker : WorkerStep(w) \/ Crash(w)
  \/ \E w \in Worker, d \in Decl : Claim(w, d) \/ ClaimFails(w, d) \/ Skip(w, d)
  \/ \E t \in Tx : Mine(t)
  \/ BalanceChanges

Spec == Init /\ [][Next]_vars
-----------------------------------------------------------------------------
(***************************************************************************)
(* What anchoring promises.                                                *)
(***************************************************************************)

\* Every variable keeps its type; the columns obey chk_declarations_state.
TypeOK ==
  /\ row \in [Decl -> Row]
  /\ chain \in [Tx -> ChainTx]
  /\ work \in [Worker -> Work]
  /\ funded \in BOOLEAN
  /\ faults \in FaultLog

\* A row is anchored only with a transaction whose successful receipt holds
\* the AnchorProof log of that very declaration, whichever worker marked it
\* and however late (anchor.ts:8).
AnchoredHasProof ==
  \A d \in Decl : row[d].state = "anchored" =>
     /\ row[d].tx # NoTx
     /\ chain[row[d].tx] = [decl |-> d, status |-> "logged"]

\* A declaration is attempted at most MaxAttempts times, and once more for
\* each claim that was dropped or outlived: a crash loop is the only way past
\* the limit. And gas is paid only for counted attempts, although a pause
\* uncounts one and late workers write to rows others have claimed.
SpendBounded ==
  \A d \in Decl :
    /\ Cardinality(TxsOf(d)) <= row[d].attempts
    /\ row[d].attempts <= MaxAttempts + faults.used

\* anchored and failed are final: no late worker, whatever it was about to
\* write when it lost its claim, changes such a row (the WHERE clauses).
SettledIsFinal ==
  [][\A d \in Decl :
       row[d].state \in {"anchored", "failed"} => row'[d] = row[d]]_vars

\* "Two workers never anchor the same row at once" (anchor.ts:6), in so far as
\* it is true: while no lease runs out under a worker and no reply is lost.
Without(kinds)   == kinds \cap faults.may = {}
ClaimIsExclusive ==
  Without({"stall", "lostReply"}) =>
    \A d \in Decl : \A v, w \in Worker : Holds(v, d) /\ Holds(w, d) => v = w

\* "A retry never anchors twice" (schema.ts:279): of a declaration's
\* transactions at most one is anchored or can still come to be.
Alive(t)    == chain[t].status \in {"mempool", "logged"}
NeverTwice ==
  \A t, u \in Tx :
     Alive(t) /\ Alive(u) /\ chain[t].decl = chain[u].decl => t = u

\* So much is true of it: crashes elsewhere than between the broadcast and the
\* storing of its hash, statements and calls that fail, lead to no second one.
AnchoredOnce ==
  Without({"unrecorded", "stall", "lostReply", "prevLost"}) => NeverTwice

\* "A retry checks that tx instead of sending another" (anchor.ts:7): nothing
\* is broadcast for a declaration whose row holds the hash of a transaction
\* that is anchored or can still come to be, if claims are exclusive and a
\* receipt that cannot be read is not taken for a missing one.
RetryChecksRecordedTx ==
  [][Without({"stall", "lostReply", "prevLost"}) =>
       \A d \in Decl : TxsOf(d)' # TxsOf(d) =>
         row[d].tx = NoTx \/ ~Alive(row[d].tx)]_vars

\* A declaration given up as failed has no proof on the chain, and will have
\* none, if only crashes happen: a failing call may leave its transaction to
\* be mined after the last attempt.
FailedIsUnanchored ==
  faults.may \subseteq {"crash"} =>
    \A d \in Decl : row[d].state = "failed" => \A t \in TxsOf(d) : ~Alive(t)

\* The life of a declaration as its agent sees it.
Lifecycle == INSTANCE DeclarationLifecycle WITH
  status <- [d \in Decl |-> IF row[d].state \in {"anchored", "failed"}
                              THEN row[d].state ELSE "open"],
  proved <- {d \in Decl : \E t \in TxsOf(d) : chain[t].status = "logged"}

\* Anchoring implements that life: open, then anchored once proved, or failed.
ImplementsLifecycle == Lifecycle!Spec
=============================================================================
