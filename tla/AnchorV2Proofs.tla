--------------------------- MODULE AnchorV2Proofs ---------------------------
(***************************************************************************)
(* Proofs about AnchorV2 and the receipts of its rows, for any             *)
(* declarations, workers, transactions, attempt limit and faults.          *)
(***************************************************************************)
EXTENDS PogReceipts, FiniteSetTheorems, TLAPS

-----------------------------------------------------------------------------
(***************************************************************************)
(* Rows: what each UPDATE makes of a row.                                  *)
(***************************************************************************)
LEMMA InsertRow ==
  ASSUME NEW r \in Row
  PROVE  /\ insertDeclaration(r) \in Row
         /\ insertDeclaration(r).state = "pending"
         /\ insertDeclaration(r).attempts = r.attempts
         /\ insertDeclaration(r).lease = r.lease
         /\ insertDeclaration(r).tx = r.tx
BY DEF Row, DeclState, insertDeclaration

LEMMA ClaimRow ==
  ASSUME NEW r \in Row
  PROVE  /\ claimForAnchoring(r) \in Row
         /\ claimForAnchoring(r).state = "anchoring"
         /\ claimForAnchoring(r).attempts = r.attempts + 1
         /\ claimForAnchoring(r).lease = "live"
         /\ claimForAnchoring(r).tx = r.tx
<1> DEFINE n == r.attempts + 1
<1>1. r.attempts \in Nat /\ n \in Nat
  BY DEF Row
<1>2. claimForAnchoring(r)
        = [r EXCEPT !.state = "anchoring", !.lease = "live", !.attempts = n]
  BY DEF claimForAnchoring
<1> HIDE DEF n
<1>3. /\ claimForAnchoring(r) \in Row
      /\ claimForAnchoring(r).state = "anchoring"
      /\ claimForAnchoring(r).attempts = n
      /\ claimForAnchoring(r).lease = "live"
      /\ claimForAnchoring(r).tx = r.tx
  BY <1>1, <1>2 DEF Row, DeclState, Lease
<1>4. QED
  BY <1>3 DEF n

LEMMA RecordRow ==
  ASSUME NEW r \in Row, NEW t \in Tx
  PROVE  /\ recordSentTx(r, t) \in Row
         /\ recordSentTx(r, t).state = r.state
         /\ recordSentTx(r, t).attempts = r.attempts
         /\ recordSentTx(r, t).lease = r.lease
         /\ recordSentTx(r, t).tx = IF r.state = "anchoring" THEN t ELSE r.tx
BY DEF Row, recordSentTx

LEMMA AnchoredRow ==
  ASSUME NEW r \in Row, NEW t \in Tx
  PROVE  /\ markAnchored(r, t) \in Row
         /\ r.state = "anchoring" => /\ markAnchored(r, t).state = "anchored"
                                     /\ markAnchored(r, t).tx = t
         /\ r.state # "anchoring" => markAnchored(r, t) = r
         /\ markAnchored(r, t).attempts = r.attempts
BY DEF Row, DeclState, Lease, markAnchored

LEMMA FailedRow ==
  ASSUME NEW r \in Row
  PROVE  /\ markAttemptFailed(r) \in Row
         /\ r.state = "anchoring" =>
              markAttemptFailed(r).state =
                IF r.attempts >= MaxAttempts THEN "failed" ELSE "pending"
         /\ r.state # "anchoring" => markAttemptFailed(r) = r
         /\ markAttemptFailed(r).attempts = r.attempts
         /\ markAttemptFailed(r).tx = r.tx
<1> DEFINE s == IF r.attempts >= MaxAttempts THEN "failed" ELSE "pending"
<1>1. s \in DeclState
  BY DEF DeclState
<1>2. markAttemptFailed(r) = IF r.state = "anchoring"
                               THEN [r EXCEPT !.lease = "none", !.state = s] ELSE r
  BY DEF markAttemptFailed
<1> HIDE DEF s
<1>3. /\ markAttemptFailed(r) \in Row
      /\ r.state = "anchoring" => markAttemptFailed(r).state = s
      /\ r.state # "anchoring" => markAttemptFailed(r) = r
      /\ markAttemptFailed(r).attempts = r.attempts
      /\ markAttemptFailed(r).tx = r.tx
  BY <1>1, <1>2 DEF Row, Lease
<1>4. QED
  BY <1>3 DEF s

LEMMA ReleasedRow ==
  ASSUME NEW r \in Row
  PROVE  /\ releaseClaim(r) \in Row
         /\ r.state = "anchoring" =>
              /\ releaseClaim(r).state = "pending"
              /\ releaseClaim(r).attempts =
                   IF r.attempts > 0 THEN r.attempts - 1 ELSE 0
         /\ r.state # "anchoring" => releaseClaim(r) = r
         /\ releaseClaim(r).tx = r.tx
<1> DEFINE n == IF r.attempts > 0 THEN r.attempts - 1 ELSE 0
<1>1. r.attempts \in Nat /\ n \in Nat
  BY DEF Row
<1>2. releaseClaim(r) =
        IF r.state = "anchoring"
          THEN [r EXCEPT !.state = "pending", !.lease = "none", !.attempts = n]
          ELSE r
  BY DEF releaseClaim
<1> HIDE DEF n
<1>3. /\ releaseClaim(r) \in Row
      /\ r.state = "anchoring" =>
           releaseClaim(r).state = "pending" /\ releaseClaim(r).attempts = n
      /\ r.state # "anchoring" => releaseClaim(r) = r
      /\ releaseClaim(r).tx = r.tx
  BY <1>1, <1>2 DEF Row, DeclState, Lease
<1>4. QED
  BY <1>3 DEF n

(***************************************************************************)
(* Workers. Past the claim a worker has a declaration, and at some awaits  *)
(* a transaction; what a worker does next keeps that so.                   *)
(***************************************************************************)
HoldsTx  == {"markPrev", "mark", "record", "wait"}
GoodWork == {v \in Work : /\ v.pc # "idle" => v.decl \in Decl
                          /\ v.pc \in HoldsTx => v.tx \in Tx}

LEMMA GotoGood ==
  ASSUME NEW w \in Worker, NEW pc \in PC, work \in [Worker -> GoodWork],
         work[w].pc # "idle", pc \in HoldsTx => work[w].tx \in Tx, Goto(w, pc)
  PROVE  work' \in [Worker -> GoodWork]
<1>1. [work[w] EXCEPT !.pc = pc] \in GoodWork
  BY DEF GoodWork, Work
<1>2. QED
  BY <1>1 DEF Goto

LEMMA ReturnGood ==
  ASSUME NEW w \in Worker, NEW o \in Outcome, work \in [Worker -> GoodWork],
         work[w].pc # "idle", Return(w, o)
  PROVE  work' \in [Worker -> GoodWork]
<1>1. [work[w] EXCEPT !.pc = "done", !.tx = NoTx, !.out = o] \in GoodWork
  BY DEF GoodWork, Work, PC, HoldsTx
<1>2. QED
  BY <1>1 DEF Return

\* What Goto and Return leave of the other workers and of w.
Others(w) == \A u \in Worker : u # w => work'[u] = work[u]

LEMMA GotoShape ==
  ASSUME NEW w \in Worker, NEW pc \in PC, work \in [Worker -> GoodWork], Goto(w, pc)
  PROVE  /\ Others(w)
         /\ work'[w].pc = pc
         /\ work'[w].decl = work[w].decl
         /\ work'[w].tx = work[w].tx
BY DEF Goto, Others, GoodWork, Work

LEMMA ReturnShape ==
  ASSUME NEW w \in Worker, NEW o \in Outcome, work \in [Worker -> GoodWork],
         Return(w, o)
  PROVE  Others(w) /\ work'[w].pc = "done"
<1>1. work[w] \in Work
  BY DEF GoodWork
<1>2. QED
  BY <1>1 DEF Return, Others, Work

LEMMA FaultsType ==
  ASSUME faults \in FaultLog, NEW kind, May(kind) \/ Breaks(kind)
  PROVE  faults' \in FaultLog
<1>1. CASE May(kind)
  BY <1>1 DEF May
<1>2. CASE Breaks(kind)
  <2> DEFINE n == faults.used + 1
  <2>1. n \in Nat /\ faults' = [faults EXCEPT !.used = n]
    BY <1>2 DEF Breaks, FaultLog
  <2> HIDE DEF n
  <2>2. QED
    BY <2>1 DEF FaultLog
<1>3. QED
  BY <1>1, <1>2

(***************************************************************************)
(* Types.                                                                  *)
(***************************************************************************)
TypeInv ==
  /\ row \in [Decl -> Row]
  /\ chain \in [Tx -> ChainTx]
  /\ work \in [Worker -> GoodWork]
  /\ funded \in BOOLEAN
  /\ faults \in FaultLog

LEMMA TypeInit == Init => TypeInv
<1> SUFFICES ASSUME Init PROVE TypeInv
  OBVIOUS
<1>1. AbsentRow \in Row
  BY DEF AbsentRow, Row, DeclState, Lease
<1>2. NewTx \in ChainTx
  BY DEF NewTx, ChainTx, TxStatus
<1>3. Idle \in GoodWork
  BY DEF Idle, GoodWork, Work, PC, Outcome, HoldsTx
<1>4. faults \in FaultLog
  BY FaultAssumption DEF Init, FaultLog
<1>5. QED
  BY <1>1, <1>2, <1>3, <1>4 DEF Init, TypeInv

LEMMA TypeStep == TypeInv /\ [Next]_vars => TypeInv'
<1> SUFFICES ASSUME TypeInv, [Next]_vars PROVE TypeInv'
  OBVIOUS
<1> USE DEF TypeInv
<1>1. ASSUME NEW d \in Decl, Accept(d) PROVE TypeInv'
  BY <1>1, InsertRow DEF Accept
<1>2. ASSUME NEW d \in Decl, LeaseExpires(d) PROVE TypeInv'
  <2>1. row' \in [Decl -> Row]
    BY <1>2 DEF LeaseExpires, Row, Lease
  <2>2. faults' \in FaultLog
    BY <1>2, FaultsType DEF LeaseExpires
  <2>3. QED
    BY <1>2, <2>1, <2>2 DEF LeaseExpires
<1>3. ASSUME NEW w \in Worker, CheckPrev(w) PROVE TypeInv'
  <2>1. work[w].pc # "idle" /\ work[w] \in GoodWork
    BY <1>3 DEF CheckPrev
  <2>2. work' \in [Worker -> GoodWork]
    BY <1>3, <2>1, GotoGood DEF CheckPrev, PC, HoldsTx, GoodWork, Work
  <2>3. QED
    BY <1>3, <2>2 DEF CheckPrev, May
<1>4. ASSUME NEW w \in Worker, MarkAnchored(w) PROVE TypeInv'
  <2>1. /\ work[w].decl \in Decl /\ work[w].tx \in Tx /\ work[w].pc # "idle"
        /\ row[work[w].decl] \in Row
    BY <1>4 DEF MarkAnchored, GoodWork, HoldsTx
  <2>2. markAnchored(row[work[w].decl], work[w].tx) \in Row
    BY <2>1, AnchoredRow
  <2>3. row' \in [Decl -> Row]
    BY <1>4, <2>1, <2>2 DEF MarkAnchored, Statement
  <2>4. work' \in [Worker -> GoodWork]
    BY <1>4, <2>1, GotoGood, ReturnGood
       DEF MarkAnchored, Statement, PC, HoldsTx, Outcome
  <2>5. QED
    BY <1>4, <2>3, <2>4 DEF MarkAnchored, Statement, May
<1>5. ASSUME NEW w \in Worker, CheckBalance(w) PROVE TypeInv'
  <2>1. work[w].pc # "idle" /\ work[w] \in GoodWork
    BY <1>5 DEF CheckBalance
  <2>2. Goto(w, "send") \/ Goto(w, "release") \/ Goto(w, "fail")
    BY <1>5 DEF CheckBalance
  <2>3. work' \in [Worker -> GoodWork]
    BY <2>1, <2>2, GotoGood DEF PC, HoldsTx
  <2>4. UNCHANGED <<row, chain, funded, faults>>
    BY <1>5 DEF CheckBalance, May
  <2>5. QED
    BY <2>3, <2>4
<1>6. ASSUME NEW w \in Worker, ReleaseClaim(w) PROVE TypeInv'
  <2>1. work[w].decl \in Decl /\ work[w].pc # "idle" /\ row[work[w].decl] \in Row
    BY <1>6 DEF ReleaseClaim, GoodWork
  <2>2. releaseClaim(row[work[w].decl]) \in Row
    BY <2>1, ReleasedRow
  <2>3. row' \in [Decl -> Row]
    BY <1>6, <2>1, <2>2 DEF ReleaseClaim, Statement
  <2>4. work' \in [Worker -> GoodWork]
    BY <1>6, <2>1, GotoGood, ReturnGood
       DEF ReleaseClaim, Statement, PC, HoldsTx, Outcome
  <2>5. QED
    BY <1>6, <2>3, <2>4 DEF ReleaseClaim, Statement, May
<1>7. ASSUME NEW w \in Worker, Send(w) PROVE TypeInv'
  <2>1. work[w].decl \in Decl /\ work[w].pc # "idle" /\ work[w] \in GoodWork
    BY <1>7 DEF Send, GoodWork
  <2>2. chain' \in [Tx -> ChainTx]
    BY <1>7, <2>1 DEF Send, Broadcast, ChainTx, TxStatus
  <2>3. ASSUME NEW t \in Tx, work' = [work EXCEPT ![w].pc = "record", ![w].tx = t]
        PROVE  work' \in [Worker -> GoodWork]
    <3>1. [work[w] EXCEPT !.pc = "record", !.tx = t] \in GoodWork
      BY <2>1 DEF GoodWork, Work, PC
    <3>2. QED
      BY <2>3, <3>1
  <2>4. work' \in [Worker -> GoodWork]
    BY <1>7, <2>1, <2>3, GotoGood DEF Send, PC, HoldsTx
  <2>5. QED
    BY <1>7, <2>2, <2>4 DEF Send, May
<1>8. ASSUME NEW w \in Worker, RecordSentTx(w) PROVE TypeInv'
  <2>1. /\ work[w].decl \in Decl /\ work[w].tx \in Tx /\ work[w].pc # "idle"
        /\ row[work[w].decl] \in Row
    BY <1>8 DEF RecordSentTx, GoodWork, HoldsTx
  <2>2. recordSentTx(row[work[w].decl], work[w].tx) \in Row
    BY <2>1, RecordRow
  <2>3. row' \in [Decl -> Row]
    BY <1>8, <2>1, <2>2 DEF RecordSentTx
  <2>4. work' \in [Worker -> GoodWork]
    BY <1>8, <2>1, GotoGood DEF RecordSentTx, PC, HoldsTx
  <2>5. QED
    BY <1>8, <2>3, <2>4 DEF RecordSentTx, May
<1>9. ASSUME NEW w \in Worker, AwaitReceipt(w) PROVE TypeInv'
  <2>1. work[w].pc # "idle" /\ work[w].tx \in Tx
    BY <1>9 DEF AwaitReceipt, GoodWork, HoldsTx
  <2>2. work' \in [Worker -> GoodWork]
    BY <1>9, <2>1, GotoGood DEF AwaitReceipt, PC, HoldsTx
  <2>3. QED
    BY <1>9, <2>2 DEF AwaitReceipt, May
<1>10. ASSUME NEW w \in Worker, MarkAttemptFailed(w) PROVE TypeInv'
  <2>1. work[w].decl \in Decl /\ work[w].pc # "idle" /\ row[work[w].decl] \in Row
    BY <1>10 DEF MarkAttemptFailed, GoodWork
  <2>2. markAttemptFailed(row[work[w].decl]) \in Row
    BY <2>1, FailedRow
  <2>3. row' \in [Decl -> Row]
    BY <1>10, <2>1, <2>2 DEF MarkAttemptFailed
  <2>4. \E o \in Outcome : Return(w, o)
    BY <1>10 DEF MarkAttemptFailed, Outcome
  <2>5. work' \in [Worker -> GoodWork]
    BY <2>1, <2>4, ReturnGood
  <2>6. faults' \in FaultLog
    BY <1>10, FaultsType DEF MarkAttemptFailed
  <2>7. QED
    BY <1>10, <2>3, <2>5, <2>6 DEF MarkAttemptFailed
<1>11. ASSUME NEW w \in Worker, Finish(w) \/ Crash(w) PROVE TypeInv'
  <2>1. Idle \in GoodWork
    BY DEF Idle, GoodWork, Work, PC, Outcome, HoldsTx
  <2>2. faults' \in FaultLog
    BY <1>11, FaultsType DEF Finish, Crash
  <2>3. QED
    BY <1>11, <2>1, <2>2 DEF Finish, Crash
<1>12. ASSUME NEW w \in Worker, NEW d \in Decl,
              Claim(w, d) \/ ClaimFails(w, d) \/ Skip(w, d)
       PROVE  TypeInv'
  <2>1. claimForAnchoring(row[d]) \in Row /\ row[d].tx \in Tx \cup {NoTx}
    BY ClaimRow DEF Row
  <2>2. row' \in [Decl -> Row]
    BY <1>12, <2>1 DEF Claim, ClaimFails, Skip
  <2>3. work' \in [Worker -> GoodWork]
    BY <1>12, <2>1
       DEF Claim, ClaimFails, Skip, GoodWork, Work, PC, Outcome, HoldsTx
  <2>4. faults' \in FaultLog
    BY <1>12, FaultsType DEF Claim, ClaimFails, Skip
  <2>5. QED
    BY <1>12, <2>2, <2>3, <2>4 DEF Claim, ClaimFails, Skip
<1>13. ASSUME NEW t \in Tx, Mine(t) PROVE TypeInv'
  BY <1>13 DEF Mine, ChainTx, TxStatus
<1>14. CASE BalanceChanges
  BY <1>14 DEF BalanceChanges
<1>15. CASE UNCHANGED vars
  BY <1>15 DEF vars
<1>16. QED
  BY <1>1, <1>2, <1>3, <1>4, <1>5, <1>6, <1>7, <1>8, <1>9, <1>10, <1>11, <1>12,
     <1>13, <1>14, <1>15 DEF Next, WorkerStep

\* Every variable keeps its type, and a worker that goes on after an await has
\* the declaration and the transaction it needs.
THEOREM TypeCorrect == Spec => []TypeOK
<1>1. Spec => []TypeInv
  BY TypeInit, TypeStep, PTL DEF Spec
<1>2. TypeInv => TypeOK
  BY DEF TypeInv, TypeOK, GoodWork
<1>3. QED
  BY <1>1, <1>2, PTL
-----------------------------------------------------------------------------
(***************************************************************************)
(* An anchored row has a proof. The row cannot be read off the chain, so   *)
(* the invariant follows the hash on its way there: the hash a row stores  *)
(* and the hash a worker is at work on were sent for that declaration, and *)
(* a worker is about to mark a row only with a hash it has seen the log    *)
(* of. Nothing is said of who holds the row: a late worker is as bound by  *)
(* it as any other.                                                        *)
(***************************************************************************)
SentFor(t, d)   == t \in Tx /\ chain[t].decl = d /\ chain[t].status # "unsent"
ProvenFor(t, d) == t \in Tx /\ chain[t].decl = d /\ chain[t].status = "logged"

RowProof(d) ==
  /\ row[d].tx # NoTx => SentFor(row[d].tx, d)
  /\ row[d].state = "anchored" => ProvenFor(row[d].tx, d)

WorkProof(w) ==
  /\ work[w].pc \in {"claimed", "record", "wait"} /\ work[w].tx # NoTx
       => SentFor(work[w].tx, work[w].decl)
  /\ work[w].pc \in {"markPrev", "mark"} => ProvenFor(work[w].tx, work[w].decl)

ProofInv == (\A d \in Decl : RowProof(d)) /\ (\A w \in Worker : WorkProof(w))

\* The chain forgets nothing: a sent transaction stays sent, a log stays.
ChainKeeps ==
  \A t \in Tx : chain[t].status # "unsent" =>
    /\ chain'[t].decl = chain[t].decl
    /\ chain'[t].status # "unsent"
    /\ chain[t].status = "logged" => chain'[t].status = "logged"

LEMMA ChainStep == TypeInv /\ [Next]_vars => ChainKeeps
<1> SUFFICES ASSUME TypeInv, [Next]_vars PROVE ChainKeeps
  OBVIOUS
<1>1. ASSUME NEW w \in Worker, Send(w) PROVE ChainKeeps
  BY <1>1 DEF Send, Broadcast, TypeInv, ChainKeeps
<1>2. ASSUME NEW t \in Tx, Mine(t) PROVE ChainKeeps
  BY <1>2 DEF Mine, TypeInv, ChainTx, ChainKeeps
<1>3. CASE UNCHANGED chain
  BY <1>3 DEF ChainKeeps
<1>4. QED
  BY <1>1, <1>2, <1>3
     DEF Next, WorkerStep, Accept, LeaseExpires, CheckPrev, MarkAnchored,
         CheckBalance, ReleaseClaim, RecordSentTx, AwaitReceipt,
         MarkAttemptFailed, Finish, Crash, Claim, ClaimFails, Skip,
         BalanceChanges, vars

\* What was sent or proven stays so.
LEMMA ProofStays ==
  ASSUME ChainKeeps, NEW t, NEW d
  PROVE  /\ SentFor(t, d) => SentFor(t, d)'
         /\ ProvenFor(t, d) => ProvenFor(t, d)'
BY DEF ChainKeeps, SentFor, ProvenFor

\* A row that keeps its hash, and is not newly anchored, keeps its proof.
LEMMA RowKeepsProof ==
  ASSUME NEW d \in Decl, ChainKeeps, RowProof(d), row'[d].tx = row[d].tx,
         row'[d].state = "anchored" => row[d].state = "anchored"
  PROVE  RowProof(d)'
BY ProofStays DEF RowProof

LEMMA WorkKeepsProof ==
  ASSUME NEW w \in Worker, ChainKeeps, WorkProof(w), work'[w] = work[w]
  PROVE  WorkProof(w)'
BY ProofStays DEF WorkProof

\* At these places a worker's hash carries no obligation.
LEMMA NoProofNeeded ==
  ASSUME NEW w \in Worker,
         work'[w].pc \in {"idle", "balance", "release", "send", "fail", "done"}
  PROVE  WorkProof(w)'
BY DEF WorkProof

OtherRows(d) == \A e \in Decl : e # d => row'[e] = row[e]

LEMMA ProofInit == Init => ProofInv
<1> SUFFICES ASSUME Init PROVE ProofInv
  OBVIOUS
<1>1. ASSUME NEW d \in Decl PROVE RowProof(d)
  BY DEF Init, AbsentRow, RowProof
<1>2. ASSUME NEW w \in Worker PROVE WorkProof(w)
  BY DEF Init, Idle, WorkProof
<1>3. QED
  BY <1>1, <1>2 DEF ProofInv

LEMMA ProofStep == TypeInv /\ ProofInv /\ [Next]_vars => ProofInv'
<1> SUFFICES ASSUME TypeInv, ProofInv, [Next]_vars PROVE ProofInv'
  OBVIOUS
<1>a. ChainKeeps
  BY ChainStep
<1>b. ASSUME UNCHANGED row PROVE \A d \in Decl : RowProof(d)'
  BY <1>a, <1>b, RowKeepsProof DEF ProofInv
<1>c. ASSUME UNCHANGED work PROVE \A w \in Worker : WorkProof(w)'
  BY <1>a, <1>c, WorkKeepsProof DEF ProofInv
\* The worker that moves is w, the others keep their proofs.
<1>d. ASSUME NEW w \in Worker, Others(w), WorkProof(w)'
      PROVE  \A u \in Worker : WorkProof(u)'
  BY <1>a, <1>d, WorkKeepsProof DEF ProofInv, Others
<1>e. ASSUME NEW d \in Decl, OtherRows(d), RowProof(d)'
      PROVE  \A e \in Decl : RowProof(e)'
  BY <1>a, <1>e, RowKeepsProof DEF ProofInv, OtherRows
<1>1. ASSUME NEW d \in Decl, Accept(d) \/ LeaseExpires(d) PROVE ProofInv'
  <2>1. row[d] \in Row
    BY DEF TypeInv
  <2>3. OtherRows(d) /\ UNCHANGED work
    BY <1>1 DEF Accept, LeaseExpires, OtherRows, TypeInv
  <2>4. /\ row'[d].tx = row[d].tx
        /\ row'[d].state = "anchored" => row[d].state = "anchored"
    <3>1. CASE Accept(d)
      BY <2>1, <3>1, InsertRow DEF Accept, TypeInv
    <3>2. CASE LeaseExpires(d)
      BY <2>1, <3>2 DEF LeaseExpires, TypeInv, Row
    <3>3. QED
      BY <1>1, <3>1, <3>2
  <2>5. RowProof(d)'
    BY <2>4, <1>a, RowKeepsProof DEF ProofInv
  <2>6. QED
    BY <2>3, <2>5, <1>c, <1>e DEF ProofInv
<1>2. ASSUME NEW w \in Worker, CheckPrev(w) PROVE ProofInv'
  <2>1. UNCHANGED <<row, chain>> /\ work[w].pc = "claimed" /\ WorkProof(w)
    BY <1>2 DEF CheckPrev, ProofInv
  <2>2. PICK pc \in {"balance", "markPrev"} :
          /\ Goto(w, pc)
          /\ pc = "markPrev" => work[w].tx # NoTx /\ Found(work[w].tx)
    BY <1>2 DEF CheckPrev
  <2>3. /\ Others(w) /\ work'[w].pc = pc
        /\ work'[w].decl = work[w].decl /\ work'[w].tx = work[w].tx
    BY <2>2, GotoShape DEF TypeInv, PC
  <2>4. WorkProof(w)'
    BY <2>1, <2>2, <2>3 DEF WorkProof, SentFor, ProvenFor, Found
  <2>5. QED
    BY <2>1, <2>3, <2>4, <1>b, <1>d DEF ProofInv
<1>3. ASSUME NEW w \in Worker, MarkAnchored(w) PROVE ProofInv'
  <2>1. PICK d \in Decl, t \in Tx : d = work[w].decl /\ t = work[w].tx
    BY <1>3 DEF MarkAnchored, TypeInv, GoodWork, HoldsTx
  <2>2. ProvenFor(t, d) /\ row[d] \in Row /\ RowProof(d)
    BY <1>3, <2>1 DEF MarkAnchored, ProofInv, WorkProof, TypeInv
  <2>3. OtherRows(d) /\ (row'[d] = row[d] \/ row'[d] = markAnchored(row[d], t))
    BY <1>3, <2>1 DEF MarkAnchored, Statement, OtherRows, TypeInv
  <2>4. \/ row'[d] = row[d]
        \/ row'[d].tx = t
    BY <2>2, <2>3, AnchoredRow
  <2>5. ProvenFor(t, d)' /\ SentFor(t, d)'
    BY <2>2, <1>a, ProofStays DEF SentFor, ProvenFor
  <2>6. ASSUME row'[d] = row[d] PROVE RowProof(d)'
    BY <2>6, <2>2, <1>a, RowKeepsProof
  <2>7. ASSUME row'[d].tx = t PROVE RowProof(d)'
    BY <2>7, <2>5 DEF RowProof, SentFor, ProvenFor
  <2>8. Others(w) /\ work'[w].pc \in {"done", "fail"}
    BY <1>3, GotoShape, ReturnShape DEF MarkAnchored, Statement, TypeInv, PC, Outcome
  <2>9. QED
    BY <2>3, <2>4, <2>6, <2>7, <2>8, <1>d, <1>e, NoProofNeeded DEF ProofInv
<1>4. ASSUME NEW w \in Worker, CheckBalance(w) PROVE ProofInv'
  <2>1. PICK pc \in {"send", "release", "fail"} : Goto(w, pc)
    BY <1>4 DEF CheckBalance
  <2>2. Others(w) /\ work'[w].pc = pc
    BY <2>1, GotoShape DEF TypeInv, PC
  <2>3. UNCHANGED row
    BY <1>4 DEF CheckBalance
  <2>4. QED
    BY <2>2, <2>3, <1>b, <1>d, NoProofNeeded DEF ProofInv
<1>5. ASSUME NEW w \in Worker, ReleaseClaim(w) \/ MarkAttemptFailed(w)
      PROVE  ProofInv'
  <2>1. PICK d \in Decl : d = work[w].decl
    BY <1>5 DEF ReleaseClaim, MarkAttemptFailed, TypeInv, GoodWork
  <2>2. /\ OtherRows(d)
        /\ \/ row'[d] = row[d]
           \/ row'[d] = releaseClaim(row[d])
           \/ row'[d] = markAttemptFailed(row[d])
    BY <1>5, <2>1 DEF ReleaseClaim, MarkAttemptFailed, Statement, OtherRows, TypeInv
  <2>3. row[d] \in Row /\ RowProof(d)
    BY DEF TypeInv, ProofInv
  <2>4. /\ row'[d].tx = row[d].tx
        /\ row'[d].state = "anchored" => row[d].state = "anchored"
    BY <2>2, <2>3, ReleasedRow, FailedRow
  <2>5. RowProof(d)'
    BY <2>3, <2>4, <1>a, RowKeepsProof
  <2>6. Goto(w, "fail") \/ \E o \in Outcome : Return(w, o)
    BY <1>5 DEF ReleaseClaim, MarkAttemptFailed, Statement, Outcome
  <2>7. Others(w) /\ work'[w].pc \in {"done", "fail"}
    BY <2>6, GotoShape, ReturnShape DEF TypeInv, PC
  <2>8. QED
    BY <2>2, <2>5, <2>7, <1>d, <1>e, NoProofNeeded DEF ProofInv
<1>6. ASSUME NEW w \in Worker, Send(w) PROVE ProofInv'
  <2>1. UNCHANGED row
    BY <1>6 DEF Send
  <2>2. CASE Goto(w, "fail")
    <3>1. Others(w) /\ work'[w].pc = "fail"
      BY <2>2, GotoShape DEF TypeInv, PC
    <3>2. QED
      BY <2>1, <3>1, <1>b, <1>d, NoProofNeeded DEF ProofInv
  <2>3. ASSUME NEW t \in Tx, Broadcast(t, work[w].decl),
               work' = [work EXCEPT ![w].pc = "record", ![w].tx = t]
        PROVE  ProofInv'
    <3>1. /\ Others(w) /\ work'[w].pc = "record"
          /\ work'[w].tx = t /\ work'[w].decl = work[w].decl
      BY <2>3 DEF TypeInv, GoodWork, Work, Others
    <3>2. WorkProof(w)'
      BY <2>3, <3>1 DEF WorkProof, SentFor, Broadcast, TypeInv
    <3>3. QED
      BY <2>1, <3>1, <3>2, <1>b, <1>d DEF ProofInv
  <2>4. QED
    BY <1>6, <2>2, <2>3 DEF Send
<1>7. ASSUME NEW w \in Worker, RecordSentTx(w) PROVE ProofInv'
  <2>1. PICK d \in Decl, t \in Tx : d = work[w].decl /\ t = work[w].tx
    BY <1>7 DEF RecordSentTx, TypeInv, GoodWork, HoldsTx
  <2>2. SentFor(t, d) /\ RowProof(d) /\ row[d] \in Row
    BY <1>7, <2>1, TxAssumption DEF RecordSentTx, ProofInv, WorkProof, TypeInv
  <2>3. OtherRows(d) /\ (row'[d] = row[d] \/ row'[d] = recordSentTx(row[d], t))
    BY <1>7, <2>1 DEF RecordSentTx, OtherRows, TypeInv
  <2>4. SentFor(t, d)'
    BY <2>2, <1>a, ProofStays
  <2>5. ASSUME row'[d] = row[d] PROVE RowProof(d)'
    BY <2>5, <2>2, <1>a, RowKeepsProof
  <2>6. ASSUME row'[d] = recordSentTx(row[d], t) PROVE RowProof(d)'
    <3>1. CASE row[d].state = "anchoring"
      <4>1. row'[d].state = "anchoring" /\ row'[d].tx = t
        BY <2>2, <2>6, <3>1, RecordRow
      <4>2. QED
        BY <4>1, <2>4 DEF RowProof, SentFor
    <3>2. CASE row[d].state # "anchoring"
      <4>1. row'[d].state = row[d].state /\ row'[d].tx = row[d].tx
        BY <2>2, <2>6, <3>2, RecordRow
      <4>2. QED
        BY <4>1, <2>2, <1>a, RowKeepsProof
    <3>3. QED
      BY <3>1, <3>2
  <2>7. Goto(w, "wait") \/ Goto(w, "fail")
    BY <1>7 DEF RecordSentTx
  <2>8. /\ Others(w) /\ work'[w].pc \in {"wait", "fail"}
        /\ work'[w].decl = d /\ work'[w].tx = t
    BY <2>1, <2>7, GotoShape DEF TypeInv, PC
  <2>9. WorkProof(w)'
    BY <2>4, <2>8 DEF WorkProof, SentFor
  <2>10. QED
    BY <2>3, <2>5, <2>6, <2>8, <2>9, <1>d, <1>e DEF ProofInv
<1>8. ASSUME NEW w \in Worker, AwaitReceipt(w) PROVE ProofInv'
  <2>1. /\ UNCHANGED <<row, chain>> /\ work[w].pc = "wait"
        /\ work[w].tx \in Tx /\ WorkProof(w) /\ work[w].tx # NoTx
    BY <1>8, TxAssumption DEF AwaitReceipt, TypeInv, GoodWork, HoldsTx, ProofInv
  <2>2. PICK pc \in {"mark", "fail"} :
          Goto(w, pc) /\ (pc = "mark" => Found(work[w].tx))
    BY <1>8 DEF AwaitReceipt
  <2>3. /\ Others(w) /\ work'[w].pc = pc
        /\ work'[w].decl = work[w].decl /\ work'[w].tx = work[w].tx
    BY <2>2, GotoShape DEF TypeInv, PC
  <2>4. WorkProof(w)'
    BY <2>1, <2>2, <2>3 DEF WorkProof, SentFor, ProvenFor, Found
  <2>5. QED
    BY <2>1, <2>3, <2>4, <1>b, <1>d DEF ProofInv
<1>9. ASSUME NEW w \in Worker, Finish(w) \/ Crash(w) PROVE ProofInv'
  <2>1. Others(w) /\ work'[w].pc = "idle" /\ UNCHANGED row
    BY <1>9 DEF Finish, Crash, Others, Idle, TypeInv
  <2>2. QED
    BY <2>1, <1>b, <1>d, NoProofNeeded DEF ProofInv
<1>10. ASSUME NEW w \in Worker, NEW d \in Decl,
              Claim(w, d) \/ ClaimFails(w, d) \/ Skip(w, d)
       PROVE  ProofInv'
  <2>1. /\ OtherRows(d)
        /\ row'[d] = row[d] \/ row'[d] = claimForAnchoring(row[d])
    BY <1>10 DEF Claim, ClaimFails, Skip, OtherRows, TypeInv
  <2>2. row[d] \in Row /\ RowProof(d)
    BY DEF TypeInv, ProofInv
  <2>3. /\ row'[d].tx = row[d].tx
        /\ row'[d].state = "anchored" => row[d].state = "anchored"
    BY <2>1, <2>2, ClaimRow
  <2>4. RowProof(d)'
    BY <2>2, <2>3, <1>a, RowKeepsProof
  <2>5. /\ Others(w)
        /\ work'[w].decl = d
        /\ \/ work'[w].pc = "claimed" /\ work'[w].tx = row'[d].tx
           \/ work'[w].pc = "done"
    BY <1>10, <2>3 DEF Claim, ClaimFails, Skip, Others, TypeInv
  <2>6. WorkProof(w)'
    BY <2>4, <2>5 DEF WorkProof, RowProof, SentFor
  <2>7. QED
    BY <2>1, <2>4, <2>5, <2>6, <1>d, <1>e DEF ProofInv
<1>11. CASE \/ \E t \in Tx : Mine(t)
            \/ BalanceChanges
            \/ UNCHANGED vars
  BY <1>11, <1>b, <1>c DEF Mine, BalanceChanges, vars, ProofInv
<1>12. QED
  BY <1>1, <1>2, <1>3, <1>4, <1>5, <1>6, <1>7, <1>8, <1>9, <1>10, <1>11
     DEF Next, WorkerStep

\* A row is anchored only with a transaction of its own whose receipt holds
\* the proof, under every interleaving and every fault.
THEOREM AnchoredProven == Spec => []AnchoredHasProof
<1>1. Spec => [](TypeInv /\ ProofInv)
  BY TypeInit, TypeStep, ProofInit, ProofStep, PTL DEF Spec
<1>2. TypeInv /\ ProofInv => AnchoredHasProof
  BY TxAssumption
     DEF TypeInv, ProofInv, RowProof, ProvenFor, AnchoredHasProof, ChainTx
<1>3. QED
  BY <1>1, <1>2, PTL
-----------------------------------------------------------------------------
(***************************************************************************)
(* What a step may do to rows: at most one changes, in one of the ways of  *)
(* the UPDATE statements, and then the chain does not move.                *)
(***************************************************************************)
RowChange(d) ==
  \/ row'[d] = row[d]
  \/ row[d].state = "absent" /\ row'[d] = insertDeclaration(row[d])
  \/ Claimable(row[d]) /\ row'[d] = claimForAnchoring(row[d])
  \/ row[d].lease = "live" /\ row'[d] = [row[d] EXCEPT !.lease = "expired"]
  \/ \E t \in Tx : \/ row'[d] = recordSentTx(row[d], t)
                   \/ row'[d] = markAnchored(row[d], t)
  \/ row'[d] = markAttemptFailed(row[d])
  \/ row'[d] = releaseClaim(row[d])

LEMMA RowStep ==
  TypeInv /\ [Next]_vars =>
    \/ row' = row
    \/ chain' = chain /\ \E d \in Decl : OtherRows(d) /\ RowChange(d)
<1> SUFFICES ASSUME TypeInv, [Next]_vars, row' # row
             PROVE  chain' = chain /\ \E d \in Decl : OtherRows(d) /\ RowChange(d)
  OBVIOUS
<1>1. ASSUME NEW d \in Decl, Accept(d) \/ LeaseExpires(d)
      PROVE  chain' = chain /\ OtherRows(d) /\ RowChange(d)
  BY <1>1 DEF Accept, LeaseExpires, OtherRows, RowChange, TypeInv
<1>2. ASSUME NEW w \in Worker, MarkAnchored(w) \/ RecordSentTx(w)
      PROVE  chain' = chain /\ \E d \in Decl : OtherRows(d) /\ RowChange(d)
  <2>1. PICK d \in Decl, t \in Tx : d = work[w].decl /\ t = work[w].tx
    BY <1>2 DEF MarkAnchored, RecordSentTx, TypeInv, GoodWork, HoldsTx
  <2>2. /\ OtherRows(d)
        /\ row'[d] \in {row[d], markAnchored(row[d], t), recordSentTx(row[d], t)}
    BY <1>2, <2>1 DEF MarkAnchored, RecordSentTx, Statement, OtherRows, TypeInv
  <2>3. QED
    BY <1>2, <2>2 DEF RowChange, MarkAnchored, RecordSentTx
<1>3. ASSUME NEW w \in Worker, ReleaseClaim(w) \/ MarkAttemptFailed(w)
      PROVE  chain' = chain /\ \E d \in Decl : OtherRows(d) /\ RowChange(d)
  <2>1. PICK d \in Decl : d = work[w].decl
    BY <1>3 DEF ReleaseClaim, MarkAttemptFailed, TypeInv, GoodWork
  <2>2. /\ OtherRows(d)
        /\ row'[d] \in {row[d], releaseClaim(row[d]), markAttemptFailed(row[d])}
    BY <1>3, <2>1 DEF ReleaseClaim, MarkAttemptFailed, Statement, OtherRows, TypeInv
  <2>3. QED
    BY <1>3, <2>2 DEF RowChange, ReleaseClaim, MarkAttemptFailed
<1>4. ASSUME NEW w \in Worker, NEW d \in Decl, Claim(w, d) \/ ClaimFails(w, d)
      PROVE  chain' = chain /\ OtherRows(d) /\ RowChange(d)
  BY <1>4 DEF Claim, ClaimFails, OtherRows, RowChange, TypeInv
<1>5. QED
  BY <1>1, <1>2, <1>3, <1>4
     DEF Next, WorkerStep, CheckPrev, CheckBalance, Send, AwaitReceipt, Finish,
         Crash, Skip, Mine, BalanceChanges, vars

(***************************************************************************)
(* Settled rows. Every UPDATE that could reach one asks for "anchoring",   *)
(* and its lease is gone, so the clock does not touch it either.           *)
(***************************************************************************)
LeaseInv == \A d \in Decl : row[d].state # "anchoring" => row[d].lease = "none"

LEMMA LeaseInit == Init => LeaseInv
BY DEF Init, AbsentRow, LeaseInv

LEMMA ChangedLease ==
  ASSUME NEW d \in Decl, row[d] \in Row, RowChange(d),
         row[d].state # "anchoring" => row[d].lease = "none"
  PROVE  row'[d].state # "anchoring" => row'[d].lease = "none"
<1>1. CASE Claimable(row[d]) /\ row'[d] = claimForAnchoring(row[d])
  BY <1>1, ClaimRow
<1>2. CASE row[d].state = "absent" /\ row'[d] = insertDeclaration(row[d])
  BY <1>2, InsertRow
<1>3. CASE \E t \in Tx : row'[d] = recordSentTx(row[d], t)
  BY <1>3, RecordRow
<1>4. CASE \E t \in Tx : row'[d] = markAnchored(row[d], t)
  BY <1>4 DEF markAnchored, Row
<1>5. CASE row'[d] = markAttemptFailed(row[d])
  BY <1>5 DEF markAttemptFailed, Row
<1>6. CASE row'[d] = releaseClaim(row[d])
  BY <1>6 DEF releaseClaim, Row
<1>7. CASE row[d].lease = "live" /\ row'[d] = [row[d] EXCEPT !.lease = "expired"]
  BY <1>7 DEF Row
<1>8. QED
  BY <1>1, <1>2, <1>3, <1>4, <1>5, <1>6, <1>7 DEF RowChange

LEMMA LeaseStep == TypeInv /\ LeaseInv /\ [Next]_vars => LeaseInv'
<1> SUFFICES ASSUME TypeInv, LeaseInv, [Next]_vars, NEW d \in Decl
             PROVE  row'[d].state # "anchoring" => row'[d].lease = "none"
  BY DEF LeaseInv
<1>1. row[d] \in Row /\ (row[d].state # "anchoring" => row[d].lease = "none")
  BY DEF TypeInv, LeaseInv
<1>2. row'[d] = row[d] \/ RowChange(d)
  BY RowStep DEF OtherRows
<1>3. QED
  BY <1>1, <1>2, ChangedLease

LEMMA SettledStep ==
  TypeInv /\ LeaseInv /\ [Next]_vars =>
    \A d \in Decl : row[d].state \in {"anchored", "failed"} => row'[d] = row[d]
<1> SUFFICES ASSUME TypeInv, LeaseInv, [Next]_vars, NEW d \in Decl,
                    row[d].state \in {"anchored", "failed"}
             PROVE  row'[d] = row[d]
  OBVIOUS
<1>1. row[d] \in Row /\ row[d].lease = "none"
  BY DEF TypeInv, LeaseInv
<1>2. row'[d] = row[d] \/ RowChange(d)
  BY RowStep DEF OtherRows
<1>3. QED
  BY <1>1, <1>2
     DEF RowChange, Claimable, recordSentTx, markAnchored, markAttemptFailed,
         releaseClaim

\* No step, of however late a worker, changes a row that is anchored or failed.
THEOREM SettledFinal == Spec => SettledIsFinal
<1>1. Spec => []TypeInv /\ []LeaseInv
  BY TypeInit, TypeStep, LeaseInit, LeaseStep, PTL DEF Spec
<1>2. QED
  BY <1>1, SettledStep, PTL DEF Spec, SettledIsFinal
-----------------------------------------------------------------------------
(***************************************************************************)
(* Refinement of DeclarationLifecycle. The two parts of the abstract state *)
(* never change in one step: a row changes while the chain stands still.   *)
(***************************************************************************)
Status(d) == IF row[d].state \in {"anchored", "failed"} THEN row[d].state ELSE "open"
statusBar == [d \in Decl |-> IF row[d].state \in {"anchored", "failed"}
                               THEN row[d].state ELSE "open"]
provedBar == {d \in Decl : \E t \in TxsOf(d) : chain[t].status = "logged"}

LEMMA LifecycleInit == Init => Lifecycle!Init
<1> SUFFICES ASSUME Init PROVE Lifecycle!Init
  OBVIOUS
<1>1. statusBar = [d \in Decl |-> "open"]
  BY DEF Init, AbsentRow, statusBar
<1>2. ASSUME NEW t \in Tx PROVE chain[t].status # "logged"
  BY DEF Init, NewTx
<1>3. provedBar = {}
  BY <1>2 DEF provedBar, TxsOf
<1>4. QED
  BY <1>1, <1>3 DEF Lifecycle!Init, statusBar, provedBar

\* A row that changes keeps its status, or leaves "open".
LEMMA StatusChange ==
  ASSUME NEW d \in Decl, row[d] \in Row, RowChange(d)
  PROVE  \/ Status(d)' = Status(d)
         \/ Status(d) = "open" /\ Status(d)' = "failed"
         \/ Status(d) = "open" /\ Status(d)' = "anchored" /\ row'[d].state = "anchored"
<1>1. CASE Claimable(row[d]) /\ row'[d] = claimForAnchoring(row[d])
  BY <1>1, ClaimRow DEF Claimable, Status
<1>2. CASE row[d].state = "absent" /\ row'[d] = insertDeclaration(row[d])
  BY <1>2, InsertRow DEF Status
<1>3. CASE \E t \in Tx : row'[d] = recordSentTx(row[d], t)
  BY <1>3, RecordRow DEF Status
<1>4. CASE \E t \in Tx : row'[d] = markAnchored(row[d], t)
  BY <1>4, AnchoredRow DEF Status
<1>5. CASE row'[d] = markAttemptFailed(row[d])
  BY <1>5, FailedRow DEF Status
<1>6. CASE row'[d] = releaseClaim(row[d])
  BY <1>6, ReleasedRow DEF Status
<1>7. CASE row[d].lease = "live" /\ row'[d] = [row[d] EXCEPT !.lease = "expired"]
  BY <1>7 DEF Status, Row
<1>8. CASE row'[d] = row[d]
  BY <1>8 DEF Status
<1>9. QED
  BY <1>1, <1>2, <1>3, <1>4, <1>5, <1>6, <1>7, <1>8 DEF RowChange

LEMMA LifecycleStep ==
  TypeInv /\ ProofInv /\ [Next]_vars => [Lifecycle!Next]_<<statusBar, provedBar>>
<1> SUFFICES ASSUME TypeInv, ProofInv, [Next]_vars
             PROVE  [Lifecycle!Next]_<<statusBar, provedBar>>
  OBVIOUS
<1>1. CASE chain' = chain /\ \E d \in Decl : OtherRows(d) /\ RowChange(d)
  <2>1. PICK d \in Decl : OtherRows(d) /\ RowChange(d)
    BY <1>1
  <2>2. provedBar' = provedBar
    BY <1>1 DEF provedBar, TxsOf
  <2>3. statusBar' = [statusBar EXCEPT ![d] = Status(d)']
    BY <2>1 DEF statusBar, Status, OtherRows
  <2>4. statusBar[d] = Status(d)
    BY DEF statusBar, Status
  <2>5. row'[d].state = "anchored" => d \in provedBar
    <3>1. ProofInv'
      BY ProofStep
    <3>2. row'[d].state = "anchored" => ProvenFor(row[d].tx, d)'
      BY <3>1 DEF ProofInv, RowProof
    <3>3. QED
      BY <3>2, <1>1 DEF ProvenFor, provedBar, TxsOf
  <2>6. \/ Status(d)' = Status(d)
        \/ Status(d) = "open" /\ Status(d)' = "failed"
        \/ Status(d) = "open" /\ Status(d)' = "anchored" /\ row'[d].state = "anchored"
    BY <2>1, StatusChange DEF TypeInv
  <2>7. CASE Status(d)' = Status(d)
    BY <2>2, <2>3, <2>4, <2>7 DEF statusBar
  <2>8. CASE Status(d) = "open" /\ Status(d)' = "failed"
    <3>1. Lifecycle!GiveUp(d)
      BY <2>2, <2>3, <2>4, <2>8 DEF Lifecycle!GiveUp, statusBar, provedBar
    <3>2. QED
      BY <3>1 DEF Lifecycle!Next
  <2>9. CASE Status(d) = "open" /\ Status(d)' = "anchored" /\ row'[d].state = "anchored"
    <3>1. Lifecycle!Confirm(d)
      BY <2>2, <2>3, <2>4, <2>5, <2>9 DEF Lifecycle!Confirm, statusBar, provedBar
    <3>2. QED
      BY <3>1 DEF Lifecycle!Next
  <2>10. QED
    BY <2>6, <2>7, <2>8, <2>9
<1>2. CASE row' = row
  <2>1. statusBar' = statusBar
    BY <1>2 DEF statusBar
  <2>2. ASSUME NEW t \in Tx, Mine(t) PROVE [Lifecycle!Next]_<<statusBar, provedBar>>
    <3> DEFINE d == chain[t].decl
    <3>1. \A u \in Tx : /\ chain'[u].decl = chain[u].decl
                        /\ u # t => chain'[u].status = chain[u].status
                        /\ chain[u].status = "logged" => chain'[u].status = "logged"
      BY <2>2 DEF Mine, TypeInv, ChainTx
    <3>2. CASE provedBar' = provedBar
      BY <3>2, <2>1
    <3>3. CASE provedBar' # provedBar
      <4>1. PICK e \in Decl : e \in provedBar' /\ e \notin provedBar
        BY <3>1, <3>3 DEF provedBar, TxsOf
      <4>2. e = d /\ provedBar' = provedBar \cup {e}
        BY <3>1, <4>1 DEF provedBar, TxsOf
      <4>3. Lifecycle!Prove(e)
        BY <4>1, <4>2, <2>1 DEF Lifecycle!Prove, provedBar, statusBar
      <4>4. QED
        BY <4>3 DEF Lifecycle!Next
    <3>4. QED
      BY <3>2, <3>3
  <2>3. ASSUME NEW w \in Worker, Send(w) PROVE provedBar' = provedBar
    BY <2>3 DEF Send, Broadcast, provedBar, TxsOf, TypeInv
  <2>4. ASSUME UNCHANGED chain PROVE provedBar' = provedBar
    BY <2>4 DEF provedBar, TxsOf
  <2>5. QED
    BY <2>1, <2>2, <2>3, <2>4
       DEF Next, WorkerStep, Accept, LeaseExpires, CheckPrev, MarkAnchored,
           CheckBalance, ReleaseClaim, RecordSentTx, AwaitReceipt,
           MarkAttemptFailed, Finish, Crash, Claim, ClaimFails, Skip,
           BalanceChanges, vars
<1>3. QED
  BY <1>1, <1>2, RowStep

\* Anchoring implements the life its agents are promised: a declaration is
\* open, then anchored (once proved) or failed, for good.
THEOREM AnchoringImplementsLifecycle == Spec => ImplementsLifecycle
<1>1. Spec => [](TypeInv /\ ProofInv)
  BY TypeInit, TypeStep, ProofInit, ProofStep, PTL DEF Spec
<1>2. QED
  BY <1>1, LifecycleInit, LifecycleStep, PTL
     DEF Spec, ImplementsLifecycle, Lifecycle!Spec, statusBar, provedBar
-----------------------------------------------------------------------------
(***************************************************************************)
(* Receipts verify: an anchored row has a transaction that logged its      *)
(* proof (AnchoredProven), every other row has no locator, and what a      *)
(* verifier computes again of an altered receipt differs from that log.    *)
(***************************************************************************)
\* What anchorDeclaration sends is no call that RxMAnchor reverts.
LEMMA LogOf ==
  ASSUME NEW d
  PROVE  anchorWithAux(Domain.contract, "uriHash", agentIdForKey(Domain.chainId, d),
           declarationDigest(Domain, declaration(d)), encodeSingleAux(SignatureOf(d)))
         = {[contract |-> Domain.contract, scheme |-> "uriHash",
             agentId |-> agentIdForKey(Domain.chainId, d),
             proofHash |-> declarationDigest(Domain, declaration(d)),
             aux |-> encodeSingleAux(SignatureOf(d))]}
<1>1. declarationDigest(Domain, declaration(d)) # Zero
  BY DEF declarationDigest, Zero
<1>2. agentIdForKey(Domain.chainId, d) # Zero
  BY DEF agentIdForKey, Zero
<1>3. QED
  BY <1>1, <1>2 DEF anchorWithAux

\* Digests of different declarations or domains differ, and signatures too.
LEMMA Collisions ==
  ASSUME NEW m, NEW n, NEW x, NEW y, NEW k, NEW l
  PROVE  /\ declarationDigest(m, x) = declarationDigest(n, y) => m = n /\ x = y
         /\ signDeclaration(k, m, x) = signDeclaration(l, n, y) => k = l /\ m = n /\ x = y
BY DEF declarationDigest, signDeclaration

\* The receipt of a declaration with a locator t.
Receipt(d, t) == [declaration |-> declaration(d), signature |-> SignatureOf(d),
                  domain |-> Domain, locator |-> t]

\* It verifies if t logged that very declaration, and with its content only.
LEMMA Verified ==
  ASSUME TypeOK, NEW d \in Decl, NEW t \in Tx, NEW c
  PROVE  verifyReceipt(Receipt(d, t), c)
           <=> chain[t] = [decl |-> d, status |-> "logged"] /\ c = d
<1> DEFINE e   == chain[t].decl
           log == [contract |-> Domain.contract, scheme |-> "uriHash",
                   agentId |-> agentIdForKey(Domain.chainId, e),
                   proofHash |-> declarationDigest(Domain, declaration(e)),
                   aux |-> encodeSingleAux(SignatureOf(e))]
           r   == Receipt(d, t)
<1>1. chain[t] = [decl |-> d, status |-> "logged"]
        <=> e = d /\ chain[t].status = "logged"
  <2>1. chain[t] \in ChainTx
    BY DEF TypeOK
  <2>2. QED
    BY <2>1 DEF ChainTx
<1>2. Logs(t) = IF chain[t].status = "logged" THEN {log} ELSE {}
  BY LogOf DEF Logs
<1>3. /\ r.declaration = declaration(d) /\ r.signature = SignatureOf(d)
      /\ r.domain = Domain /\ r.locator = t
  BY DEF Receipt
<1>4. /\ log.contract = Domain.contract /\ log.scheme = "uriHash"
      /\ log.agentId = agentIdForKey(Domain.chainId, e)
      /\ log.proofHash = declarationDigest(Domain, declaration(e))
      /\ log.aux = encodeSingleAux(SignatureOf(e))
  OBVIOUS
<1> HIDE DEF log, e, r
<1>5. declaration(d) = declaration(e) => d = e
  BY DEF declaration
<1>6. declaration(d).content = d /\ declaration(d).agent = d
  BY DEF declaration
<1>7. log.aux[1] = "single"
  BY <1>4 DEF encodeSingleAux
<1>8. verifyDeclaration(log, declaration(d), SignatureOf(d), Domain, c)
        <=> e = d /\ c = d
  <2>1. CASE e = d /\ c = d
    <3>1. validateDeclaration(declaration(d))
      BY <1>6, DeclAssumption DEF validateDeclaration
    <3>2. SignatureOf(d) = signDeclaration(declaration(d).agent, Domain, declaration(d))
      BY <1>6 DEF SignatureOf
    <3>3. QED
      BY <2>1, <1>4, <1>6, <1>7, <3>1, <3>2 DEF verifyDeclaration
  <2>2. CASE ~(e = d /\ c = d)
    <3>1. declarationDigest(Domain, declaration(d)) = declarationDigest(Domain, declaration(e))
            => d = e
      BY <1>5, Collisions
    <3>2. QED
      BY <2>2, <3>1, <1>4, <1>6 DEF verifyDeclaration
  <2>3. QED
    BY <2>1, <2>2
<1>9. verifyFromChain(r, c)
        <=> chain[t].status = "logged"
            /\ verifyDeclaration(log, declaration(d), SignatureOf(d), Domain, c)
  BY <1>2, <1>3 DEF verifyFromChain
<1>10. t # NoTx
  BY TxAssumption
<1>11. verifyReceipt(r, c) <=> verifyFromChain(r, c)
  BY <1>3, <1>10 DEF verifyReceipt
<1>12. QED
  BY <1>1, <1>8, <1>9, <1>11 DEF r

\* What anybody who alters it comes to.
LEMMA AlteredFails ==
  ASSUME NEW d \in Decl, NEW t, NEW x \in Altered(Receipt(d, t)), verifyReceipt(x, d)
  PROVE  FALSE
<1> DEFINE r == Receipt(d, t)
<1>1. /\ r.declaration = declaration(d) /\ r.signature = SignatureOf(d)
      /\ r.domain = Domain /\ r.locator = t
  BY DEF Receipt
<1>2. /\ x \in Altered(r)
      /\ r = [declaration |-> declaration(d), signature |-> SignatureOf(d),
              domain |-> Domain, locator |-> t]
  BY DEF Receipt
<1> HIDE DEF r
<1>3. PICK log : verifyDeclaration(log, x.declaration, x.signature, x.domain, d)
                 /\ log \in Logs(x.locator) /\ x.domain.chainId = Domain.chainId
  BY DEF verifyReceipt, verifyFromChain
<1>4. d # NoDecl /\ d = x.declaration.content /\ x.declaration.agent # NoDecl
  BY <1>3, DeclAssumption DEF verifyDeclaration, validateDeclaration
<1>5. x.signature = signDeclaration(x.declaration.agent, x.domain, x.declaration)
  BY <1>3 DEF verifyDeclaration
<1>6. x.domain.contract = Domain.contract
  <2>1. \A l \in Logs(x.locator) : l.contract = Domain.contract
    BY LogOf DEF Logs
  <2>2. QED
    BY <1>3, <2>1 DEF verifyDeclaration
<1>7. CASE x = [r EXCEPT !.declaration.content = NoDecl]
  BY <1>2, <1>4, <1>7 DEF declaration
<1>8. CASE x = [r EXCEPT !.declaration.agent = NoDecl]
  BY <1>2, <1>4, <1>8 DEF declaration
<1>9. CASE x = [r EXCEPT !.signature = signDeclaration(NoDecl, Domain, r.declaration)]
  <2>1. x.declaration = declaration(d) /\ x.domain = Domain
        /\ x.signature = signDeclaration(NoDecl, Domain, declaration(d))
    BY <1>1, <1>2, <1>9
  <2>2. x.declaration.agent = d
    BY <2>1 DEF declaration
  <2>3. QED
    BY <1>4, <1>5, <2>1, <2>2, Collisions
<1>10. CASE x = [r EXCEPT !.domain.chainId = "other"]
  BY <1>2, <1>3, <1>10 DEF Domain
<1>11. CASE x = [r EXCEPT !.domain.contract = "other"]
  BY <1>2, <1>6, <1>11 DEF Domain
<1>12. QED
  BY <1>2, <1>7, <1>8, <1>9, <1>10, <1>11 DEF Altered

LEMMA ProofVerifies == TypeOK /\ AnchoredHasProof => ReceiptsVerify
<1> SUFFICES ASSUME TypeOK, AnchoredHasProof, NEW d \in Decl
    PROVE  LET r == toReceipt(d) IN
             /\ row[d].state = "anchored" <=> verifyReceipt(r, d)
             /\ \A x \in waitForAnchor(d) : verifyReceipt(x, d)
             /\ ~verifyReceipt(r, NoDecl)
             /\ \A x \in Altered(r) : ~verifyReceipt(x, d)
             /\ \A t \in Tx : verifyReceipt([r EXCEPT !.locator = t], d)
                                <=> chain[t] = [decl |-> d, status |-> "logged"]
  BY DEF ReceiptsVerify
<1> DEFINE t == IF row[d].state = "anchored" THEN row[d].tx ELSE NoTx
           r == toReceipt(d)
<1>1. r = Receipt(d, t)
  BY DEF toReceipt, Receipt
<1>2. row[d].state = "anchored" =>
        t \in Tx /\ chain[t] = [decl |-> d, status |-> "logged"]
  BY DEF TypeOK, Row, AnchoredHasProof
<1>3. row[d].state # "anchored" => t = NoTx
  OBVIOUS
<1>4. r.locator = t /\ (\A u : [r EXCEPT !.locator = u] = Receipt(d, u))
  BY <1>1 DEF Receipt
<1> HIDE DEF t, r
<1>5. row[d].state # "anchored" => \A c : ~verifyReceipt(r, c)
  BY <1>3, <1>4 DEF verifyReceipt
<1>6. row[d].state = "anchored" => verifyReceipt(r, d) /\ ~verifyReceipt(r, NoDecl)
  BY <1>1, <1>2, Verified, DeclAssumption
<1>7. \A x \in waitForAnchor(d) : verifyReceipt(x, d)
  BY <1>6 DEF waitForAnchor, r
<1>8. \A x \in Altered(r) : ~verifyReceipt(x, d)
  BY <1>1, AlteredFails
<1>9. \A u \in Tx : verifyReceipt([r EXCEPT !.locator = u], d)
                      <=> chain[u] = [decl |-> d, status |-> "logged"]
  BY <1>4, Verified
<1>10. QED
  BY <1>5, <1>6, <1>7, <1>8, <1>9 DEF r

\* The receipts the service hands out (receipt.ts) verify on the chain alone
\* as soon as, and only when, their row is anchored; altered ones never.
THEOREM ReceiptsAlwaysVerify == Spec => []ReceiptsVerify
<1>1. QED
  BY TypeCorrect, AnchoredProven, ProofVerifies, PTL
-----------------------------------------------------------------------------
(***************************************************************************)
(* What anchoring spends, and when it cannot pay twice, for any            *)
(* declarations, workers, transactions, attempt limit and faults.          *)
(***************************************************************************)

\* The workers that have counted an attempt of d and may yet send for it. A
\* late one is among them: its attempt stays counted while others claim d.
Paying(d) == {w \in Worker : /\ work[w].decl = d
                             /\ work[w].pc \in {"claimed", "balance", "release", "send"}}

\* Sent transactions and those that may be sent are counted attempts.
Spent(d) ==
  /\ IsFiniteSet(TxsOf(d)) /\ IsFiniteSet(Paying(d))
  /\ Cardinality(TxsOf(d)) + Cardinality(Paying(d)) <= row[d].attempts

Limit == MaxAttempts + faults.used

\* A row that can be claimed, or that nobody watches over, has an attempt left.
Watched(d) == row[d].lease = "live" /\ Holders(d) # {}
Ready(d)   == \/ row[d].state \in {"absent", "pending"}
              \/ row[d].state = "anchoring" /\ ~Watched(d)
Budget(d)  == row[d].attempts <= Limit /\ (Ready(d) => row[d].attempts < Limit)

SpendInv == \A d \in Decl : Spent(d)
BudgetInv == \A d \in Decl : Budget(d)
-----------------------------------------------------------------------------
LEMMA SpendInit == Init => SpendInv /\ BudgetInv
<1> SUFFICES ASSUME Init, NEW d \in Decl PROVE Spent(d) /\ Budget(d)
  BY DEF SpendInv, BudgetInv
<1>1. row[d].attempts = 0 /\ faults.used = 0
  BY DEF Init, AbsentRow
<1>2. TxsOf(d) = {}
  BY DeclAssumption DEF Init, NewTx, TxsOf
<1>3. Paying(d) = {}
  BY DEF Init, Idle, Paying
<1>4. Spent(d)
  BY <1>1, <1>2, <1>3, FS_EmptySet DEF Spent
<1>5. Budget(d)
  BY <1>1, MaxAttemptsAssumption DEF Budget, Limit
<1>6. QED
  BY <1>4, <1>5

LEMMA AddOne ==
  ASSUME NEW S, IsFiniteSet(S), NEW x
  PROVE  /\ IsFiniteSet(S \cup {x}) /\ Cardinality(S \cup {x}) \in Nat
         /\ Cardinality(S \cup {x}) <= Cardinality(S) + 1
<1>1. IsFiniteSet(S \cup {x})
  BY FS_AddElement
<1>2. \/ Cardinality(S \cup {x}) = Cardinality(S)
      \/ Cardinality(S \cup {x}) = Cardinality(S) + 1
  BY FS_AddElement
<1>3. Cardinality(S) \in Nat /\ Cardinality(S \cup {x}) \in Nat
  BY <1>1, FS_CardinalityType
<1>4. QED
  BY <1>1, <1>2, <1>3

LEMMA SpentSizes ==
  ASSUME NEW d \in Decl, Spent(d)
  PROVE  Cardinality(TxsOf(d)) \in Nat /\ Cardinality(Paying(d)) \in Nat
BY FS_CardinalityType DEF Spent

\* No attempt is uncounted, nothing is sent, and nobody comes to pay.
LEMMA SpentKeeps ==
  ASSUME NEW d \in Decl, Spent(d), row[d].attempts \in Nat, row'[d].attempts \in Nat,
         row'[d].attempts >= row[d].attempts, TxsOf(d)' \subseteq TxsOf(d),
         Paying(d)' \subseteq Paying(d)
  PROVE  Spent(d)'
<1>0. /\ IsFiniteSet(TxsOf(d)')
      /\ Cardinality(TxsOf(d)') <= Cardinality(TxsOf(d))
      /\ Cardinality(TxsOf(d)') \in Nat
  BY FS_Subset, FS_CardinalityType DEF Spent
<1>1. /\ IsFiniteSet(Paying(d)')
      /\ Cardinality(Paying(d)') <= Cardinality(Paying(d))
      /\ Cardinality(Paying(d)') \in Nat
  BY FS_Subset, FS_CardinalityType DEF Spent
<1>2. Cardinality(TxsOf(d)) \in Nat /\ Cardinality(Paying(d)) \in Nat
  BY SpentSizes
<1>3. QED
  BY <1>0, <1>1, <1>2 DEF Spent

\* A worker takes d, and its attempt is counted.
LEMMA SpentClaims ==
  ASSUME NEW d \in Decl, NEW w \in Worker, Spent(d), row[d].attempts \in Nat,
         row'[d].attempts = row[d].attempts + 1, TxsOf(d)' = TxsOf(d),
         Paying(d)' = Paying(d) \cup {w}
  PROVE  Spent(d)'
<1>1. /\ IsFiniteSet(Paying(d)')
      /\ Cardinality(Paying(d)') <= Cardinality(Paying(d)) + 1
      /\ Cardinality(Paying(d)') \in Nat
  BY AddOne DEF Spent
<1>2. Cardinality(TxsOf(d)) \in Nat /\ Cardinality(Paying(d)) \in Nat
  BY SpentSizes
<1>3. QED
  BY <1>1, <1>2 DEF Spent

\* A worker that could have paid does, or gives its attempt back.
LEMMA SpentPays ==
  ASSUME NEW d \in Decl, NEW w \in Paying(d), Spent(d), row[d].attempts \in Nat,
         Paying(d)' \subseteq Paying(d) \ {w},
         \/ row'[d].attempts = row[d].attempts
            /\ \E t \in Tx : TxsOf(d)' = TxsOf(d) \cup {t}
         \/ row'[d].attempts = row[d].attempts - 1 /\ TxsOf(d)' = TxsOf(d)
  PROVE  Spent(d)'
<1>1. /\ IsFiniteSet(Paying(d) \ {w})
      /\ Cardinality(Paying(d) \ {w}) = Cardinality(Paying(d)) - 1
      /\ Cardinality(Paying(d) \ {w}) \in Nat
  BY FS_RemoveElement, FS_CardinalityType DEF Spent
<1>2. /\ IsFiniteSet(Paying(d)')
      /\ Cardinality(Paying(d)') <= Cardinality(Paying(d) \ {w})
      /\ Cardinality(Paying(d)') \in Nat
  BY <1>1, FS_Subset, FS_CardinalityType
<1>3. Cardinality(TxsOf(d)) \in Nat /\ Cardinality(Paying(d)) \in Nat
  BY SpentSizes
<1>4. CASE row'[d].attempts = row[d].attempts
           /\ \E t \in Tx : TxsOf(d)' = TxsOf(d) \cup {t}
  <2>1. /\ IsFiniteSet(TxsOf(d)')
        /\ Cardinality(TxsOf(d)') <= Cardinality(TxsOf(d)) + 1
        /\ Cardinality(TxsOf(d)') \in Nat
    BY <1>4, AddOne, ZenonT(40) DEF Spent
  <2>2. QED
    BY <1>1, <1>2, <1>3, <1>4, <2>1 DEF Spent
<1>5. CASE row'[d].attempts = row[d].attempts - 1 /\ TxsOf(d)' = TxsOf(d)
  BY <1>1, <1>2, <1>3, <1>5 DEF Spent
<1>6. QED
  BY <1>4, <1>5

\* Who may pay for d, and who holds it, after a step of w.
LEMMA PayingAfter ==
  ASSUME NEW d \in Decl, NEW w \in Worker, Others(w)
  PROVE  /\ (w \in Paying(d)' => w \in Paying(d)) => Paying(d)' \subseteq Paying(d)
         /\ w \notin Paying(d)' => Paying(d)' \subseteq Paying(d) \ {w}
         /\ w \in Paying(d)' => Paying(d)' = Paying(d) \cup {w}
BY DEF Others, Paying

LEMMA HoldersAfter ==
  ASSUME NEW d \in Decl, NEW w \in Worker, Others(w), Holds(w, d) => Holds(w, d)'
  PROVE  Holders(d) # {} => Holders(d)' # {}
BY DEF Others, Holders, Holds

\* A step of w that counts no fewer attempts and sends nothing.
LEMMA QuietSpend ==
  ASSUME TypeInv, TypeInv', NEW d \in Decl, Spent(d), NEW w \in Worker, Others(w),
         w \in Paying(d)' => w \in Paying(d), UNCHANGED chain,
         row'[d].attempts >= row[d].attempts
  PROVE  Spent(d)'
<1>1. row[d].attempts \in Nat /\ row'[d].attempts \in Nat
  BY DEF TypeInv, Row
<1>2. TxsOf(d)' \subseteq TxsOf(d)
  BY DEF TxsOf
<1>3. QED
  BY <1>1, <1>2, PayingAfter, SpentKeeps

\* After its last await w pays no more.
LEMMA PaidUp ==
  ASSUME NEW d \in Decl, NEW w \in Worker,
         work'[w].pc \notin {"claimed", "balance", "release", "send"}
  PROVE  w \notin Paying(d)'
BY DEF Paying

LEMMA ReleaseSpend ==
  ASSUME TypeInv, TypeInv', NEW d \in Decl, Spent(d), NEW w \in Worker, ReleaseClaim(w)
  PROVE  Spent(d)'
<1>1. PICK e \in Decl : work[w].decl = e /\ work[w].pc = "release"
  BY DEF ReleaseClaim, TypeInv, GoodWork
<1>2. Others(w) /\ work'[w].pc \in {"done", "fail"}
  BY GotoShape, ReturnShape DEF ReleaseClaim, Statement, TypeInv, PC, Outcome
<1>3. w \notin Paying(d)' /\ UNCHANGED chain
  BY <1>2, PaidUp DEF ReleaseClaim
<1>4. row[d] \in Row /\ row[d].attempts \in Nat
  BY DEF TypeInv, Row
<1>5. row'[d] = row[d] \/ (d = e /\ row'[d] = releaseClaim(row[d]))
  BY <1>1 DEF ReleaseClaim, Statement, TypeInv
<1>6. CASE row'[d].attempts = row[d].attempts
  BY <1>2, <1>3, <1>4, <1>6, QuietSpend
<1>7. CASE d = e /\ row'[d].attempts = row[d].attempts - 1
  <2>1. w \in Paying(d)
    BY <1>1, <1>7 DEF Paying
  <2>2. TxsOf(d)' = TxsOf(d)
    BY <1>3 DEF TxsOf
  <2>3. Paying(d)' \subseteq Paying(d) \ {w}
    BY <1>2, <1>3, PayingAfter
  <2>4. QED
    BY <1>4, <1>7, <2>1, <2>2, <2>3, SpentPays
<1>8. row'[d].attempts = row[d].attempts \/ (d = e /\ row'[d].attempts = row[d].attempts - 1)
  <2>1. CASE row'[d] = row[d]
    BY <2>1
  <2>2. CASE d = e /\ row'[d] = releaseClaim(row[d])
    BY <1>4, <2>2, ReleasedRow
  <2>3. QED
    BY <1>5, <2>1, <2>2
<1>9. QED
  BY <1>6, <1>7, <1>8

LEMMA SendSpend ==
  ASSUME TypeInv, TypeInv', NEW d \in Decl, Spent(d), NEW w \in Worker, Send(w)
  PROVE  Spent(d)'
<1>1. PICK e \in Decl : work[w].decl = e /\ work[w].pc = "send"
  BY DEF Send, TypeInv, GoodWork
<1>2. Others(w) /\ work'[w].pc \in {"record", "fail"}
  <2>1. CASE Goto(w, "fail")
    BY <2>1, GotoShape DEF TypeInv, PC
  <2>2. ASSUME NEW t \in Tx, work' = [work EXCEPT ![w].pc = "record", ![w].tx = t]
        PROVE  Others(w) /\ work'[w].pc = "record"
    BY <2>2 DEF Others, TypeInv, GoodWork, Work
  <2>3. QED
    BY <2>1, <2>2 DEF Send
<1>3. w \notin Paying(d)' /\ row'[d] = row[d]
  BY <1>2, PaidUp DEF Send
<1>4. row[d].attempts \in Nat
  BY DEF TypeInv, Row
<1>5. Paying(d)' \subseteq Paying(d) \ {w}
  BY <1>2, <1>3, PayingAfter
<1>6. CASE UNCHANGED chain
  BY <1>2, <1>3, <1>4, <1>6, QuietSpend
<1>7. ASSUME NEW t \in Tx, Broadcast(t, e) PROVE Spent(d)'
  <2>1. chain' = [chain EXCEPT ![t] = [decl |-> e, status |-> "mempool"]]
    BY <1>7 DEF Broadcast
  <2>2. /\ chain'[t].decl = e
        /\ \A u \in Tx : u # t => chain'[u] = chain[u]
    BY <2>1 DEF TypeInv
  <2>3. CASE d = e
    <3>1. TxsOf(d)' = TxsOf(d) \cup {t} /\ w \in Paying(d)
      BY <1>1, <2>2, <2>3 DEF TxsOf, Paying
    <3>2. QED
      BY <1>3, <1>4, <1>5, <3>1, SpentPays
  <2>4. CASE d # e
    <3>1. TxsOf(d)' \subseteq TxsOf(d)
      BY <2>2, <2>4 DEF TxsOf
    <3>2. QED
      BY <1>3, <1>4, <1>5, <3>1, SpentKeeps
  <2>5. QED
    BY <2>3, <2>4
<1>8. UNCHANGED chain \/ \E t \in Tx : Broadcast(t, e)
  BY <1>1 DEF Send
<1>9. QED
  BY <1>6, <1>7, <1>8

LEMMA ClaimSpend ==
  ASSUME TypeInv, TypeInv', NEW d \in Decl, Spent(d), NEW w \in Worker, NEW e \in Decl,
         Claim(w, e) \/ ClaimFails(w, e) \/ Skip(w, e)
  PROVE  Spent(d)'
<1>1. /\ Others(w) /\ UNCHANGED chain /\ work[w].pc = "idle" /\ work'[w].decl = e
      /\ Claim(w, e) \/ work'[w].pc = "done"
  BY DEF Claim, ClaimFails, Skip, Others, TypeInv
<1>2. row[d] \in Row /\ row[d].attempts \in Nat
  BY DEF TypeInv, Row
<1>3. row'[d] = row[d] \/ (d = e /\ row'[d] = claimForAnchoring(row[d]))
  BY DEF Claim, ClaimFails, Skip, TypeInv
<1>4. row'[d].attempts >= row[d].attempts
  <2>1. claimForAnchoring(row[d]).attempts = row[d].attempts + 1
    BY <1>2, ClaimRow
  <2>2. QED
    BY <1>2, <1>3, <2>1
<1>5. CASE w \notin Paying(d)'
  BY <1>1, <1>4, <1>5, QuietSpend
<1>6. CASE w \in Paying(d)'
  <2>1. d = e /\ Claim(w, e)
    BY <1>1, <1>6 DEF Paying
  <2>2. row'[d] = claimForAnchoring(row[d]) /\ TxsOf(d)' = TxsOf(d)
    BY <1>1, <2>1 DEF Claim, TypeInv, TxsOf
  <2>3. row'[d].attempts = row[d].attempts + 1
    BY <1>2, <2>2, ClaimRow
  <2>4. Paying(d)' = Paying(d) \cup {w}
    BY <1>1, <1>6, PayingAfter
  <2>5. QED
    BY <1>2, <2>2, <2>3, <2>4, SpentClaims
<1>7. QED
  BY <1>5, <1>6

LEMMA SpendStep == TypeInv /\ SpendInv /\ [Next]_vars => SpendInv'
<1> SUFFICES ASSUME TypeInv, SpendInv, [Next]_vars, NEW d \in Decl
             PROVE  Spent(d)'
  BY DEF SpendInv
<1>1. TypeInv' /\ Spent(d) /\ row[d] \in Row /\ row[d].attempts \in Nat
  BY TypeStep DEF SpendInv, TypeInv, Row
<1>2. ASSUME NEW e \in Decl, Accept(e) \/ LeaseExpires(e) PROVE Spent(d)'
  <2>1. row'[d].attempts = row[d].attempts
    BY <1>1, <1>2, InsertRow DEF Accept, LeaseExpires, TypeInv, Row
  <2>2. TxsOf(d)' = TxsOf(d) /\ Paying(d)' = Paying(d)
    BY <1>2 DEF Accept, LeaseExpires, TxsOf, Paying
  <2>3. QED
    BY <1>1, <2>1, <2>2, SpentKeeps
<1>3. ASSUME NEW w \in Worker, CheckPrev(w) \/ CheckBalance(w) \/ AwaitReceipt(w)
      PROVE  Spent(d)'
  <2>1. PICK pc \in {"balance", "markPrev", "send", "release", "fail", "mark"} :
          /\ Goto(w, pc) /\ UNCHANGED <<row, chain>>
          /\ pc \in {"balance", "send", "release"} =>
               work[w].pc \in {"claimed", "balance"}
    BY <1>3 DEF CheckPrev, CheckBalance, AwaitReceipt, May
  <2>2. Others(w) /\ work'[w].pc = pc /\ work'[w].decl = work[w].decl
    BY <2>1, GotoShape DEF TypeInv, PC
  <2>3. w \in Paying(d)' => w \in Paying(d)
    BY <2>1, <2>2 DEF Paying
  <2>4. QED
    BY <1>1, <2>1, <2>2, <2>3, QuietSpend
<1>4. ASSUME NEW w \in Worker, MarkAnchored(w) PROVE Spent(d)'
  <2>1. PICK e \in Decl, t \in Tx : e = work[w].decl /\ t = work[w].tx
    BY <1>4 DEF MarkAnchored, TypeInv, GoodWork, HoldsTx
  <2>2. Others(w) /\ work'[w].pc \in {"done", "fail"}
    BY <1>4, GotoShape, ReturnShape DEF MarkAnchored, Statement, TypeInv, PC, Outcome
  <2>3. row'[d] \in {row[d], markAnchored(row[d], t)} /\ UNCHANGED chain
    BY <1>4, <2>1 DEF MarkAnchored, Statement, TypeInv
  <2>4. row'[d].attempts = row[d].attempts
    BY <1>1, <2>3, AnchoredRow
  <2>5. QED
    BY <1>1, <2>2, <2>3, <2>4, PaidUp, QuietSpend
<1>5. ASSUME NEW w \in Worker, RecordSentTx(w) PROVE Spent(d)'
  <2>1. PICK e \in Decl, t \in Tx : e = work[w].decl /\ t = work[w].tx
    BY <1>5 DEF RecordSentTx, TypeInv, GoodWork, HoldsTx
  <2>2. Others(w) /\ work'[w].pc \in {"wait", "fail"}
    BY <1>5, GotoShape DEF RecordSentTx, TypeInv, PC
  <2>3. row'[d] \in {row[d], recordSentTx(row[d], t)} /\ UNCHANGED chain
    BY <1>5, <2>1 DEF RecordSentTx, TypeInv
  <2>4. row'[d].attempts = row[d].attempts
    BY <1>1, <2>3, RecordRow
  <2>5. QED
    BY <1>1, <2>2, <2>3, <2>4, PaidUp, QuietSpend
<1>6. ASSUME NEW w \in Worker, MarkAttemptFailed(w) PROVE Spent(d)'
  <2>1. \E o \in Outcome : Return(w, o)
    BY <1>6 DEF MarkAttemptFailed, Outcome
  <2>2. Others(w) /\ work'[w].pc = "done"
    BY <2>1, ReturnShape DEF TypeInv
  <2>3. row'[d] \in {row[d], markAttemptFailed(row[d])} /\ UNCHANGED chain
    BY <1>6 DEF MarkAttemptFailed, TypeInv
  <2>4. row'[d].attempts = row[d].attempts
    BY <1>1, <2>3, FailedRow
  <2>5. QED
    BY <1>1, <2>2, <2>3, <2>4, PaidUp, QuietSpend
<1>7. ASSUME NEW w \in Worker, Finish(w) \/ Crash(w) PROVE Spent(d)'
  <2>1. Others(w) /\ work'[w].pc = "idle" /\ UNCHANGED <<row, chain>>
    BY <1>7 DEF Finish, Crash, Others, Idle, TypeInv
  <2>2. QED
    BY <1>1, <2>1, PaidUp, QuietSpend
<1>8. CASE (\E t \in Tx : Mine(t)) \/ BalanceChanges \/ UNCHANGED vars
  <2>1. TxsOf(d)' = TxsOf(d)
    BY <1>8 DEF Mine, BalanceChanges, vars, TxsOf, TypeInv, ChainTx
  <2>2. Paying(d)' = Paying(d) /\ row'[d] = row[d]
    BY <1>8 DEF Mine, BalanceChanges, vars, Paying
  <2>3. QED
    BY <1>1, <2>1, <2>2, SpentKeeps
<1>9. QED
  BY <1>1, <1>2, <1>3, <1>4, <1>5, <1>6, <1>7, <1>8, ReleaseSpend, SendSpend, ClaimSpend
     DEF Next, WorkerStep
-----------------------------------------------------------------------------
(***************************************************************************)
(* The budget.                                                             *)
(***************************************************************************)
LEMMA LimitType ==
  TypeInv => Limit \in Nat /\ Limit >= MaxAttempts /\ MaxAttempts \in Nat /\ Limit > 0
BY MaxAttemptsAssumption DEF TypeInv, FaultLog, Limit

LEMMA LimitStep ==
  ASSUME TypeInv, [Next]_vars
  PROVE  Limit' \in Nat /\ Limit' >= Limit
<1>1. TypeInv'
  BY TypeStep
<1>2. faults' = faults \/ faults' = [faults EXCEPT !.used = faults.used + 1]
  BY DEF Next, WorkerStep, Accept, LeaseExpires, CheckPrev, MarkAnchored, CheckBalance,
         ReleaseClaim, Send, RecordSentTx, AwaitReceipt, MarkAttemptFailed, Finish,
         Crash, Claim, ClaimFails, Skip, Mine, BalanceChanges, Statement, May, Breaks, vars
<1>3. faults.used \in Nat /\ faults'.used \in Nat
      /\ (faults'.used = faults.used \/ faults'.used = faults.used + 1)
  BY <1>1, <1>2 DEF TypeInv, FaultLog
<1>4. QED
  BY <1>3, MaxAttemptsAssumption DEF Limit

LEMMA LimitBreaks ==
  ASSUME TypeInv, NEW kind, Breaks(kind)
  PROVE  Limit' = Limit + 1
<1>1. faults.used \in Nat /\ faults'.used = faults.used + 1
  BY DEF TypeInv, FaultLog, Breaks
<1>2. QED
  BY <1>1, MaxAttemptsAssumption DEF Limit

\* No attempt of d is counted, and if d is let go of, the limit has grown.
LEMMA BudgetKeeps ==
  ASSUME TypeInv, [Next]_vars, NEW d \in Decl, Budget(d),
         row'[d].attempts = row[d].attempts,
         Ready(d)' => Ready(d) \/ Limit' > Limit
  PROVE  Budget(d)'
<1>1. row[d].attempts \in Nat /\ Limit \in Nat /\ Limit' \in Nat /\ Limit' >= Limit
  BY LimitType, LimitStep DEF TypeInv, Row
<1>2. QED
  BY <1>1 DEF Budget

\* The same for a row that does not change and is held as before.
LEMMA BudgetHeld ==
  ASSUME TypeInv, [Next]_vars, NEW d \in Decl, Budget(d), NEW w \in Worker, Others(w),
         row'[d].attempts = row[d].attempts, row'[d].state = row[d].state,
         row'[d].lease = row[d].lease, Holds(w, d) => Holds(w, d)'
  PROVE  Budget(d)'
<1>1. Holders(d) # {} => Holders(d)' # {}
  BY HoldersAfter
<1>2. Ready(d)' => Ready(d)
  BY <1>1 DEF Ready, Watched
<1>3. QED
  BY <1>2, BudgetKeeps

\* An UPDATE that ends a claim leaves an attempt, or nothing more to attempt.
LEMMA BudgetEnds ==
  ASSUME TypeInv, [Next]_vars, NEW d \in Decl, Budget(d),
         \/ \E t \in Tx : row'[d] = markAnchored(row[d], t)
         \/ row'[d] = markAttemptFailed(row[d])
         \/ row'[d] = releaseClaim(row[d])
  PROVE  Budget(d)'
<1>1. /\ row[d] \in Row /\ row[d].attempts \in Nat /\ row[d].attempts <= Limit
      /\ Limit \in Nat /\ Limit' \in Nat /\ Limit' >= Limit
      /\ MaxAttempts \in Nat /\ Limit >= MaxAttempts /\ Limit > 0
  BY LimitType, LimitStep DEF TypeInv, Row, Budget
<1>2. CASE row[d].state # "anchoring"
  <2>1. row'[d] = row[d]
    BY <1>1, <1>2, AnchoredRow, FailedRow, ReleasedRow
  <2>2. Ready(d)' => Ready(d)
    BY <1>2, <2>1 DEF Ready
  <2>3. QED
    BY <2>1, <2>2, BudgetKeeps
<1>3. CASE row[d].state = "anchoring" /\ \E t \in Tx : row'[d] = markAnchored(row[d], t)
  <2>1. row'[d].state = "anchored" /\ row'[d].attempts = row[d].attempts
    BY <1>1, <1>3, AnchoredRow
  <2>2. QED
    BY <2>1, BudgetKeeps DEF Ready
<1>4. CASE row[d].state = "anchoring" /\ row'[d] = markAttemptFailed(row[d])
  <2>1. /\ row'[d].attempts = row[d].attempts
        /\ row'[d].state = IF row[d].attempts >= MaxAttempts THEN "failed" ELSE "pending"
    BY <1>1, <1>4, FailedRow
  <2>2. CASE row[d].attempts >= MaxAttempts
    BY <2>1, <2>2, BudgetKeeps DEF Ready
  <2>3. CASE ~(row[d].attempts >= MaxAttempts)
    BY <1>1, <2>1, <2>3 DEF Budget
  <2>4. QED
    BY <2>2, <2>3
<1>5. CASE row[d].state = "anchoring" /\ row'[d] = releaseClaim(row[d])
  <2>1. row'[d].attempts = IF row[d].attempts > 0 THEN row[d].attempts - 1 ELSE 0
    BY <1>1, <1>5, ReleasedRow
  <2>2. QED
    BY <1>1, <2>1 DEF Budget
<1>6. QED
  BY <1>2, <1>3, <1>4, <1>5

LEMMA ClaimBudget ==
  ASSUME TypeInv, [Next]_vars, NEW d \in Decl, Budget(d), NEW w \in Worker,
         NEW e \in Decl, Claim(w, e) \/ ClaimFails(w, e) \/ Skip(w, e)
  PROVE  Budget(d)'
<1>1. Others(w) /\ work[w].pc = "idle" /\ ~Holds(w, d)
  BY DEF Claim, ClaimFails, Skip, Others, Holds, TypeInv
<1>2. row[d] \in Row /\ row[d].attempts \in Nat
  BY DEF TypeInv, Row
<1>3. CASE row'[d] = row[d]
  BY <1>1, <1>3, BudgetHeld
<1>4. CASE row'[d] # row[d]
  <2>1. /\ d = e /\ row'[d] = claimForAnchoring(row[d]) /\ Claimable(row[d])
        /\ Claim(w, d) \/ Breaks("lostReply")
    BY <1>4 DEF Claim, ClaimFails, Skip, TypeInv
  <2>2. /\ row'[d].state = "anchoring" /\ row'[d].lease = "live"
        /\ row'[d].attempts = row[d].attempts + 1
    BY <1>2, <2>1, ClaimRow
  <2>3. Ready(d)
    BY <2>1 DEF Claimable, Ready, Watched
  <2>4. row[d].attempts < Limit /\ Limit \in Nat /\ Limit' \in Nat /\ Limit' >= Limit
    BY <2>3, LimitType, LimitStep DEF Budget
  <2>5. CASE Claim(w, d)
    <3>1. Holds(w, d)'
      BY <2>5 DEF Claim, Holds, TypeInv
    <3>2. ~Ready(d)'
      BY <2>2, <3>1 DEF Ready, Watched, Holders
    <3>3. QED
      BY <1>2, <2>2, <2>4, <3>2 DEF Budget
  <2>6. CASE Breaks("lostReply")
    <3>1. Limit' = Limit + 1
      BY <2>6, LimitBreaks
    <3>2. QED
      BY <1>2, <2>2, <2>4, <3>1 DEF Budget
  <2>7. QED
    BY <2>1, <2>5, <2>6
<1>5. QED
  BY <1>3, <1>4

LEMMA BudgetStep == TypeInv /\ BudgetInv /\ [Next]_vars => BudgetInv'
<1> SUFFICES ASSUME TypeInv, BudgetInv, [Next]_vars, NEW d \in Decl
             PROVE  Budget(d)'
  BY DEF BudgetInv
<1>1. Budget(d) /\ row[d] \in Row
  BY DEF BudgetInv, TypeInv
<1>2. ASSUME NEW e \in Decl, Accept(e) PROVE Budget(d)'
  <2>1. row'[d].attempts = row[d].attempts /\ UNCHANGED work
    BY <1>1, <1>2, InsertRow DEF Accept, TypeInv
  <2>2. row'[d] = row[d] \/ row[d].state = "absent"
    BY <1>2 DEF Accept, TypeInv
  <2>3. Ready(d)' => Ready(d)
    BY <2>1, <2>2 DEF Ready, Watched, Holders, Holds
  <2>4. QED
    BY <1>1, <2>1, <2>3, BudgetKeeps
<1>3. ASSUME NEW e \in Decl, LeaseExpires(e) PROVE Budget(d)'
  <2>1. /\ row'[d].attempts = row[d].attempts /\ row'[d].state = row[d].state
        /\ UNCHANGED work /\ (d # e => row'[d] = row[d])
    BY <1>1, <1>3 DEF LeaseExpires, TypeInv, Row
  <2>2. Holders(d)' = Holders(d)
    BY <2>1 DEF Holders, Holds
  <2>3. CASE d # e \/ Holders(d) = {}
    <3>1. Ready(d)' => Ready(d)
      BY <2>1, <2>2, <2>3 DEF Ready, Watched
    <3>2. QED
      BY <1>1, <2>1, <3>1, BudgetKeeps
  <2>4. CASE d = e /\ Holders(d) # {}
    <3>1. Limit' = Limit + 1 /\ Limit \in Nat
      BY <1>3, <2>4, LimitBreaks, LimitType DEF LeaseExpires
    <3>2. QED
      BY <1>1, <2>1, <3>1, BudgetKeeps
  <2>5. QED
    BY <2>3, <2>4
<1>4. ASSUME NEW w \in Worker, CheckPrev(w) \/ CheckBalance(w) \/ AwaitReceipt(w)
      PROVE  Budget(d)'
  <2>1. PICK pc \in {"balance", "markPrev", "send", "release", "fail", "mark"} :
          Goto(w, pc) /\ UNCHANGED row
    BY <1>4 DEF CheckPrev, CheckBalance, AwaitReceipt, May
  <2>2. Others(w) /\ work'[w].pc = pc /\ work'[w].decl = work[w].decl
    BY <2>1, GotoShape DEF TypeInv, PC
  <2>3. Holds(w, d) => Holds(w, d)'
    BY <2>2 DEF Holds
  <2>4. QED
    BY <1>1, <2>1, <2>2, <2>3, BudgetHeld
<1>5. ASSUME NEW w \in Worker, Send(w) PROVE Budget(d)'
  <2>1. Others(w) /\ work'[w].pc \in {"record", "fail"} /\ work'[w].decl = work[w].decl
    <3>1. CASE Goto(w, "fail")
      BY <3>1, GotoShape DEF TypeInv, PC
    <3>2. ASSUME NEW t \in Tx, work' = [work EXCEPT ![w].pc = "record", ![w].tx = t]
          PROVE  /\ Others(w) /\ work'[w].pc = "record"
                 /\ work'[w].decl = work[w].decl
      BY <3>2 DEF Others, TypeInv, GoodWork, Work
    <3>3. QED
      BY <1>5, <3>1, <3>2 DEF Send
  <2>2. (Holds(w, d) => Holds(w, d)') /\ row'[d] = row[d]
    BY <1>5, <2>1 DEF Send, Holds
  <2>3. QED
    BY <1>1, <2>1, <2>2, BudgetHeld
<1>6. ASSUME NEW w \in Worker, RecordSentTx(w) PROVE Budget(d)'
  <2>1. PICK e \in Decl, t \in Tx : e = work[w].decl /\ t = work[w].tx
    BY <1>6 DEF RecordSentTx, TypeInv, GoodWork, HoldsTx
  <2>2. /\ Others(w) /\ work'[w].pc \in {"wait", "fail"}
        /\ work'[w].decl = work[w].decl
    BY <1>6, GotoShape DEF RecordSentTx, TypeInv, PC
  <2>3. row'[d] \in {row[d], recordSentTx(row[d], t)}
    BY <1>6, <2>1 DEF RecordSentTx, TypeInv
  <2>4. /\ row'[d].attempts = row[d].attempts /\ row'[d].state = row[d].state
        /\ row'[d].lease = row[d].lease
    BY <1>1, <2>3, RecordRow
  <2>5. Holds(w, d) => Holds(w, d)'
    BY <2>2 DEF Holds
  <2>6. QED
    BY <1>1, <2>2, <2>4, <2>5, BudgetHeld
<1>7. ASSUME NEW w \in Worker, MarkAnchored(w) \/ ReleaseClaim(w) PROVE Budget(d)'
  <2>1. PICK e \in Decl : e = work[w].decl
    BY <1>7 DEF MarkAnchored, ReleaseClaim, TypeInv, GoodWork
  <2>2. MarkAnchored(w) => \E t \in Tx : t = work[w].tx
    BY <1>7 DEF MarkAnchored, TypeInv, GoodWork, HoldsTx
  <2>3. \/ Goto(w, "fail") /\ row'[d] = row[d]
        \/ d # e /\ row'[d] = row[d]
        \/ \E t \in Tx : row'[d] = markAnchored(row[d], t)
        \/ row'[d] = releaseClaim(row[d])
    BY <1>7, <2>1, <2>2 DEF MarkAnchored, ReleaseClaim, Statement, TypeInv
  <2>4. Others(w)
    BY <1>7, GotoShape, ReturnShape
       DEF MarkAnchored, ReleaseClaim, Statement, TypeInv, PC, Outcome
  <2>5. CASE Goto(w, "fail") /\ row'[d] = row[d]
    <3>1. Holds(w, d) => Holds(w, d)'
      BY <2>5, GotoShape DEF TypeInv, PC, Holds
    <3>2. QED
      BY <1>1, <2>4, <2>5, <3>1, BudgetHeld
  <2>6. CASE d # e /\ row'[d] = row[d]
    <3>1. ~Holds(w, d)
      BY <2>1, <2>6 DEF Holds
    <3>2. QED
      BY <1>1, <2>4, <2>6, <3>1, BudgetHeld
  <2>7. QED
    BY <1>1, <2>3, <2>5, <2>6, BudgetEnds
<1>8. ASSUME NEW w \in Worker, MarkAttemptFailed(w) PROVE Budget(d)'
  <2>1. PICK e \in Decl : e = work[w].decl
    BY <1>8 DEF MarkAttemptFailed, TypeInv, GoodWork
  <2>2. \E o \in Outcome : Return(w, o)
    BY <1>8 DEF MarkAttemptFailed, Outcome
  <2>3. Others(w)
    BY <2>2, ReturnShape DEF TypeInv
  <2>4. \/ d # e /\ row'[d] = row[d]
        \/ row'[d] = markAttemptFailed(row[d])
        \/ Breaks("db") /\ row'[d] = row[d]
    BY <1>8, <2>1 DEF MarkAttemptFailed, TypeInv
  <2>5. CASE d # e /\ row'[d] = row[d]
    <3>1. ~Holds(w, d)
      BY <2>1, <2>5 DEF Holds
    <3>2. QED
      BY <1>1, <2>3, <2>5, <3>1, BudgetHeld
  <2>6. CASE Breaks("db") /\ row'[d] = row[d]
    <3>1. Limit' = Limit + 1 /\ Limit \in Nat
      BY <2>6, LimitBreaks, LimitType
    <3>2. QED
      BY <1>1, <2>6, <3>1, BudgetKeeps
  <2>7. QED
    BY <1>1, <2>4, <2>5, <2>6, BudgetEnds
<1>9. ASSUME NEW w \in Worker, Finish(w) PROVE Budget(d)'
  <2>1. Others(w) /\ ~Holds(w, d) /\ row'[d] = row[d]
    BY <1>9 DEF Finish, Others, Holds, TypeInv
  <2>2. QED
    BY <1>1, <2>1, BudgetHeld
<1>10. ASSUME NEW w \in Worker, Crash(w) PROVE Budget(d)'
  <2>1. Limit' = Limit + 1 /\ Limit \in Nat
    BY <1>10, LimitBreaks, LimitType DEF Crash
  <2>2. row'[d] = row[d]
    BY <1>10 DEF Crash
  <2>3. QED
    BY <1>1, <2>1, <2>2, BudgetKeeps
<1>11. CASE (\E t \in Tx : Mine(t)) \/ BalanceChanges \/ UNCHANGED vars
  <2>1. UNCHANGED <<row, work>>
    BY <1>11 DEF Mine, BalanceChanges, vars
  <2>2. Ready(d)' => Ready(d)
    BY <2>1 DEF Ready, Watched, Holders, Holds
  <2>3. QED
    BY <1>1, <2>1, <2>2, BudgetKeeps
<1>12. QED
  BY <1>1, <1>2, <1>3, <1>4, <1>5, <1>6, <1>7, <1>8, <1>9, <1>10, <1>11, ClaimBudget
     DEF Next, WorkerStep
-----------------------------------------------------------------------------
\* Gas is paid for counted attempts only, and a declaration has MaxAttempts of
\* them and one for each claim dropped or outlived: claimForAnchoring counts
\* before anything is sent, and releaseClaim uncounts what it did not send.
THEOREM AttemptsBoundSpending == Spec => []SpendBounded
<1>1. Spec => [](TypeInv /\ SpendInv /\ BudgetInv)
  BY TypeInit, TypeStep, SpendInit, SpendStep, BudgetStep, PTL DEF Spec
<1>2. ASSUME TypeInv, SpendInv, BudgetInv PROVE SpendBounded
  <2>1. ASSUME NEW d \in Decl PROVE Cardinality(TxsOf(d)) <= row[d].attempts
    <3>1. Spent(d) /\ row[d].attempts \in Nat
      BY <1>2 DEF SpendInv, TypeInv, Row
    <3>2. Cardinality(TxsOf(d)) \in Nat /\ Cardinality(Paying(d)) \in Nat
      BY <3>1, SpentSizes
    <3>3. QED
      BY <3>1, <3>2 DEF Spent
  <2>2. ASSUME NEW d \in Decl PROVE row[d].attempts <= MaxAttempts + faults.used
    BY <1>2 DEF BudgetInv, Budget, Limit
  <2>3. QED
    BY <2>1, <2>2 DEF SpendBounded
<1>3. QED
  BY <1>1, <1>2, PTL
-----------------------------------------------------------------------------
(***************************************************************************)
(* The steps there are while no lease runs out under a worker and no reply *)
(* is lost: a worker goes on with its declaration, drops what it had, or   *)
(* claims one; or no worker moves.                                         *)
(***************************************************************************)
Safe == Without({"stall", "lostReply"})

\* From one await to the next, with nothing written.
GoesOn(w, e) ==
  /\ row' = row /\ chain' = chain /\ work'[w].decl = e /\ work'[w].tx = work[w].tx
  /\ \/ work[w].pc = "claimed" /\ work'[w].pc = "markPrev"
     \/ /\ work[w].pc = "claimed" /\ work'[w].pc = "balance"
        /\ work[w].tx = NoTx \/ NotFound(work[w].tx) \/ "prevLost" \in faults.may
     \/ work[w].pc = "balance" /\ work'[w].pc \in {"send", "release"}
     \/ work[w].pc = "wait" /\ work'[w].pc = "mark"
     \/ work[w].pc = "wait" /\ work'[w].pc = "fail" /\ NotFound(work[w].tx)
     \/ work'[w].pc = "fail" /\ {"db", "rpc", "unrecorded"} \cap faults.may # {}
        /\ (work[w].pc = "record" => "unrecorded" \in faults.may)

Sends(w, e) ==
  /\ work[w].pc = "send" /\ row' = row /\ work'[w].decl = e
  /\ \E t \in Tx :
       /\ Broadcast(t, e)
       /\ \/ work'[w].pc = "record" /\ work'[w].tx = t
          \/ work'[w].pc = "fail" /\ "unrecorded" \in faults.may

Stores(w, e) ==
  /\ work[w].pc = "record" /\ work'[w].pc = "wait" /\ work'[w].decl = e
  /\ work'[w].tx = work[w].tx /\ chain' = chain
  /\ row'[e] = recordSentTx(row[e], work[w].tx)

\* Its last statement.
Returns(w, e) ==
  /\ work'[w].pc = "done" /\ chain' = chain
  /\ \/ work[w].pc \in {"markPrev", "mark"} /\ row'[e] = markAnchored(row[e], work[w].tx)
     \/ work[w].pc = "release" /\ row'[e] = releaseClaim(row[e])
     \/ work[w].pc = "fail" /\ row'[e] \in {row[e], markAttemptFailed(row[e])}

Move(w, e) ==
  /\ Others(w) /\ OtherRows(e) /\ Holds(w, e)
  /\ GoesOn(w, e) \/ Sends(w, e) \/ Stores(w, e) \/ Returns(w, e)

Drop(w) ==
  /\ Others(w) /\ row' = row /\ chain' = chain /\ work'[w].pc \in {"idle", "done"}
  /\ work[w].pc = "record" => "unrecorded" \in faults.may

Around ==
  /\ work' = work
  /\ \A t \in Tx : /\ chain'[t].decl = chain[t].decl
                   /\ chain[t].status = "unsent" => chain'[t] = chain[t]
  /\ \A d \in Decl :
       /\ row'[d].tx = row[d].tx
       /\ row'[d].state = "failed" => row[d].state = "failed"
       /\ Holders(d) # {} /\ row[d].state = "anchoring" => row'[d] = row[d]

LEMMA MoveStep ==
  ASSUME TypeInv, Safe, NEW w \in Worker, WorkerStep(w), ~Finish(w)
  PROVE  \E e \in Decl : Move(w, e)
<1>1. "lostReply" \notin faults.may
  BY DEF Safe, Without
<1>2. work[w].pc \notin {"idle", "done"}
  BY DEF WorkerStep, CheckPrev, MarkAnchored, CheckBalance, ReleaseClaim, Send,
         RecordSentTx, AwaitReceipt, MarkAttemptFailed
<1>3. PICK e \in Decl : work[w].decl = e /\ Holds(w, e)
  BY <1>2 DEF TypeInv, GoodWork, Holds
<1>4. ASSUME NEW pc \in PC, Goto(w, pc), row' = row, chain' = chain
      PROVE  /\ Others(w) /\ OtherRows(e) /\ work'[w].pc = pc /\ work'[w].decl = e
             /\ work'[w].tx = work[w].tx
  BY <1>3, <1>4, GotoShape DEF OtherRows, TypeInv
<1>5. CASE CheckPrev(w)
  <2>1. /\ work[w].pc = "claimed" /\ row' = row /\ chain' = chain
        /\ \/ Goto(w, "markPrev")
           \/ /\ Goto(w, "balance")
              /\ work[w].tx = NoTx \/ NotFound(work[w].tx) \/ "prevLost" \in faults.may
    BY <1>5 DEF CheckPrev, May
  <2>2. GoesOn(w, e) /\ Others(w) /\ OtherRows(e)
    BY <1>4, <2>1 DEF GoesOn, PC
  <2>3. QED
    BY <1>3, <2>2 DEF Move
<1>6. CASE CheckBalance(w)
  <2>1. /\ work[w].pc = "balance" /\ row' = row /\ chain' = chain
        /\ \/ Goto(w, "send") \/ Goto(w, "release")
           \/ Goto(w, "fail") /\ "rpc" \in faults.may
    BY <1>6 DEF CheckBalance, May
  <2>2. GoesOn(w, e) /\ Others(w) /\ OtherRows(e)
    BY <1>4, <2>1 DEF GoesOn, PC
  <2>3. QED
    BY <1>3, <2>2 DEF Move
<1>7. CASE AwaitReceipt(w)
  <2>1. /\ work[w].pc = "wait" /\ row' = row /\ chain' = chain
        /\ \/ Goto(w, "mark")
           \/ Goto(w, "fail") /\ (NotFound(work[w].tx) \/ "rpc" \in faults.may)
    BY <1>7 DEF AwaitReceipt, May
  <2>2. GoesOn(w, e) /\ Others(w) /\ OtherRows(e)
    BY <1>4, <2>1 DEF GoesOn, PC
  <2>3. QED
    BY <1>3, <2>2 DEF Move
<1>8. CASE MarkAnchored(w) \/ ReleaseClaim(w)
  <2>1. CASE Goto(w, "fail") /\ "db" \in faults.may /\ row' = row /\ chain' = chain
             /\ work[w].pc # "record"
    <3>1. GoesOn(w, e) /\ Others(w) /\ OtherRows(e)
      BY <1>4, <2>1 DEF GoesOn, PC
    <3>2. QED
      BY <1>3, <3>1 DEF Move
  <2>2. CASE /\ \E o \in Outcome : Return(w, o)
             /\ OtherRows(e) /\ chain' = chain
             /\ \/ work[w].pc \in {"markPrev", "mark"}
                   /\ row'[e] = markAnchored(row[e], work[w].tx)
                \/ work[w].pc = "release" /\ row'[e] = releaseClaim(row[e])
    <3>1. Others(w) /\ Returns(w, e)
      BY <2>2, ReturnShape DEF Returns, TypeInv
    <3>2. QED
      BY <1>3, <2>2, <3>1 DEF Move
  <2>3. QED
    BY <1>1, <1>3, <1>8, <2>1, <2>2
       DEF MarkAnchored, ReleaseClaim, Statement, May, TypeInv, OtherRows, Outcome
<1>9. CASE MarkAttemptFailed(w)
  <2>1. \E o \in Outcome : Return(w, o)
    BY <1>9 DEF MarkAttemptFailed, Outcome
  <2>2. /\ OtherRows(e) /\ chain' = chain /\ work[w].pc = "fail"
        /\ row'[e] \in {row[e], markAttemptFailed(row[e])}
    BY <1>3, <1>9 DEF MarkAttemptFailed, TypeInv, OtherRows
  <2>3. Others(w) /\ Returns(w, e)
    BY <2>1, <2>2, ReturnShape DEF Returns, TypeInv
  <2>4. QED
    BY <1>3, <2>2, <2>3 DEF Move
<1>10. CASE RecordSentTx(w)
  <2>1. /\ work[w].pc = "record" /\ chain' = chain
        /\ \/ /\ Goto(w, "wait") /\ OtherRows(e)
              /\ row'[e] = recordSentTx(row[e], work[w].tx)
           \/ Goto(w, "fail") /\ "unrecorded" \in faults.may /\ row' = row
    BY <1>1, <1>3, <1>10 DEF RecordSentTx, May, TypeInv, OtherRows
  <2>2. CASE Goto(w, "wait") /\ OtherRows(e) /\ row'[e] = recordSentTx(row[e], work[w].tx)
    <3>1. Stores(w, e) /\ Others(w)
      BY <1>3, <2>1, <2>2, GotoShape DEF Stores, PC, TypeInv
    <3>2. QED
      BY <1>3, <2>2, <3>1 DEF Move
  <2>3. CASE Goto(w, "fail") /\ "unrecorded" \in faults.may /\ row' = row
    <3>1. GoesOn(w, e) /\ Others(w) /\ OtherRows(e)
      BY <1>4, <2>1, <2>3 DEF GoesOn, PC
    <3>2. QED
      BY <1>3, <3>1 DEF Move
  <2>4. QED
    BY <2>1, <2>2, <2>3
<1>11. CASE Send(w)
  <2>1. /\ work[w].pc = "send" /\ row' = row
        /\ \/ \E t \in Tx :
                /\ Broadcast(t, e)
                /\ \/ work' = [work EXCEPT ![w].pc = "record", ![w].tx = t]
                   \/ Goto(w, "fail") /\ "unrecorded" \in faults.may
           \/ Goto(w, "fail") /\ "rpc" \in faults.may /\ chain' = chain
    BY <1>3, <1>11 DEF Send, May
  <2>2. CASE Goto(w, "fail") /\ "rpc" \in faults.may /\ chain' = chain
    <3>1. GoesOn(w, e) /\ Others(w) /\ OtherRows(e)
      BY <1>4, <2>1, <2>2 DEF GoesOn, PC
    <3>2. QED
      BY <1>3, <3>1 DEF Move
  <2>3. ASSUME NEW t \in Tx, Broadcast(t, e),
               \/ work' = [work EXCEPT ![w].pc = "record", ![w].tx = t]
               \/ Goto(w, "fail") /\ "unrecorded" \in faults.may
        PROVE  Move(w, e)
    <3>1. CASE work' = [work EXCEPT ![w].pc = "record", ![w].tx = t]
      <4>1. /\ Others(w) /\ work'[w].pc = "record" /\ work'[w].tx = t
            /\ work'[w].decl = e
        BY <1>3, <3>1 DEF Others, TypeInv, GoodWork, Work
      <4>2. QED
        BY <1>3, <2>1, <2>3, <4>1 DEF Move, Sends, OtherRows
    <3>2. CASE Goto(w, "fail") /\ "unrecorded" \in faults.may
      <4>1. Others(w) /\ work'[w].pc = "fail" /\ work'[w].decl = e
        BY <1>3, <3>2, GotoShape DEF PC, TypeInv
      <4>2. QED
        BY <1>3, <2>1, <2>3, <3>2, <4>1 DEF Move, Sends, OtherRows
    <3>3. QED
      BY <2>3, <3>1, <3>2
  <2>4. QED
    BY <2>1, <2>2, <2>3
<1>12. QED
  BY <1>5, <1>6, <1>7, <1>8, <1>9, <1>10, <1>11 DEF WorkerStep

LEMMA SafeStep ==
  ASSUME TypeInv, Safe, [Next]_vars
  PROVE  \/ \E w \in Worker, e \in Decl : Move(w, e)
         \/ \E w \in Worker : Drop(w)
         \/ \E w \in Worker, e \in Decl : Claim(w, e)
         \/ Around
<1>1. "lostReply" \notin faults.may /\ "stall" \notin faults.may
  BY DEF Safe, Without
<1>2. ASSUME NEW e \in Decl, Accept(e) PROVE Around
  <2>1. row'[e].tx = row[e].tx /\ row'[e].state = "pending"
    BY <1>2, InsertRow DEF Accept, TypeInv
  <2>2. QED
    BY <1>2, <2>1 DEF Accept, Around, TypeInv
<1>3. ASSUME NEW e \in Decl, LeaseExpires(e) PROVE Around
  <2>1. Holders(e) = {}
    BY <1>1, <1>3 DEF LeaseExpires, Breaks
  <2>2. row'[e].tx = row[e].tx /\ row'[e].state = row[e].state
    BY <1>3 DEF LeaseExpires, TypeInv, Row
  <2>3. QED
    BY <1>3, <2>1, <2>2 DEF LeaseExpires, Around, TypeInv
<1>4. ASSUME NEW w \in Worker, Finish(w) \/ Crash(w) PROVE Drop(w)
  BY <1>4 DEF Finish, Crash, Breaks, Drop, Others, Idle, TypeInv
<1>5. ASSUME NEW w \in Worker, NEW e \in Decl, ClaimFails(w, e) \/ Skip(w, e)
      PROVE  Drop(w)
  BY <1>1, <1>5 DEF ClaimFails, Skip, Breaks, May, Drop, Others, TypeInv
<1>6. CASE (\E t \in Tx : Mine(t)) \/ BalanceChanges \/ UNCHANGED vars
  BY <1>6 DEF Mine, BalanceChanges, vars, Around, TypeInv, ChainTx
<1>7. QED
  BY <1>2, <1>3, <1>4, <1>5, <1>6, MoveStep DEF Next, WorkerStep

LEMMA MayStays ==
  [Next]_vars => faults'.may = faults.may \/ faults \notin FaultLog
<1> SUFFICES ASSUME [Next]_vars, faults \in FaultLog PROVE faults'.may = faults.may
  OBVIOUS
<1>1. faults' = faults \/ faults' = [faults EXCEPT !.used = faults.used + 1]
  BY DEF Next, WorkerStep, Accept, LeaseExpires, CheckPrev, MarkAnchored, CheckBalance,
         ReleaseClaim, Send, RecordSentTx, AwaitReceipt, MarkAttemptFailed, Finish,
         Crash, Claim, ClaimFails, Skip, Mine, BalanceChanges, Statement, May, Breaks, vars
<1>2. QED
  BY <1>1 DEF FaultLog
-----------------------------------------------------------------------------
(***************************************************************************)
(* Claims are exclusive: who holds a row holds its live lease, alone.      *)
(***************************************************************************)
Exclusive(w, d) ==
  Holds(w, d) => /\ row[d].state = "anchoring" /\ row[d].lease = "live"
                 /\ \A v \in Worker : Holds(v, d) => v = w
ExclInv == Safe => \A w \in Worker, d \in Decl : Exclusive(w, d)

LEMMA ExclInit == Init => ExclInv
BY DEF Init, Idle, ExclInv, Exclusive, Holds

\* Nobody comes to hold d, and who holds it finds it as it was.
LEMMA ExclKeeps ==
  ASSUME NEW d \in Decl, \A w \in Worker : Exclusive(w, d),
         \A w \in Worker : Holds(w, d)' =>
           Holds(w, d) /\ row'[d].state = row[d].state /\ row'[d].lease = row[d].lease
  PROVE  \A w \in Worker : Exclusive(w, d)'
BY DEF Exclusive

LEMMA OthersHold ==
  ASSUME NEW d \in Decl, NEW w \in Worker, Others(w)
  PROVE  \A v \in Worker : v # w => (Holds(v, d)' <=> Holds(v, d))
BY DEF Others, Holds

\* Every move of w is within the one declaration it holds.
LEMMA MoveHolds ==
  ASSUME NEW w \in Worker, NEW e \in Decl, Move(w, e)
  PROVE  \A d \in Decl : Holds(w, d)' => d = e /\ Holds(w, d) /\ ~Returns(w, e)
BY DEF Move, GoesOn, Sends, Stores, Returns, Holds

LEMMA ExclStep == TypeInv /\ ExclInv /\ [Next]_vars => ExclInv'
<1> SUFFICES ASSUME TypeInv, ExclInv, [Next]_vars, Safe, NEW d \in Decl
             PROVE  \A w \in Worker : Exclusive(w, d)'
  BY MayStays DEF ExclInv, Safe, Without, TypeInv
<1>1. /\ row[d] \in Row /\ \A w \in Worker : Exclusive(w, d)
  BY DEF TypeInv, ExclInv
<1>2. ASSUME NEW w \in Worker, NEW e \in Decl, Move(w, e)
      PROVE  \A v \in Worker : Exclusive(v, d)'
  <2>1. \A v \in Worker : Holds(v, d)' => Holds(v, d)
    BY <1>2, OthersHold, MoveHolds DEF Move
  <2>2. CASE d # e
    BY <1>1, <1>2, <2>1, <2>2, ExclKeeps DEF Move, OtherRows
  <2>3. CASE d = e /\ Returns(w, e)
    <3>1. \A v \in Worker : ~Holds(v, d)'
      BY <1>1, <1>2, <2>1, <2>3, MoveHolds DEF Exclusive, Move
    <3>2. QED
      BY <3>1 DEF Exclusive
  <2>4. CASE d = e /\ ~Returns(w, e)
    <3>1. row'[d] = row[d] \/ (work[w].pc = "record" /\ row'[d] = recordSentTx(row[d], work[w].tx))
      BY <1>2, <2>4 DEF Move, GoesOn, Sends, Stores
    <3>2. work[w].pc = "record" => work[w].tx \in Tx
      BY DEF TypeInv, GoodWork, HoldsTx
    <3>3. row'[d].state = row[d].state /\ row'[d].lease = row[d].lease
      BY <1>1, <3>1, <3>2, RecordRow
    <3>4. QED
      BY <1>1, <2>1, <3>3, ExclKeeps
  <2>5. QED
    BY <2>2, <2>3, <2>4
<1>3. ASSUME NEW w \in Worker, Drop(w) PROVE \A v \in Worker : Exclusive(v, d)'
  <2>1. ~Holds(w, d)' /\ row'[d] = row[d]
    BY <1>3 DEF Drop, Holds
  <2>2. QED
    BY <1>1, <1>3, <2>1, OthersHold, ExclKeeps DEF Drop
<1>4. ASSUME NEW w \in Worker, NEW e \in Decl, Claim(w, e)
      PROVE  \A v \in Worker : Exclusive(v, d)'
  <2>1. Others(w) /\ work'[w].decl = e /\ work'[w].pc = "claimed" /\ OtherRows(e)
    BY <1>4 DEF Claim, Others, OtherRows, TypeInv
  <2>2. CASE d # e
    <3>1. ~Holds(w, d)' /\ row'[d] = row[d]
      BY <2>1, <2>2 DEF Holds, OtherRows
    <3>2. QED
      BY <1>1, <2>1, <3>1, OthersHold, ExclKeeps
  <2>3. CASE d = e
    <3>1. \A v \in Worker : ~Holds(v, d)
      BY <1>1, <1>4, <2>3 DEF Claim, Claimable, Exclusive
    <3>2. row'[d].state = "anchoring" /\ row'[d].lease = "live"
      BY <1>1, <1>4, <2>3, ClaimRow DEF Claim, TypeInv
    <3>3. QED
      BY <2>1, <3>1, <3>2, OthersHold DEF Exclusive
  <2>4. QED
    BY <2>2, <2>3
<1>5. CASE Around
  <2>1. \A w \in Worker : Holds(w, d)' <=> Holds(w, d)
    BY <1>5 DEF Around, Holds
  <2>2. \A w \in Worker : Holds(w, d) => row'[d] = row[d]
    BY <1>1, <1>5 DEF Around, Holders, Exclusive
  <2>3. QED
    BY <1>1, <2>1, <2>2, ExclKeeps
<1>6. QED
  BY <1>2, <1>3, <1>4, <1>5, SafeStep

\* "Two workers never anchor the same row at once" (anchor.ts:6), as long as
\* no lease runs out under a worker and no reply of a statement is lost.
THEOREM ClaimsExclude == Spec => []ClaimIsExclusive
<1>1. Spec => []ExclInv
  BY TypeInit, TypeStep, ExclInit, ExclStep, PTL DEF Spec
<1>2. ExclInv => ClaimIsExclusive
  BY DEF ExclInv, Exclusive, Safe, ClaimIsExclusive
<1>3. QED
  BY <1>1, <1>2, PTL
-----------------------------------------------------------------------------
(***************************************************************************)
(* Transactions. Those of a declaration that can still anchor it are the   *)
(* one its row has stored and the one its holder is about to store.        *)
(***************************************************************************)
TxDecl == \A t \in Tx : /\ chain[t].status = "unsent" => chain[t].decl = NoDecl
                        /\ chain[t].status # "unsent" => chain[t].decl \in Decl

LEMMA TxDeclInit == Init => TxDecl
<1> SUFFICES ASSUME Init, NEW t \in Tx
             PROVE  chain[t].decl = NoDecl /\ chain[t].status = "unsent"
  BY DEF TxDecl
<1>1. chain[t] = NewTx
  BY DEF Init
<1>2. QED
  BY <1>1 DEF NewTx

\* A transaction that has been sent keeps its declaration and does not revive.
LEMMA TxStep ==
  ASSUME TypeInv, TxDecl, [Next]_vars
  PROVE  /\ TxDecl'
         /\ \A t \in Tx : chain[t].status # "unsent" =>
              /\ chain'[t].decl = chain[t].decl
              /\ Alive(t)' => Alive(t)
<1>1. ASSUME NEW w \in Worker, Send(w), UNCHANGED chain \/ chain' # chain
      PROVE  /\ TxDecl'
             /\ \A t \in Tx : chain[t].status # "unsent" => chain'[t] = chain[t]
  <2>1. work[w].decl \in Decl
    BY <1>1 DEF Send, TypeInv, GoodWork
  <2>2. CASE UNCHANGED chain
    BY <2>2 DEF TxDecl
  <2>3. ASSUME NEW u \in Tx, Broadcast(u, work[w].decl)
        PROVE  /\ TxDecl'
               /\ \A t \in Tx : chain[t].status # "unsent" => chain'[t] = chain[t]
    BY <2>1, <2>3 DEF Broadcast, TypeInv, TxDecl
  <2>4. QED
    BY <1>1, <2>2, <2>3 DEF Send
<1>2. ASSUME NEW u \in Tx, Mine(u)
      PROVE  /\ TxDecl'
             /\ \A t \in Tx : chain[t].status # "unsent" =>
                  chain'[t].decl = chain[t].decl /\ (Alive(t)' => Alive(t))
  BY <1>2 DEF Mine, TypeInv, ChainTx, TxDecl, Alive
<1>3. CASE UNCHANGED chain
  BY <1>3 DEF TxDecl, Alive
<1>4. QED
  BY <1>1, <1>2, <1>3
     DEF Next, WorkerStep, Accept, LeaseExpires, CheckPrev, MarkAnchored,
         CheckBalance, ReleaseClaim, RecordSentTx, AwaitReceipt,
         MarkAttemptFailed, Finish, Crash, Claim, ClaimFails, Skip,
         BalanceChanges, vars, Alive

\* The transaction a row has stored, if any, will not anchor it.
Dead(d) == row[d].tx = NoTx \/ ~Alive(row[d].tx)

LEMMA DeadStays ==
  ASSUME TypeInv, ProofInv, TxDecl, [Next]_vars, NEW d \in Decl, Dead(d),
         row'[d].tx = row[d].tx
  PROVE  Dead(d)'
<1>1. row[d].tx # NoTx => row[d].tx \in Tx /\ chain[row[d].tx].status # "unsent"
  BY DEF ProofInv, RowProof, SentFor
<1>2. row[d].tx # NoTx => (Alive(row[d].tx)' => Alive(row[d].tx))
  <2> SUFFICES ASSUME row[d].tx # NoTx, Alive(row[d].tx)' PROVE Alive(row[d].tx)
    OBVIOUS
  <2>1. PICK t \in Tx : t = row[d].tx /\ chain[t].status # "unsent"
    BY <1>1
  <2>2. Alive(t)'
    BY <2>1 DEF Alive
  <2>3. QED
    BY <2>1, <2>2, TxStep
<1>3. QED
  BY <1>2 DEF Dead, Alive
-----------------------------------------------------------------------------
(***************************************************************************)
(* What a holder knows of the hash in its row, while a receipt that cannot *)
(* be read is never taken for a missing one.                               *)
(***************************************************************************)
Kept(w, d) ==
  Holds(w, d) =>
    /\ work[w].pc \in {"claimed", "markPrev", "wait", "mark"} => work[w].tx = row[d].tx
    /\ work[w].pc \in {"balance", "send", "record"} => Dead(d)
Reads == Without({"stall", "lostReply", "prevLost"})
KeepInv == Reads => \A w \in Worker, d \in Decl : Kept(w, d)

LEMMA KeepInit == Init => KeepInv
BY DEF Init, Idle, KeepInv, Kept, Holds

\* The hash of a row changes only when it is stored after a broadcast.
LEMMA MoveTx ==
  ASSUME TypeInv, NEW w \in Worker, NEW e \in Decl, NEW d \in Decl, Move(w, e),
         Kept(w, e)
  PROVE  \/ d = e /\ Stores(w, e)
         \/ row'[d].tx = row[d].tx /\ ~(d = e /\ Stores(w, e))
<1>1. row[e] \in Row
  BY DEF TypeInv
<1>2. CASE d # e \/ GoesOn(w, e) \/ Sends(w, e)
  BY <1>2 DEF Move, OtherRows, GoesOn, Sends, Stores
<1>3. CASE d = e /\ Returns(w, e)
  <2>1. CASE work[w].pc \in {"markPrev", "mark"} /\ row'[e] = markAnchored(row[e], work[w].tx)
    <3>1. work[w].tx = row[e].tx
      BY <2>1 DEF Move, Kept
    <3>2. row'[e].tx = row[e].tx
      BY <1>1, <2>1, <3>1 DEF markAnchored, Row
    <3>3. QED
      BY <1>3, <2>1, <3>2 DEF Stores
  <2>2. CASE row'[e] \in {releaseClaim(row[e]), row[e], markAttemptFailed(row[e])}
             /\ work[w].pc \in {"release", "fail"}
    <3>1. row'[e].tx = row[e].tx
      BY <1>1, <2>2 DEF releaseClaim, markAttemptFailed, Row
    <3>2. QED
      BY <1>3, <2>2, <3>1 DEF Stores
  <2>3. QED
    BY <1>3, <2>1, <2>2 DEF Returns
<1>4. QED
  BY <1>2, <1>3 DEF Move

LEMMA SameKept ==
  ASSUME TypeInv, ProofInv, TxDecl, [Next]_vars, NEW v \in Worker, NEW d \in Decl,
         Kept(v, d), work'[v] = work[v], row'[d].tx = row[d].tx
  PROVE  Kept(v, d)'
BY DeadStays DEF Kept, Holds

LEMMA KeepStep ==
  TypeInv /\ ProofInv /\ ExclInv /\ TxDecl /\ KeepInv /\ [Next]_vars => KeepInv'
<1> SUFFICES ASSUME TypeInv, ProofInv, ExclInv, TxDecl, KeepInv, [Next]_vars, Reads,
                    NEW d \in Decl, NEW v \in Worker
             PROVE  Kept(v, d)'
  BY MayStays DEF KeepInv, Reads, Without, TypeInv
<1>1. /\ Safe /\ "prevLost" \notin faults.may /\ row[d] \in Row /\ Kept(v, d)
      /\ \A w \in Worker, e \in Decl : Exclusive(w, e) /\ Kept(w, e)
  BY DEF Reads, Safe, Without, TypeInv, ExclInv, KeepInv
<1>2. ASSUME NEW w \in Worker, NEW e \in Decl, Move(w, e) PROVE Kept(v, d)'
  <2>1. CASE v # w
    <3>1. work'[v] = work[v]
      BY <1>2, <2>1 DEF Move, Others
    <3>2. CASE d # e
      <4>1. row'[d].tx = row[d].tx
        BY <1>2, <3>2 DEF Move, OtherRows
      <4>2. QED
        BY <1>1, <3>1, <4>1, SameKept
    <3>3. CASE d = e
      <4>1. ~Holds(v, d)
        BY <1>1, <1>2, <2>1, <3>3 DEF Move, Exclusive
      <4>2. QED
        BY <3>1, <4>1 DEF Kept, Holds
    <3>4. QED
      BY <3>2, <3>3
  <2>2. CASE v = w /\ Holds(w, d)'
    <3>1. d = e /\ Holds(w, d) /\ ~Returns(w, e)
      BY <1>2, <2>2, MoveHolds
    <3>2. CASE GoesOn(w, e)
      <4>1. Dead(d)' <=> Dead(d)
        BY <3>2 DEF GoesOn, Dead, Alive
      <4>2. NotFound(work[w].tx) => ~Alive(work[w].tx)
        BY DEF NotFound, Alive
      <4>3. QED
        BY <1>1, <2>2, <3>1, <3>2, <4>1, <4>2 DEF GoesOn, Kept, Dead
    <3>3. CASE Sends(w, e)
      <4>1. Dead(d)'
        BY <1>1, <3>1, <3>3, DeadStays DEF Sends, Kept
      <4>2. QED
        BY <2>2, <3>3, <4>1 DEF Sends, Kept
    <3>4. CASE Stores(w, e)
      <4>1. work[w].tx \in Tx /\ row[d].state = "anchoring"
        BY <1>1, <3>1, <3>4 DEF Stores, TypeInv, GoodWork, HoldsTx, Exclusive
      <4>2. row'[d].tx = work'[w].tx
        BY <1>1, <3>1, <3>4, <4>1, RecordRow DEF Stores
      <4>3. QED
        BY <2>2, <3>4, <4>2 DEF Stores, Kept
    <3>5. QED
      BY <1>2, <3>1, <3>2, <3>3, <3>4 DEF Move
  <2>3. QED
    BY <2>1, <2>2 DEF Kept
<1>3. ASSUME NEW w \in Worker, Drop(w) PROVE Kept(v, d)'
  <2>1. CASE v = w
    BY <1>3, <2>1 DEF Drop, Kept, Holds
  <2>2. CASE v # w
    BY <1>1, <1>3, <2>2, SameKept DEF Drop, Others
  <2>3. QED
    BY <2>1, <2>2
<1>4. ASSUME NEW w \in Worker, NEW e \in Decl, Claim(w, e) PROVE Kept(v, d)'
  <2>1. row'[d].tx = row[d].tx
    BY <1>1, <1>4, ClaimRow DEF Claim, TypeInv
  <2>2. CASE v # w
    BY <1>1, <1>4, <2>1, <2>2, SameKept DEF Claim
  <2>3. CASE v = w
    <3>1. work'[w].decl = e /\ work'[w].pc = "claimed" /\ work'[w].tx = row[e].tx
      BY <1>4 DEF Claim, TypeInv
    <3>2. QED
      BY <2>1, <2>3, <3>1 DEF Kept, Holds
  <2>4. QED
    BY <2>2, <2>3
<1>5. CASE Around
  BY <1>1, <1>5, SameKept DEF Around
<1>6. QED
  BY <1>1, <1>2, <1>3, <1>4, <1>5, SafeStep
-----------------------------------------------------------------------------
\* A retry finds the hash an attempt stored before it sends (anchor.ts:73), so
\* nothing is broadcast while the stored transaction can anchor the row, as
\* long as claims are exclusive and receipts can be read.
THEOREM RetriesCheck == Spec => RetryChecksRecordedTx
<1>1. Spec => [](TypeInv /\ ProofInv /\ ExclInv /\ TxDecl /\ KeepInv)
  <2>1. TypeInv /\ TxDecl /\ [Next]_vars => TxDecl'
    BY TxStep
  <2>2. QED
    BY <2>1, TypeInit, TypeStep, ProofInit, ProofStep, ExclInit, ExclStep, TxDeclInit,
       KeepInit, KeepStep, PTL DEF Spec
<1>2. ASSUME TypeInv, ExclInv, TxDecl, KeepInv, [Next]_vars, Reads,
             NEW d \in Decl, TxsOf(d)' # TxsOf(d)
      PROVE  Dead(d)
  <2>1. Safe /\ \A w \in Worker : Kept(w, d)
    BY <1>2 DEF Reads, Safe, Without, KeepInv
  <2>2. chain' # chain /\ ~Around /\ \A w \in Worker, e \in Decl : ~Claim(w, e)
    BY <1>2 DEF TxsOf, Around, Claim
  <2>3. PICK w \in Worker, e \in Decl : Move(w, e)
    BY <1>2, <2>1, <2>2, SafeStep DEF Drop
  <2>4. Holds(w, e) /\ work[w].pc = "send" /\ \E t \in Tx : Broadcast(t, e)
    BY <2>2, <2>3 DEF Move, GoesOn, Sends, Stores, Returns
  <2>5. ASSUME d # e PROVE FALSE
    <3>1. PICK t \in Tx : Broadcast(t, e)
      BY <2>4
    <3>2. chain[t].decl # d /\ chain'[t].decl = e
      BY <1>2, <3>1, DeclAssumption DEF Broadcast, TypeInv, TxDecl
    <3>3. \A u \in Tx : u # t => chain'[u] = chain[u]
      BY <1>2, <3>1 DEF Broadcast, TypeInv
    <3>4. TxsOf(d)' = TxsOf(d)
      BY <2>5, <3>2, <3>3 DEF TxsOf
    <3>5. QED
      BY <1>2, <3>4
  <2>6. QED
    BY <2>1, <2>4, <2>5 DEF Kept
<1>3. TypeInv /\ ExclInv /\ TxDecl /\ KeepInv /\ [Next]_vars =>
        (Without({"stall", "lostReply", "prevLost"}) =>
           \A d \in Decl : TxsOf(d)' # TxsOf(d) =>
             row[d].tx = NoTx \/ ~Alive(row[d].tx))
  BY <1>2 DEF Reads, Dead
<1>4. QED
  BY <1>1, <1>3, PTL DEF Spec, RetryChecksRecordedTx
-----------------------------------------------------------------------------
(***************************************************************************)
(* Hence a declaration's one live transaction is the one its row has       *)
(* stored, or the one its holder is storing.                               *)
(***************************************************************************)
Storing(t, d) == \E w \in Worker : Holds(w, d) /\ work[w].pc = "record" /\ work[w].tx = t
Once(d) == \A t \in Tx : chain[t].decl = d /\ Alive(t) => row[d].tx = t \/ Storing(t, d)
Stored  == Without({"unrecorded", "stall", "lostReply", "prevLost"})
OnceInv == Stored => \A d \in Decl : Once(d)

LEMMA OnceInit == Init => OnceInv
<1> SUFFICES ASSUME Init, NEW t \in Tx PROVE ~Alive(t)
  BY DEF OnceInv, Once
<1>1. chain[t] = NewTx
  BY DEF Init
<1>2. QED
  BY <1>1 DEF NewTx, Alive

LEMMA StillStoring ==
  ASSUME NEW d, NEW t, NEW w \in Worker, Holds(w, d), work[w].pc = "record",
         work[w].tx = t, work'[w] = work[w]
  PROVE  Storing(t, d)'
BY DEF Storing, Holds

LEMMA OnceStep ==
  TypeInv /\ ProofInv /\ ExclInv /\ TxDecl /\ KeepInv /\ OnceInv /\ [Next]_vars => OnceInv'
<1> SUFFICES ASSUME TypeInv, ProofInv, ExclInv, TxDecl, KeepInv, OnceInv, [Next]_vars,
                    Stored, NEW d \in Decl, NEW t \in Tx, chain'[t].decl = d, Alive(t)'
             PROVE  row'[d].tx = t \/ Storing(t, d)'
  BY MayStays DEF OnceInv, Once, Stored, Without, TypeInv
<1>1. /\ Safe /\ Reads /\ "unrecorded" \notin faults.may /\ row[d] \in Row /\ Once(d)
      /\ t # NoTx
      /\ \A w \in Worker, e \in Decl : Exclusive(w, e) /\ Kept(w, e)
  BY TxAssumption DEF Stored, Reads, Safe, Without, TypeInv, ExclInv, KeepInv, OnceInv
<1>2. chain[t].status # "unsent" => chain[t].decl = d /\ Alive(t)
  BY TxStep
<1>3. chain[t].status # "unsent" => row[d].tx = t \/ Storing(t, d)
  BY <1>1, <1>2 DEF Once
<1>4. chain[t].status = "unsent" => chain'[t] # chain[t]
  BY DEF Alive
<1>5. ASSUME NEW w \in Worker, NEW e \in Decl, Move(w, e)
      PROVE  row'[d].tx = t \/ Storing(t, d)'
  <2>1. Kept(w, e) /\ Others(w)
    BY <1>1, <1>5 DEF Move
  <2>2. CASE chain[t].status = "unsent"
    <3>1. Sends(w, e)
      BY <1>4, <1>5, <2>2 DEF Move, GoesOn, Stores, Returns
    <3>2. PICK u \in Tx : /\ Broadcast(u, e)
                          /\ work'[w].pc = "record" /\ work'[w].tx = u
      BY <1>1, <3>1 DEF Sends
    <3>3. u = t /\ d = e
      BY <1>4, <2>2, <3>2 DEF Broadcast, TypeInv
    <3>4. QED
      BY <3>1, <3>2, <3>3 DEF Sends, Storing, Holds
  <2>3. CASE chain[t].status # "unsent" /\ row[d].tx = t
    <3>1. ~(d = e /\ Stores(w, e))
      <4>1. ~Dead(d)
        BY <1>1, <1>2, <2>3 DEF Dead
      <4>2. Holds(w, e)
        BY <1>5 DEF Move
      <4>3. QED
        BY <2>1, <4>1, <4>2 DEF Stores, Kept
    <3>2. row'[d].tx = t
      BY <1>5, <2>1, <2>3, <3>1, MoveTx
    <3>3. QED
      BY <3>2
  <2>4. CASE chain[t].status # "unsent" /\ Storing(t, d)
    <3>1. PICK v \in Worker : Holds(v, d) /\ work[v].pc = "record" /\ work[v].tx = t
      BY <2>4 DEF Storing
    <3>2. CASE v # w
      BY <2>1, <3>1, <3>2, StillStoring DEF Others
    <3>3. CASE v = w
      <4>1. d = e /\ Stores(w, e)
        BY <1>1, <1>5, <3>1, <3>3 DEF Move, GoesOn, Sends, Stores, Returns, Holds
      <4>2. row'[d] = recordSentTx(row[d], t) /\ row[d].state = "anchoring"
        BY <1>1, <3>1, <3>3, <4>1 DEF Stores, Exclusive
      <4>3. QED
        BY <1>1, <4>2, RecordRow
    <3>4. QED
      BY <3>2, <3>3
  <2>5. QED
    BY <1>3, <2>2, <2>3, <2>4
<1>6. ASSUME UNCHANGED chain, row'[d].tx = row[d].tx,
             \A v \in Worker : work[v].pc = "record" => work'[v] = work[v]
      PROVE  row'[d].tx = t \/ Storing(t, d)'
  <2>1. row[d].tx = t \/ Storing(t, d)
    BY <1>3, <1>4, <1>6
  <2>2. Storing(t, d) => Storing(t, d)'
    BY <1>6 DEF Storing, Holds
  <2>3. QED
    BY <1>6, <2>1, <2>2
<1>7. ASSUME NEW w \in Worker, Drop(w) PROVE row'[d].tx = t \/ Storing(t, d)'
  BY <1>1, <1>6, <1>7 DEF Drop, Others
<1>8. ASSUME NEW w \in Worker, NEW e \in Decl, Claim(w, e)
      PROVE  row'[d].tx = t \/ Storing(t, d)'
  <2>1. row'[d].tx = row[d].tx
    BY <1>1, <1>8, ClaimRow DEF Claim, TypeInv
  <2>2. \A v \in Worker : work[v].pc = "record" => work'[v] = work[v]
    BY <1>8 DEF Claim, TypeInv
  <2>3. QED
    BY <1>6, <1>8, <2>1, <2>2 DEF Claim
<1>9. CASE Around
  <2>1. chain[t].status # "unsent"
    BY <1>4, <1>9 DEF Around
  <2>2. Storing(t, d) => Storing(t, d)'
    BY <1>9 DEF Around, Storing, Holds
  <2>3. QED
    BY <1>3, <1>9, <2>1, <2>2 DEF Around
<1>10. QED
  BY <1>1, <1>5, <1>7, <1>8, <1>9, SafeStep

LEMMA HistoryInv ==
  Spec => [](TypeInv /\ ProofInv /\ LeaseInv /\ ExclInv /\ TxDecl /\ KeepInv /\ OnceInv)
<1>1. TypeInv /\ TxDecl /\ [Next]_vars => TxDecl'
  BY TxStep
<1>2. QED
  BY <1>1, TypeInit, TypeStep, ProofInit, ProofStep, LeaseInit, LeaseStep, ExclInit,
     ExclStep, TxDeclInit, KeepInit, KeepStep, OnceInit, OnceStep, PTL DEF Spec

\* "A retry never anchors twice" (schema.ts:279), in so far as it is true: if
\* every hash that is sent is stored, claims are exclusive and receipts can
\* be read, a declaration has one transaction that is or may be anchored.
THEOREM AnchorsOnce == Spec => []AnchoredOnce
<1>1. ASSUME TypeInv, ExclInv, TxDecl, KeepInv, OnceInv, Stored,
             NEW t \in Tx, NEW u \in Tx, Alive(t), Alive(u), chain[t].decl = chain[u].decl
      PROVE  t = u
  <2>1. PICK d \in Decl : chain[t].decl = d /\ chain[u].decl = d
    BY <1>1 DEF TxDecl, Alive
  <2>2. /\ row[d].tx = t \/ Storing(t, d)
        /\ row[d].tx = u \/ Storing(u, d)
    BY <1>1, <2>1 DEF OnceInv, Once
  <2>3. \A w \in Worker : Exclusive(w, d) /\ Kept(w, d)
    BY <1>1 DEF Stored, Safe, Reads, Without, ExclInv, KeepInv
  <2>4. ASSUME NEW x \in Tx, NEW y \in Tx, Alive(x), row[d].tx = x PROVE ~Storing(y, d)
    BY <2>3, <2>4, TxAssumption DEF Storing, Kept, Dead
  <2>5. ASSUME Storing(t, d), Storing(u, d) PROVE t = u
    BY <2>3, <2>5 DEF Storing, Exclusive
  <2>6. QED
    BY <1>1, <2>2, <2>4, <2>5
<1>2. TypeInv /\ ExclInv /\ TxDecl /\ KeepInv /\ OnceInv => AnchoredOnce
  BY <1>1 DEF AnchoredOnce, NeverTwice, Stored
<1>3. QED
  BY <1>2, HistoryInv, PTL
-----------------------------------------------------------------------------
(***************************************************************************)
(* A declaration given up.                                                 *)
(***************************************************************************)
CrashesOnly == faults.may \subseteq {"crash"}
Failing(d)  == \/ row[d].state = "failed"
               \/ \E w \in Worker : Holds(w, d) /\ work[w].pc = "fail"
FailInv == CrashesOnly => \A d \in Decl : Failing(d) => Dead(d)

LEMMA FailInit == Init => FailInv
BY DEF Init, AbsentRow, FailInv, Dead

\* An attempt fails for want of the log in a receipt it could read.
LEMMA FailStep ==
  TypeInv /\ ProofInv /\ LeaseInv /\ ExclInv /\ TxDecl /\ KeepInv /\ FailInv
  /\ [Next]_vars => FailInv'
<1> SUFFICES ASSUME TypeInv, ProofInv, LeaseInv, ExclInv, TxDecl, KeepInv, FailInv,
                    [Next]_vars, CrashesOnly, NEW d \in Decl, Failing(d)'
             PROVE  Dead(d)'
  BY MayStays DEF FailInv, CrashesOnly, TypeInv
<1>1. /\ Safe /\ row[d] \in Row /\ (Failing(d) => Dead(d))
      /\ {"db", "rpc", "unrecorded"} \cap faults.may = {}
      /\ \A w \in Worker, e \in Decl : Exclusive(w, e) /\ Kept(w, e)
  BY DEF CrashesOnly, Reads, Safe, Without, TypeInv, ExclInv, KeepInv, FailInv
<1>2. ASSUME Failing(d), row'[d].tx = row[d].tx PROVE Dead(d)'
  BY <1>1, <1>2, DeadStays
<1>3. row[d].state = "failed" => row'[d] = row[d]
  BY SettledStep
<1>4. CASE row[d].state = "failed"
  BY <1>2, <1>3, <1>4 DEF Failing
<1>5. ASSUME row[d].state # "failed", NEW w \in Worker, NEW e \in Decl, Move(w, e)
      PROVE  Dead(d)'
  <2>1. Kept(w, e) /\ Others(w) /\ Holds(w, e)
    BY <1>1, <1>5 DEF Move
  <2>2. CASE row'[d].state = "failed"
    <3>1. d = e
      BY <1>5, <2>2 DEF Move, OtherRows
    <3>2. Returns(w, e)
      <4>1. row'[d] # row[d]
        BY <1>5, <2>2
      <4>2. ~GoesOn(w, e) /\ ~Sends(w, e)
        BY <3>1, <4>1 DEF GoesOn, Sends
      <4>3. ~Stores(w, e)
        BY <1>1, <1>5, <2>2, <3>1, RecordRow DEF Stores, TypeInv, GoodWork, HoldsTx
      <4>4. QED
        BY <1>5, <4>2, <4>3 DEF Move
    <3>3. row[d].state = "anchoring"
      BY <1>1, <2>1, <3>1 DEF Exclusive
    <3>4. work[w].pc \in {"markPrev", "mark"} => work[w].tx \in Tx
      BY DEF TypeInv, GoodWork, HoldsTx
    <3>5. work[w].pc = "fail"
      BY <1>1, <1>5, <2>2, <3>1, <3>2, <3>3, <3>4, AnchoredRow, ReleasedRow DEF Returns
    <3>6. Failing(d)
      BY <2>1, <3>1, <3>5 DEF Failing
    <3>7. row'[d].tx = row[d].tx
      BY <1>5, <2>1, <3>1, <3>5, MoveTx DEF Stores
    <3>8. QED
      BY <1>2, <3>6, <3>7
  <2>3. ASSUME NEW v \in Worker, Holds(v, d)', work'[v].pc = "fail", v # w
        PROVE  Dead(d)'
    <3>1. Holds(v, d) /\ work[v].pc = "fail"
      BY <2>1, <2>3 DEF Others, Holds
    <3>2. d # e
      BY <1>1, <2>1, <2>3, <3>1 DEF Exclusive
    <3>3. row'[d] = row[d]
      BY <1>5, <3>2 DEF Move, OtherRows
    <3>4. QED
      BY <1>2, <3>1, <3>3 DEF Failing
  <2>4. ASSUME Holds(w, d)', work'[w].pc = "fail" PROVE Dead(d)'
    <3>1. d = e
      BY <1>5, <2>4, MoveHolds
    <3>2. GoesOn(w, e)
      BY <1>1, <1>5, <2>4 DEF Move, Sends, Stores, Returns
    <3>3. work[w].pc = "wait" /\ NotFound(work[w].tx)
      BY <1>1, <2>4, <3>2 DEF GoesOn
    <3>4. Dead(d)
      BY <2>1, <3>1, <3>3 DEF Kept, Dead, NotFound, Alive
    <3>5. QED
      BY <3>2, <3>4, DeadStays DEF GoesOn
  <2>5. QED
    BY <2>2, <2>3, <2>4 DEF Failing, Holds
<1>6. ASSUME row'[d].tx = row[d].tx, row'[d].state = "failed" => row[d].state = "failed",
             \A v \in Worker : work'[v].pc = "fail" => work'[v] = work[v]
      PROVE  Dead(d)'
  <2>1. Failing(d)
    BY <1>6 DEF Failing, Holds
  <2>2. QED
    BY <1>2, <1>6, <2>1
<1>7. ASSUME NEW w \in Worker, Drop(w) PROVE Dead(d)'
  BY <1>6, <1>7 DEF Drop, Others
<1>8. ASSUME NEW w \in Worker, NEW e \in Decl, Claim(w, e) PROVE Dead(d)'
  <2>1. row'[d].tx = row[d].tx /\ (row'[d].state = "failed" => row[d].state = "failed")
    BY <1>1, <1>8, ClaimRow DEF Claim, TypeInv
  <2>2. \A v \in Worker : work'[v].pc = "fail" => work'[v] = work[v]
    BY <1>8 DEF Claim, TypeInv
  <2>3. QED
    BY <1>6, <2>1, <2>2
<1>9. CASE Around
  BY <1>6, <1>9 DEF Around
<1>10. QED
  BY <1>1, <1>4, <1>5, <1>7, <1>8, <1>9, SafeStep

\* "failed" tells the agent that the declaration has no proof on the chain and
\* will have none, if only crashes happen: an attempt that fails has read the
\* receipt of its transaction, and no earlier one is left in the mempool.
THEOREM FailedForGood == Spec => []FailedIsUnanchored
<1>1. Spec => []FailInv
  BY HistoryInv, FailInit, FailStep, PTL DEF Spec
<1>2. ASSUME ExclInv, TxDecl, OnceInv, FailInv, CrashesOnly, NEW d \in Decl,
             row[d].state = "failed", NEW t \in TxsOf(d), Alive(t)
      PROVE  FALSE
  <2>1. Dead(d) /\ Once(d) /\ \A w \in Worker : Exclusive(w, d)
    BY <1>2 DEF FailInv, Failing, OnceInv, CrashesOnly, Stored, Safe, Without, ExclInv
  <2>2. \A w \in Worker : ~Holds(w, d)
    BY <1>2, <2>1 DEF Exclusive
  <2>3. row[d].tx = t /\ t \in Tx
    BY <1>2, <2>1, <2>2 DEF Once, Storing, TxsOf
  <2>4. QED
    BY <1>2, <2>1, <2>3, TxAssumption DEF Dead
<1>3. ExclInv /\ TxDecl /\ OnceInv /\ FailInv => FailedIsUnanchored
  BY <1>2 DEF FailedIsUnanchored, CrashesOnly
<1>4. QED
  BY <1>1, <1>3, HistoryInv, PTL
=============================================================================
