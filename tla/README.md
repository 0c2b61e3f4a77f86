# Res ex Machina in TLA+

Res ex Machina (RxM) takes statements of autonomous agents ("this content was
produced by me"), checks their signature and payment, and writes a proof of
each to an EVM chain. This directory holds TLA+ models of the parts of it where
several actors meet: the requests that overlap, the workers that anchor, the job
queues, the payments, the webhooks, the SDK and the MCP server at the agent, the chain, and the faults
between them, and of what an agent can conclude from a receipt or a Merkle proof; TLC
configurations that check the models on small instances; and proofs, checked
by TLAPS, of what holds on every instance.

Paths are relative to the repository. `src/v2/anchor.ts:67` is line 67 there.

## 1. The system

| Component | Code | State it keeps | Operations |
|---|---|---|---|
| V2 declaration store | `src/v2/store.ts`, `src/db/schema.ts:275-323` | table `declarations`: state, lease, attempts, transaction | insert, claim, record the sent transaction, mark anchored, mark the attempt failed, release the claim, list what is due |
| V2 submission | `src/v2/accept.ts`, `src/routes/v2.ts` | (the store) | check, look up, count against two quotas, insert, enqueue |
| V2 anchoring | `src/v2/anchor.ts` | (the store, the chain) | claim, check the previous transaction, check the balance, send, wait for the log, mark |
| V2 worker and reconciler | `src/workers/anchorV2.worker.ts` | the BullMQ queue `anchor-v2` in Redis | run a job, add a delayed job, reconcile every minute |
| V1 records and payments | `src/routes/records.ts`, `src/services/{paymentVerifier,recordsService,fee,x402Verifier}.ts` | tables `records` and `payment_attempts`; the facilitator, the chain | POST one or a batch: duplicates, payment attempt, verification or settlement, record, enqueue, link |
| V1 anchoring | `src/services/{anchor,queue}.ts`, `src/workers/anchor.worker.ts` | records' state, the BullMQ queue `anchor` | claim, send, wait, mark anchored; mark failed when a job is out of attempts |
| V1 waiting | `src/services/waitForAnchor.ts`, `src/utils/{stateInfo,formatters}.ts`, `waitForRecord` of the SDK | none | poll a record for 25 s, or read it |
| Webhooks | `src/routes/webhooks.ts`, `src/middleware/walletAuth.ts`, `src/services/webhookDispatcher.ts`, `src/workers/webhook.worker.ts` | table `webhooks`, the BullMQ queue `webhooks` | register (at most 5), delete, dispatch on a change of state, deliver with 3 attempts |
| Authentication, rate limits | `src/middleware/`, `src/services/signature.ts` | counters in Redis | check a signature, count a request |
| Reads | `src/v2/receipt.ts`, GET routes, health, admin | none | render |
| rxm-pog-v2 library | `packages/pog/src` | none | digest, Merkle tree and proofs, verify a receipt against the chain |
| SDK | `packages/sdk/src` | a call's nonce, fee and signed payload | pay the fee, sign, post with retries, pay by x402, wait |
| MCP server | `packages/mcp-server/src` | confirmations in memory, a ledger in SQLite | prepare, confirm, batch, guardrails, confirmation mode |
| Contract | `contracts/src/RxMAnchor.sol` | none | check arguments, emit `AnchorProof` |

How they interact. A submission (a Fastify handler) makes one SQL statement
after another, each an `await` at which other requests go on, and then adds a
BullMQ job for the row it inserted. A worker takes the job, claims the row with
a conditional UPDATE, talks to the chain through viem, and writes the outcome to the
row. Nothing joins these steps in a transaction: what keeps them together is the unique
indexes, the conditions of the UPDATEs, the lease (v2), the job ids, the
reconciler (v2) and the retries (v1). After the outcome, v1 dispatches webhooks.

What is hard about it, and what should hold:

- **A step of several fails, or the process dies between two.** A
  transaction is on its way and the row does not know; a payment is settled and there is
  no record; a row is inserted and there is no job. *No declaration
  anchored without proof, no second transaction, no record unpaid, no row
  stranded.*
- **A worker outlives its claim or its lock.** *Final states are final, attempts and gas
  stay bounded, whoever writes late.*
- **Requests overlap.** Counting and inserting are two statements; two requests
  settle two payments for one content. *Answers are true, quotas are passed by the
  overlap at most, money is lost to a conflict only.*
- **Checked, then used.** The MCP server's guardrails see a ledger that does not
  know of records under way, nor of what an SDK call that fails has spent. *The day's limits are passed by the overlap and
  by what the ledger was never told of at most, and the ledger knows what was created.*
- **Retries.** A transaction may be mined after the wait for it timed out; a
  job id may still be taken; an identifier may have been used up by the
  first try. *Retrying helps, and is idempotent.*
- **At the agent.** The SDK pays before it posts, gives up on requests that go on, and sends them again; an answer may be
  about a state that changes. *What a caller is told is true, and its fee is lost to a conflict only; a
  terminal state does not change; a receipt verifies exactly when its row is anchored.*
- **Webhooks.** An event's deliveries are added one by one, retried, and may be heard twice.
  *Each subscription found hears of it or its delivery is given up for a reason, and attempts can be told apart.*
- **Liveness.** *Every declaration and every record is settled, and every delivery ends.*

`PROJECT.json` lists these hazards at their lines.

## 2. The modules

`DeclarationStore` is a module of operators on a row. The others are state machines.

```
DeclarationLifecycle        what an agent is promised of a declaration
        ^ implemented by
AnchorV2  EXTENDS DeclarationStore       anchoring steps, chain, faults
        ^ implemented by
AnchorQueue  EXTENDS AnchorV2            + job queue, reconciler, enqueue
PogReceipts  EXTENDS AnchorV2            + receipts, the contract, their verification
AcceptV2                                 overlapping submissions of declarations
RecordsV1                                overlapping submissions of v1 records, payments
SdkV1        EXTENDS RecordsV1           + calls of the SDK, fees, resends, the limiter
AnchorV1                                 v1 anchoring, its queue, webhook events
WaitV1       EXTENDS AnchorV1            + what agents are told while it goes on
Webhooks                                 registrations, dispatch, delivery
MerkleV2                                 Merkle trees and proofs of batch anchors
McpServer                                the MCP server's paying tools and their ledger
AnchorV2Proofs                           theorems about AnchorV2 and PogReceipts
AnchorQueueProofs                        about AnchorQueue, from those
AcceptV2Proofs                           about AcceptV2
RecordsV1Proofs                          about RecordsV1 and SdkV1
AnchorV1Proofs                           about AnchorV1 and WaitV1
WebhooksProofs, McpServerProofs,
MerkleV2Proofs                           about their modules
MC*                                      instances for TLC
```

All follow the same reading of the code: **one action per stretch between two
`await`s**. A `pc` names the await a worker or request is at; the action does
what the code does when that await returns, throws, or (a
process dying) never returns. A statement that throws may have had its effect: the two
cases are the fault kinds `db` (it had none) and `lostReply` (it had).

**Faults.** A behaviour begins by choosing from `FaultSets` the kinds of fault
it may meet, and a property that holds only in the absence of some kinds says which
(`Without({...}) => ...`). One run so checks what holds whatever happens and what holds
in milder weather, and the condition is part of the statement.

### DeclarationStore, AnchorV2

A row has the columns the UPDATEs read and write: `state`, `attempts`, `lease`,
`anchor_tx_hash`. The lease is none, live or expired: `LeaseExpires` is the clock.
Each UPDATE is an operator from row to row with its WHERE clause as a condition
(`claimForAnchoring`, `recordSentTx`, `markAnchored`, `markAttemptFailed`,
`releaseClaim`). `AnchorV2` has a row per declaration, the relayer's
transactions with their fate (mempool; mined with the log, without it, or
reverted; or never mined at all), the workers, and whether the relayer is funded. A
worker goes through `claimed`, `balance`, `send`, `record`, `wait`, `mark`, or
`markPrev`, `release`, `fail`, as `anchorDeclaration` does.

`DeclarationLifecycle` is the abstract specification: a declaration is open until it is
reported anchored, and then its proof is on the chain, or failed; both are
final. The mapping takes `pending` and `anchoring` to open, and the proofs to the
logged transactions.

### AnchorQueue

Adds the queue: jobs by id, the completed and failed ones kept for a while (`removeOnComplete`,
`removeOnFail`) and blocking their id, stalls, the worker's
reaction to each outcome (a delayed job without an id), the reconciler's list and its adds
one by one, and the window between INSERT and enqueue. BullMQ is external and
modelled from its use. Its specification implements `AnchorV2!Spec`
(`ImplementsAnchoring`): what is shown of `AnchorV2` holds of the workers under the queue.

### PogReceipts

`toReceipt` of a row, at any state of `AnchorV2`, and `verifyReceipt` of the library from the logs of the chain alone, with the checks of `verify.ts`
in their order, the contract's `_check` and event, and the library client's wait for a receipt (`waitForAnchor`). Digests, agent ids and signatures are the terms they are made of,
which is the assumption that they do not collide. `Altered` is a receipt with one part replaced by
another declaration's.

### AcceptV2

`acceptDeclaration` per statement: lookup, two counts, INSERT ON CONFLICT DO NOTHING,
the second read, enqueue. The checks that read nothing shared are `Submit` (they
pass) and `Refuse`. A request keeps the start of its 24 hours, as the code
keeps `since`. `known` and the answer are there for the properties.

### RecordsV1

A request is a POST or an item of a batch (`Promise.allSettled` runs the items side by
side, and there is no catch around their record). `attempts` are the rows
of `payment_attempts`, by the unique `payment_identifier`. `paid` is where the money
is: a fee when its transfer is confirmed, an x402 payment when the facilitator has settled it.
`Throws` is where the catch blocks are: during verification the attempt is
marked failed; after it, for single requests, the route's catch marks it failed.
A unique violation, of an attempt or of a record, is answered as an error (500): the drizzle-orm of `pnpm-lock.yaml` (0.45.3) throws
an error of its own with that of the driver as its cause, so that `code === '23505'` (`paymentVerifier.ts:73`,
`recordsService.ts:160`) is never so. Only the reads, of `preCheck` and `checkDuplicates`, find a `duplicate` or a fee `reused`.

The server knows a payment by an identifier. For a fee it is the hash of a `Transfer` in one `Spelling`: the schema takes
letters of either case (`routes/schemas/index.ts:8`) and nothing lower-cases them, so that the reads and the unique indexes compare what was
written, while the chain confirms a transfer under every spelling (`Confirmed`).

### SdkV1

A call of `record`, `recordHash`, `recordBatch` (of one item) or the x402 flow, by its nonce: `pay`, `confirm`, `post`, `sent`, `sign`, `done`. The request it makes is a
request of `RecordsV1`, started by `record` and going on when the fetch has been given up: the slot is then an
orphan, whose outcome nobody reads. `apiErrorHandler`, `ReplyStatus` and `BatchStatus` give the HTTP status of an
answer, 500 for a conflict that an INSERT met (which the client sends again), `Retried` the statuses the HTTP client sends again, `Limited` what the limiter says, Redis up or down. The outcome `cached` is a 200
for a resend whose fields are not those of a 201.

### AnchorV1

`anchorRecord` per await, the job with its attempts and stalls, and the handler
of `failed`. A run that lost its lock goes on, and BullMQ ignores what it
returns. `told` is the webhook events dispatched, `sends` the calls of
`sendTransaction`. The handler occupies a worker slot in the model until it is done; in the code it
runs beside the next job.

### WaitV1

An answer about a record is a read of its row at some moment (`waitForAnchor`, `getRecord`, `exportRecord`, `waitForRecord`) with the
`terminal` of `getStateInfo` and the anchor block; `heldState` keeps what the agent was last told, so that it can
be compared with what the record becomes. `waitForAnchor` ends at any state but `pending_anchor`, so that it may answer
`anchoring` where its caller's comment says "final state"; the answer then has no `terminal`, and that is what is checked.

### Webhooks

A registration is at `validate`, `count` or `insert`; the headers of `walletAuth` have an age, and may be
used again while it accepts them. An event is a call of
`enqueueWebhookDispatch`, at its SELECT or at one of its adds; a delivery is the job of an event for a webhook, and a slot runs one at
`load`, `resolve`, `send`. `heard` counts what the receiver got, by attempt: a fetch that timed out may have been heard. Deletion is
between any two steps. The event is any change of state; that it is dispatched after the UPDATE, and may be lost, is in `AnchorV1`.

### MerkleV2

`merkleRoot`, `merkleProof` and `verifyMerkleProof` over the levels of a tree, with an odd node promoted: each of their loops is a recursive
function of the number of its turns (`Levels`, `Places`, `ProofUpTo`, `HashUpTo`), so that it can be proved about. A batch grows digest by
digest; then anybody claims a value to be in it, a hash of the tree passed off as a digest included, and gives a
proof from the hashes there are. No code of the repository makes a batch anchor; the library verifies them.

### McpServer

A call is one invocation of `rxm_prepare_record_generation`, `rxm_prepare_batch` or their
confirm tools; the single ones are batches of one, with the differences the code has (they always look a content up, they are
held to the cost of a transaction, they have a bound on pending confirmations, and no rows
in `batch_jobs`). `conf` is the two maps of confirmations, in memory and so lost in a `Restart`; `log`,
`job` and `item` are the tables of `SqliteLedger`, which is synchronous: what a tool does of the ledger between two awaits is
in one step with the rest. All items cost the same, as in the code (the highest fee allowed and a fixed gas), so that sums are
counts. `Settled` and `LedgerGone` are where the inner catch of a batch is: a failing ledger turns a created record into a failed
item, and a second failure ends the batch. `alone` is there for a property only.

What is really spent is kept apart from the ledger: `today` has the records created within a day, told or not, and `dropped` counts the fees
that bought no record. The SDK pays the fee (`client.ts:188`) before the POST (`client.ts:221`) that may fail or meet a conflict, and an x402
payment may be settled before the error; the fault `fee` is that loss. (In `legacy` mode a conflict always loses the fee; in `x402` mode it may
not: the fault is what decides.) `Unnoted` is what of it the guardrails can never see: the dropped fees, and the
records of the day that are neither in the ledger nor about to be logged.

## 3. The runs

| Run | Instance | Shows |
|---|---|---|
| `anchor` | 1 declaration, 2 workers, 3 transactions, 2 attempts, 5 fault sets, at most 2 claims dropped or outlived | `AnchoredHasProof`, `SpendBounded`, `SettledIsFinal`, `ReceiptsVerify`, `ImplementsLifecycle` under every fault; `ClaimIsExclusive`, `AnchoredOnce`, `RetryChecksRecordedTx`, `FailedIsUnanchored` where they say |
| `anchor_twice` | same, transactions sent may go unrecorded | *violated*: "a retry never anchors twice" |
| `queue` | 1 declaration, 2 workers, 1 named and 2 delayed jobs, retention 1, 1 stall | `NeverStranded` while jobs do not fail, `JobsAgree`, `ImplementsAnchoring` under every fault |
| `queue_live` | 1 worker, 3 delayed jobs, RPC failures and lost enqueues | `Settles` |
| `queue_stuck` | one crash | *violated*: "the row is never stuck" |
| `accept` | 2 requests, 6 declarations of 2 agents, quotas 1 and 2 | `AnswersAreTrue`, `ResubmissionIsIdempotent`, `QuotasHold` |
| `records` | 2 requests, 2 contents, 2 nonces, a transfer in one spelling, an x402 payment, 3 fault sets | `RecordsArePaid` always; `AttemptsAreTrue`, `MoneyLostOnlyToConflict` where they say |
| `records_twice` | 1 request at a time, a transfer in two spellings, no fault | *violated*: "can only be used once" |
| `anchor_v1` | three scenes: *anchoring*, 1 record, 2 slots, the real limits of 5 attempts and 2 stalls, the 6 maximal fault sets; *registration*, 2 wallets, 3 webhooks, a limit of 1, 2 requests; *delivery*, 1 event, 3 webhooks, 1 slot, 2 attempts, 1 stall, 3 fault sets | `SentOnce`, `AnchoredOnChain`, `AttemptsAreDistinct`, `OvershootBounded`, `DeliveriesEnd` always; `EndedJobsSettle`, `SettledIsFinal`, `EventuallySettled`, `AnswersHold`, `HeardOrGivenUp` where they say |
| `anchor_v1_retries` | RPC failures | *violated*: "after exhausting retries" |
| `clients` | two scenes: *sdk*, 2 calls in the 4 modes, 1 resend, 2 contents, 2 transfers in one spelling, 1 x402 payment, 2 requests, 2 pairs of fault sets; *merkle*, batches of up to 5 of 2 digests, proofs of up to 2 siblings | `OutcomeIsTrue`, `ProofsBind` always; `FeeLostOnlyToConflict` where it says |
| `mcp` | 2 calls, 2 contents, 2 confirmations, batches of 2, a day of 2 records' cost, at most 1 fee dropped in a day, 2 fault sets: failing calls and dropped fees; lost answers, dropped fees, ledger failures and crashes, with one tool at a time | `DailyLimitHolds` and `BatchReportIsTrue` always; `LedgerIsComplete` without crash, lost answers and ledger failures |

Scenes are parts of a composition that share no state: a behaviour is in one of them, chosen at the start, rather than in the
product of all. One type invariant is checked in each of `anchor`, `accept`, `anchor_v1`, `clients` and `mcp`; that of
`RecordsV1` is part of its proved invariant, and `AnchorQueue` implements `AnchorV2`.

**Bounds, and why they are enough.** Rows, records and declarations of
different ids share nothing but the workers, the queue and its retention, so one row
and two workers show the races of anchoring; two workers suffice for a late writer and its
successor, and three transactions let a second and a third be sent by mistake. Two
attempts make a retry and a last try. `MaxFaults` bounds only the claims dropped or
outlived, which is what `SpendBounded` counts. Two
overlapping requests make every race of a check with an insert, and three
nonces of an agent let a quota of one be passed by more than the overlap if a check is
wrong. In `mcp`, two calls with two items each reach the day's limit at once, and the spending limit
(two items) binds before that of records (three); where the ledger may fail, `MCNext` runs one tool at a time (`OneTool`), since what these faults hide
from the ledger meets the next call as well as one that overlaps. `MaxDropped` bounds the fees lost in a day, and `Ages` takes a call's time
between a record and its entry for less than a day; the proofs have any `MaxDropped` and any overlap. `records` and `clients` have one spelling
of a hash, since what two spellings do is `records_twice`; the proofs have any. In `queue`, the ids in `Extra` bound the delayed jobs: with none free, `addDelayed`
does nothing, which merges jobs for the same row; the code does not bound them. In `anchor_v1` a kind of fault only adds behaviours, so that the sets kept are those no property's condition
lets grow; two registrations and a limit of one make the overlap, three webhooks the dispatch that fails in the middle and goes on. In `clients`, one
resend is enough for a request to meet the orphan of the one before it; batches of three have an odd level of leaves and batches of five an odd one of nodes too,
whose promoted leaf has a proof of one sibling, and two digests make every pattern of copies. `ProofsBind` is about digests; a
leaf and a node differ by their prefix, and a node claimed as a digest is among the claims.
Every property of every passing run has a mutant in `PROJECT.json`: a change of one
mapped definition, of the kind a bug would make, under which TLC finds that property violated.

**Fairness.** Four properties of passing or violated runs are of liveness: `Settles`, `CrashesAreHealed`, `EventuallySettled`, `DeliveriesEnd`.
`QueueFairness` (`queue_live`, `queue_stuck`) asks that running code goes on (each
await is a call with a timeout), that BullMQ hands out waiting jobs in their order, so that each is taken
if it can be taken again and again (strong fairness of `Take`), that it looks for stalled jobs, that the reconciler's
timer fires, that leases expire, and that a broadcast transaction is
mined. `AnchorV1!Fairness` is the weak form of the same, and `Webhooks!HookFairness` asks of its dispatches, slots and queue what the others ask of theirs: the fetch has
a timeout of 5 s, BullMQ hands out waiting jobs and looks for stalled ones. Faults, submissions, registrations, deletions and the
relayer's balance are not fair; `Settles` assumes the balance stays sufficient from some time on.

## 4. What the violated runs say

1. **A declaration can be anchored twice** (`anchor_twice`). The comment at `schema.ts:279` says the
   hash is stored right after sending, "so a retry never anchors twice". A lost reply of `writeContract`, a crash, or a failing
   `recordSentTx` between them leaves no hash, and the contract accepts the second transaction.
   `AnchoredOnce` says what is left of the promise.
2. **A row can stay `anchoring` under an expired lease** (`queue_stuck`). The stalled job is rerun while the lease still
   runs, is skipped and completes; its id stays taken for the next 100 jobs, and the
   reconciler's adds are ignored. Other traffic, in time, frees the id.
3. **One transfer of the fee buys two records** (`records_twice`). Its hash is presented in lower case and then in mixed case; every
   comparison is of strings, and the chain finds the transfer under both. `schema.ts:90` calls the hash "1:1 with record, non-reusable",
   `fee-flow-v1.md:139` says it "can only be used once". `RecordsArePaid` says what is left: an identifier, as it is written, serves one record.
4. **V1 retries do not retry** (`anchor_v1_retries`). The claim is not given back.

A fee presented too early is lost: its attempt comes before the verification and stays behind it as failed, and the retry runs into its
identifier, which is an error 500 (`InsertAttempt`), for ever.

Others show as conditions on properties that hold: a failing `linkRecord` marks the attempt of an existing
record failed (`AttemptsAreTrue`); the MCP server's daily limits (`SECURITY.md:42`) are passed, in what is really spent, by whatever the ledger was never told of (a record
whose answer was lost, whose entry failed or whose call died; a fee of an SDK call that failed), which is nothing without these faults, and by a batch for each
call that overlaps another (`DailyLimitHolds`); a batch that lists one content twice reports it failed and counts its cost (`BatchReportIsTrue`: the
cost is at least that of the rows, and equal when each item has a row of its own); an x402 payment is taken before the record's
INSERT can fail on a conflict (`MoneyLostOnlyToConflict`); a crash and a
database failure, or a lost reply, can turn an anchored v1 record into `anchor_failed` (`SettledIsFinal`), after its agent was told that the state is
terminal (`AnswersHold`); a resend is answered a conflict for the call's own record (`OutcomeIsTrue`: a caller told `duplicate` or `reused` after a resend
may have its record); a fee is lost with the error that ends its call, unless one of the conflicts it names is why (`FeeLostOnlyToConflict`); a wallet may have more webhooks than
its limit, by the registrations that overlapped (`OvershootBounded`); and a receiver may get one attempt twice when a worker died under it
(`AttemptsAreDistinct`).

## 5. The proofs

For any constants that satisfy the modules' named assumptions, TLAPS checks:

| Theorem | States | By |
|---|---|---|
| `AnchorV2Proofs!TypeCorrect` | `Spec => []TypeOK` | `TypeInv`: a worker that is past its claim has a declaration, and at some awaits a transaction |
| `AnchorV2Proofs!AnchoredProven` | `Spec => []AnchoredHasProof` | `ProofInv`: a worker about to mark a row anchored holds a transaction that logged that row's declaration; what a transaction logged stays (`ChainStep`), so the proof outlives leases and late writers |
| `AnchorV2Proofs!SettledFinal` | `Spec => SettledIsFinal` | `LeaseInv`: only an anchoring row has a lease, so that a settled row is not claimable, and the UPDATEs all ask for `anchoring` |
| `AnchorV2Proofs!AnchoringImplementsLifecycle` | `Spec => ImplementsLifecycle` | initial states map to initial states, and each step to `Prove`, `Confirm`, `GiveUp` or a stutter, from `ProofInv` |
| `AnchorV2Proofs!AttemptsBoundSpending` | `Spec => []SpendBounded` | `SpendInv`: transactions sent and workers that may yet send are together no more than the attempts counted; `BudgetInv`: a row that can be claimed has an attempt left |
| `AnchorV2Proofs!ClaimsExclude` | `Spec => []ClaimIsExclusive` | `ExclInv`, over the few shapes a step has when no claim is outlived (`SafeStep`): who holds a row holds its live lease, alone |
| `AnchorV2Proofs!RetriesCheck` | `Spec => RetryChecksRecordedTx` | `KeepInv`: what a holder knows of the hash in its row, which past the check cannot anchor it |
| `AnchorV2Proofs!AnchorsOnce` | `Spec => []AnchoredOnce` | `OnceInv`: a transaction that may anchor a declaration is the one its row has, or its holder is about to store it |
| `AnchorV2Proofs!FailedForGood` | `Spec => []FailedIsUnanchored` | `FailInv`: a row given up, or about to be, has no transaction that may still anchor it, with `OnceInv` |
| `AnchorV2Proofs!ReceiptsAlwaysVerify` | `Spec => []ReceiptsVerify` | from `ProofInv`, digests and signatures being terms: of free constructors, hashes without collisions |
| `AnchorQueueProofs!QueueImplementsAnchoring` | `QueueSpec => ImplementsAnchoring` | `JobInv`: a worker is busy exactly when it has a job, which is active, its alone, and for the row it works on; so a step of the queue starts, continues or ends a run of `AnchorV2`, or leaves it alone |
| `AnchorQueueProofs!AnchoringUnderTheQueue` | `QueueSpec` implies each of `[]AnchoredHasProof`, `SettledIsFinal`, `[]SpendBounded`, `[]ClaimIsExclusive`, `RetryChecksRecordedTx`, `[]AnchoredOnce`, `[]FailedIsUnanchored` | the refinement and the theorems above: they hold of the workers under the queue |
| `AnchorQueueProofs!QueueImplementsLifecycle` | `QueueSpec => ImplementsLifecycle` | the two refinements, one after the other |
| `AnchorQueueProofs!JobsAndWorkersAgree` | `QueueSpec => []JobsAgree` | `JobInv`, with the kept jobs being those that ended, each once |
| `AnchorQueueProofs!NobodyStranded` | `QueueSpec => []NeverStranded` | `ServedInv`: while no job fails or is lost, an unsettled row has a job waiting, a worker that holds it or will requeue it, or a free id; a row `anchoring` has a holder; `AbsentInv`: a row not accepted has no job |
| `AcceptV2Proofs!SubmissionTypes` | `Spec => []TypeOK` | `AnswerInv`: what a request past its lookup knows of the table stays so, as rows are only added |
| `AcceptV2Proofs!AnswersTrue` | `Spec => []AnswersAreTrue` | `AnswerInv`: one request at most has made a row (`OneMaker`) |
| `AcceptV2Proofs!ResubmissionSafe` | `Spec => []ResubmissionIsIdempotent` | `AnswerInv`: a request that found its declaration never reaches the quotas |
| `AcceptV2Proofs!QuotasKept` | `Spec => []QuotasHold` | `QuotaInv`: the rows of a day and the requests past the check are together fewer than the quota and the requests |
| `RecordsV1Proofs!RecordsPaid` | `Spec => []RecordsArePaid`, of payments by their identifiers (a hash as it is written), for any spellings | `RecordInv`: one request at most owns an identifier, from its attempt on, and carries what is known of it from await to await |
| `RecordsV1Proofs!AttemptsTrue` | `Spec => []AttemptsAreTrue` | `RecordInv` |
| `RecordsV1Proofs!MoneyLost` | `Spec => []MoneyLostOnlyToConflict` | `RecordInv`: the conflict that refused a settled payment stays, as records are only added |
| `RecordsV1Proofs!SdkTypes` | `SdkSpec => []SdkTypeOK` | `CallInv`: `RecordInv` holds under the calls, a request belongs to one call, and each request, attempt and record says which call asked for it (`Asked`) |
| `RecordsV1Proofs!OutcomesTrue` | `SdkSpec => []OutcomeIsTrue` | `ToldInv`: what a call is told is what its request knows, records are only added, and a call at its first try has no request but the one in its slot, so a refusal leaves no record of it |
| `RecordsV1Proofs!FeeLost` | `SdkSpec => []FeeLostOnlyToConflict` | `FeeInv`: short of the faults it names, a fee sent is confirmed, its request does not end without a record but by a conflict (`EndSafe`), and what was safe stays so |
| `RecordsV1Proofs!PaidUnderResends` | `SdkSpec => []RecordsArePaid /\ []AttemptsAreTrue /\ []MoneyLostOnlyToConflict` | `RecordInv`, which the calls and their orphans preserve (`CallInv`): a resend is a request like any other, with the identifier as it was |
| `AnchorV1Proofs!TypeCorrect` | `Spec => []TypeOK` | `LockInv`: a lock is held by a live run, alone, of an active job; a job that may run has an attempt left |
| `AnchorV1Proofs!SentAtMostOnce` | `Spec => []SentOnce` | `SendInv`: of the runs of a record at most one is between the claim and the marking, however many have lost their lock, and an unclaimed record was never sent |
| `AnchorV1Proofs!ShownIsOnChain` | `Spec => []AnchoredOnChain` | `ChainInv`: a waiting run holds the transaction sent for its record, a marking run one that is mined |
| `AnchorV1Proofs!EndedSettle` | `Spec => []EndedJobsSettle` | `ShownInv`: a job that completes has a hash to show, and it stays; `CalmInv`: while nobody dies or stalls, an active job has its run, and one that failed its handler |
| `AnchorV1Proofs!SettledFinal` | `Spec => SettledIsFinal`, for two attempts or more | `MildInv`: a live run is alone, one that may yet throw has not seen its record anchored, and a job that may run again has never thrown if its record is anchored or may yet be; so a failing job has an unanchored record |
| `AnchorV1Proofs!AnswersKept` | `WaitSpec => []AnswersHold`, for two attempts or more | `HeldInv`: each answer was true when given, and what it says of the chain stays (`mined` and `sent` only grow), a claimed record is never unclaimed, and a state called terminal is final (`MildInv`); `HashInv`: the hash of a row is of a transaction sent for it |
| `WebhooksProofs!LimitOvershoot` | `HookSpec => []OvershootBounded` | `Room`: active webhooks and the requests past the count are together at most the limit and the other requests |
| `WebhooksProofs!DeliveriesAreDistinct` | `HookSpec => []AttemptsAreDistinct` | `DeliveryInv`: an active delivery has one run at most, and what was heard of its attempt is bounded by how far the run is and by the stalls |
| `WebhooksProofs!DeliveriesAreKept` | `HookSpec => []HeardOrGivenUp` | `DeliveryInv`: what was found and not added is still to be added, unless an add threw |
| `McpServerProofs!TypesHold` | `Spec => []TypeOK` | `Base` (types, `WorkInv`, the sizes of batches, one call per confirmation) and `ReportInv` |
| `McpServerProofs!DailyLimit` | `Spec => []DailyLimitHolds` | `OverlapLimit`: the ledger's day and the items under way are together within the limits and `Slack`, which is what the other calls may have under way: a new call adds what the guardrails allow beside the ledger, and each answer moves one item from the calls to the ledger at most. What is really spent is that and `Unnoted` at most (`SeenBound`, `UnpaidBound`): a record of the day is in the ledger, or belongs to an answered call, whose item is not counted as unpaid, or is hidden |
| `McpServerProofs!BatchReports` | `Spec => []BatchReportIsTrue` | `ReportInv`: of a batch, the successes counted, the rows and the items left add up (`Tally`), while it runs and when it has ended; a row that says success is of a record created and logged |
| `McpServerProofs!LedgerComplete` | `Spec => []LedgerIsComplete` | `WorkInv`: a confirmation offers something and a call at its records has one to make, so the answer a call gets is about a content; without the three faults only `RecordEnds` ends an answer, and it logs |
| `McpServerProofs!AloneWithinLimits` | `Spec => []LimitWhenAlone` (the first part of `DailyLimitHolds`) | `LimitIInv`: while a call is alone nobody else is at their records (`AloneInv`), so each item it finishes moves one from `todo` to the ledger's day (`FreshGrows`), which stays within the limits (`LedgerAlone`); what is really spent beside it is `Unnoted` (`AloneBound`), which is nothing without the four faults (`TodayInv`) |
| `MerkleV2Proofs!BatchesBind` | `MerkleSpec => []ProofsBind`, for batches and proofs of any length | `ClaimInv`: whatever siblings were given, a hash that is in the tree was made from a digest below it (a node is the set of its children, so a sibling that fits is the other child); `ProofVerifies`: what the verifier has come to after the proof up to a level is the node above the digest; `RootTells`: of two trees, equal nodes cover each digest equally often |

None of the properties is inductive by itself: `AnchoredHasProof` says nothing of a worker that has
seen a log and not written yet, `SentOnce` nothing of a run that has claimed and not sent, `QuotasHold` nothing of a request that has counted
and not inserted, `OutcomeIsTrue` nothing of a call whose answer is still on its way. Each lemma `...Step` has one step per action, and a
theorem over several components rests on what each lets the others see (`ChainStep`, `SafeStep`, `Served`: what a
step of the server is to the calls). `CallInv`, `ToldInv` and `FeeInv` were first checked by TLC on a smaller instance of `clients`.

What the proofs assume is what the modules assume of their constants: "none" values apart from the others, finite sets where something is counted, limits that are natural
numbers (attempts at least one), and of the MCP server that there is a call to make (`Call # {}`), without which "the other calls" is a negative number. Two theorems
ask for more: `SettledFinal` and `AnswersKept` of v1 are for two attempts or more (the code has five) because
with one, a job whose workers died after the UPDATE to anchored is out of attempts when it has stalled too often.

The loops of the tree are recursive functions, on which `MerkleV2Proofs` needs induction. The library's theorems for it take an operator
as a parameter, which the provers cannot instantiate. The module states it of sets instead: a set of naturals
that has 0, and with each number the next, has them all (`Induction`, from the well-foundedness of `<` on the naturals: the least
number left out has a predecessor). That the recursive functions satisfy their equations is proved with it (`LevelsDefined`,
`PlacesDefined`, `ProofDefined`, `HashDefined`): a function up to each level exists, and CHOOSE takes one. `RootTells` is by induction on the sum of the
two levels that are compared, as a promoted node is equal to the one below it. It assumes no more of `keccak256`
than the model does: a hash is the term it was made from.

Model-checked only: liveness (`Settles`, `EventuallySettled`, `DeliveriesEnd`), which is beyond the prover as it needs ENABLED. Every
safety property that a passing run checks is a theorem.

## 6. Not modelled, and simplified

- The lock of a v2 job is only lost when its worker dies (`Stalled` needs no worker to run the job): a worker that is
  alive and loses the lock is modelled in `AnchorV1` only. Outliving the *lease* is modelled.
- `LIMIT 100` of the reconciler without an order could starve rows if more than a hundred stay due.
- Both workers send from one account. Its nonces are not modelled: a refused transaction is an RPC failure.
- The status of the receipt is not looked at by v1, and not modelled there.
- One x402 payload presented under two payment identifiers.
- Batch anchors: the library verifies them and nothing makes them, so that the tree is modelled and their way through
  the contract is not. RPC errors of the verification are not modelled: it answers from the logs there are.
- That a call of the SDK ends: its fetches have a timeout and its resends a bound, and no property says more. Batches of more than one item in
  the SDK; its single GETs, its checks of options, its export format.
- The counters of the rate limiter are a library's; `SdkV1` has what it may answer. Listing, pagination, health, admin figures change no state.
- `Webhooks` has one event per change of state, and no composition with `AnchorV1`, which has the dispatch and its loss (`told`).
- The MCP server's confirmation mode: `control.ts` sets it and notes it in the audit log, and no tool reads it, `dry-run` included
  (`control.ts:47` says it simulates transactions). `failed_attempts` is written and never read.
- Signatures, hashing, canonical JSON, encryption of secrets, rendering, wiring, shutdown, scripts, migrations: pure or library code, or not part of the
  running system. The relayer account both workers send from is listed as a hazard that no property covers, as is the v1
  record whose enqueue was lost: the code has nothing that finds it again.

## 7. Plan

Done: the store, V2 anchoring with its lifecycle and receipts, the queue, V2 submission, V1 records and payments, V1 anchoring and what
agents are told of it, webhooks, the SDK, the Merkle tree, the MCP server's paying tools; their runs; proofs of every safety property the passing runs
check, and of both refinements.

Next, in this order:

1. **One account, two workers**: the nonces of the relayer, which the v1 and the v2 worker share, as a module that composes their sends.
2. **Webhooks under v1 anchoring**: a composition of the dispatch of `AnchorV1` with the deliveries of `Webhooks`, so that an event lost between
   them is seen end to end.
