----------------------------- MODULE McpServer ------------------------------
(***************************************************************************)
(* The write and batch tools of the MCP server                             *)
(* (packages/mcp-server/src/tools/write.ts and batch.ts) and the spending  *)
(* ledger behind their guardrails (ledger/SqliteLedger.ts).                *)
(*                                                                         *)
(* A call is one invocation of a tool. Calls of one process interleave at  *)
(* their awaits, which are its pc:                                         *)
(*                                                                         *)
(*   verify  -> prepare asks the registry for one content after another    *)
(*   record  -> confirm asks the SDK to create the next record             *)
(*   reply   -> the SDK's answer is under way                              *)
(*   idle    -> no tool running                                            *)
(*                                                                         *)
(* What a tool does between two awaits is one step; the ledger is          *)
(* synchronous. The single tools are batches of one, with the differences  *)
(* the code has. All items cost the same, the highest fee allowed and a    *)
(* fixed gas, so the ledger's sums are counts, and so is what is really    *)
(* spent: the records created, and the fees paid to no avail. A record is  *)
(* known by its content. failed_attempts is written and never read: left   *)
(* out.                                                                    *)
(***************************************************************************)
EXTENDS Naturals, Sequences, FiniteSets, Functions

CONSTANTS
  Content,
  Call,        \* tool calls running at a time
  Conf,        \* confirmation ids (a bound on those kept)
  Fee, Gas,    \* what an item is predicted to cost
  MaxGas, MaxTotal, MaxSpend, MaxRecords, MaxBatch,    \* MCP_MAX_...
  MaxPending,  \* MAX_PENDING_CONFIRMATIONS
  BatchSizes,  \* how many items batches bring (a bound)
  Dedup,       \* MCP_BATCH_DEDUP_BEFORE_PAY
  MaxDropped,  \* how many fees are paid to no avail in a day (a bound)
  NoConf,
  FaultSets    \* the combinations of kinds of fault a behaviour may meet

(***************************************************************************)
(* api     a call of the registry or the SDK fails without effect          *)
(* lost    a record is created and the SDK throws all the same             *)
(* fee     no record is created for a fee that the SDK has paid: it pays   *)
(*         before its POST, which fails or meets a conflict, or the x402   *)
(*         payment is settled before the error                             *)
(* ledger  a statement of the ledger throws                                *)
(* crash   the process dies and is started again                           *)
(***************************************************************************)
FaultKinds == {"api", "lost", "fee", "ledger", "crash"}

ASSUME McpAssumption ==
  /\ {Fee, Gas, MaxGas, MaxTotal, MaxSpend, MaxRecords, MaxPending, MaxDropped}
       \subseteq Nat
  /\ MaxBatch \in Nat \ {0} /\ BatchSizes \subseteq 1 .. MaxBatch /\ Dedup \in BOOLEAN
  /\ NoConf \notin Conf /\ IsFiniteSet(Content) /\ IsFiniteSet(Call) /\ Call # {}
  /\ FaultSets \subseteq SUBSET FaultKinds

VARIABLES
  registry,  \* the contents that have a record
  mine,      \* those whose record this server created
  today,     \* those of them it created within the last day
  dropped,   \* the fees it has paid to no avail within the last day
  log,       \* spending_log: fresh for a day, then old
  conf,      \* pendingConfirmations and pendingBatchConfirmations
  job,       \* batch_jobs, by confirmation id
  item,      \* batch_items, by confirmation id and content
  call,      \* the calls
  may        \* the kinds of fault that may occur

vars == <<registry, mine, today, dropped, log, conf, job, item, call, may>>

Contents == UNION {[1 .. n -> Content] : n \in 1 .. MaxBatch}
Items    == Contents \cup {<<>>}

Entry   == {"none", "fresh", "old"}
Pending == [status : {"none", "pending", "expired"}, batch : BOOLEAN,
            new : Items, dups : Items]
NoPending == [status |-> "none", batch |-> FALSE, new |-> <<>>, dups |-> <<>>]

\* A job is pending only within the step that makes it processing. total is
\* total_items; cost counts the items that make up actual_cost_wei.
Job   == [status : {"none", "processing", "completed", "failed"},
          total : 0 .. MaxBatch, cost : 0 .. MaxBatch]
NoJob == [status |-> "none", total |-> 0, cost |-> 0]
Item  == {"none", "success", "failed", "duplicate"}

\* alone is no variable of the code: no other call has been at its records
\* since this one was let through the guardrails.
CallState == [pc : {"idle", "verify", "record", "reply"}, batch : BOOLEAN,
              conf : Conf \cup {NoConf}, todo : Items, new : Items, dups : Items,
              created : BOOLEAN, ok : 0 .. MaxBatch, alone : BOOLEAN]
Idle == [pc |-> "idle", batch |-> FALSE, conf |-> NoConf, todo |-> <<>>,
         new |-> <<>>, dups |-> <<>>, created |-> FALSE, ok |-> 0,
         alone |-> FALSE]

Init ==
  /\ registry = {} /\ mine = {} /\ today = {} /\ dropped = 0
  /\ log = [c \in Content |-> "none"]
  /\ conf = [b \in Conf |-> NoPending]
  /\ job = [b \in Conf |-> NoJob]
  /\ item = [b \in Conf |-> [c \in Content |-> "none"]]
  /\ call = [k \in Call |-> Idle]
  /\ may \in FaultSets
-----------------------------------------------------------------------------
(***************************************************************************)
(* The guardrails.                                                         *)
(***************************************************************************)
Fresh == Cardinality({c \in Content : log[c] = "fresh"})

checkGuardrails ==
  /\ Gas <= MaxGas /\ Fee + Gas <= MaxTotal
  /\ Fresh < MaxRecords
  /\ (Fresh + 1) * (Fee + Gas) <= MaxSpend

\* A batch is not held to the limit of a transaction's total cost.
checkBatchGuardrails(n) ==
  /\ Gas <= MaxGas
  /\ Fresh + n <= MaxRecords
  /\ (Fresh + n) * (Fee + Gas) <= MaxSpend

Allowed(batch, n) == IF batch THEN checkBatchGuardrails(n) ELSE checkGuardrails

At(k, pc)   == call[k].pc = pc
Return(k)   == call' = [call EXCEPT ![k] = Idle]
Running(b)  == \E k \in Call : call[k].conf = b
Unused      == {b \in Conf : conf[b].status = "none" /\ job[b].status = "none"
                             /\ ~Running(b)}
Singles     == {b \in Conf : conf[b].status # "none" /\ ~conf[b].batch}
-----------------------------------------------------------------------------
(***************************************************************************)
(* rxm_prepare_record_generation and rxm_prepare_batch.                    *)
(***************************************************************************)
Prepare(k, batch, s) ==
  /\ At(k, "idle")
  /\ Len(s) \in IF batch THEN BatchSizes ELSE {1}
  /\ call' = [call EXCEPT ![k] = [Idle EXCEPT !.pc = "verify", !.batch = batch,
                                              !.todo = s]]
  /\ UNCHANGED <<registry, mine, today, dropped, log, conf, job, item, may>>

BadVerifyNoContinue(k) ==
  /\ At(k, "verify") /\ call[k].todo # <<>>
  /\ LET c == Head(call[k].todo)
     IN  call' = [call EXCEPT ![k].todo = Tail(@), ![k].new = Append(@, c),
                              ![k].dups = IF c \in registry THEN Append(@, c) ELSE @]
  /\ UNCHANGED <<registry, mine, today, dropped, log, conf, job, item, may>>

\* One content asked for; a single one that has a record is the end of it.
Verify(k) ==
  /\ At(k, "verify") /\ call[k].todo # <<>>
  /\ LET c == Head(call[k].todo)
         asks == call[k].batch => Dedup
         next == [call EXCEPT ![k].todo = Tail(@)]
     IN  \/ /\ asks /\ c \in registry
            /\ IF call[k].batch
                 THEN call' = [next EXCEPT ![k].dups = Append(@, c)]
                 ELSE Return(k)
         \/ /\ asks => c \notin registry
            /\ call' = [next EXCEPT ![k].new = Append(@, c)]
         \/ asks /\ "api" \in may /\ Return(k)
  /\ UNCHANGED <<registry, mine, today, dropped, log, conf, job, item, may>>

\* A new confirmation, if the guardrails allow it and there is room for it.
\* Bound: one beyond Conf is forgotten, as if nobody ever confirmed it.
PrepareEnds(k) ==
  /\ At(k, "verify") /\ call[k].todo = <<>>
  /\ LET offered == /\ call[k].new # <<>>
                    /\ Allowed(call[k].batch, Len(call[k].new))
                    /\ call[k].batch \/ Cardinality(Singles) < MaxPending
     IN  \/ /\ offered
            /\ \E b \in Unused :
                 conf' = [conf EXCEPT ![b] =
                   [status |-> "pending", batch |-> call[k].batch,
                    new |-> call[k].new, dups |-> call[k].dups]]
         \/ /\ ~offered \/ Unused = {} \/ "ledger" \in may
            /\ UNCHANGED conf
  /\ Return(k)
  /\ UNCHANGED <<registry, mine, today, dropped, log, job, item, may>>
-----------------------------------------------------------------------------
(***************************************************************************)
(* rxm_confirm_record_generation and rxm_confirm_batch.                    *)
(***************************************************************************)
Mark(b, C, s) == item' = [item EXCEPT ![b] = [c \in Content |->
                                                IF c \in C THEN s ELSE @[c]]]
Consume(b)    == conf' = [conf EXCEPT ![b] = NoPending]

Busy(k) == call[k].pc \in {"record", "reply"}

Starts(k, b) ==
  call' = [j \in Call |->
    IF j # k THEN [call[j] EXCEPT !.alone = FALSE]
    ELSE [Idle EXCEPT !.pc = "record", !.conf = b, !.batch = conf[b].batch,
                      !.todo = conf[b].new, !.alone = \A i \in Call : ~Busy(i)]]

NewJob(b) == job' = [job EXCEPT ![b] =
  [status |-> "processing", cost |-> 0, total |-> Len(conf[b].new) + Len(conf[b].dups)]]

BadConfirmUnchecked(k, b) ==
  /\ At(k, "idle") /\ conf[b].status = "pending"
  /\ Consume(b) /\ Starts(k, b)
  /\ IF conf[b].batch
       THEN NewJob(b) /\ Mark(b, Range(conf[b].dups), "duplicate")
       ELSE UNCHANGED <<job, item>>
  /\ UNCHANGED <<registry, mine, today, dropped, log, may>>

\* An expired confirmation, one the guardrails no longer allow, and a single
\* one whose content does not have the hash given, are consumed for nothing.
Confirm(k, b) ==
  /\ At(k, "idle") /\ conf[b].status # "none"
  /\ Consume(b)
  /\ LET good == /\ conf[b].status = "pending"
                 /\ Allowed(conf[b].batch, Len(conf[b].new))
     IN  \/ ~(good /\ conf[b].batch) /\ Return(k) /\ UNCHANGED <<job, item>>
         \/ good /\ ~conf[b].batch /\ Starts(k, b) /\ UNCHANGED <<job, item>>
         \/ /\ good /\ conf[b].batch
            /\ NewJob(b) /\ Mark(b, Range(conf[b].dups), "duplicate")
            /\ Starts(k, b)
         \/ /\ good /\ conf[b].batch /\ "ledger" \in may
            /\ Return(k)
            /\ \/ UNCHANGED <<job, item>>
               \/ /\ NewJob(b)
                  /\ \E D \in SUBSET Range(conf[b].dups) : Mark(b, D, "duplicate")
  /\ UNCHANGED <<registry, mine, today, dropped, log, may>>

\* The SDK at work: a record is created unless the content has one. Bound: not
\* more than MaxDropped fees are paid for nothing.
RecordHash(k) ==
  /\ At(k, "record")
  /\ LET c == Head(call[k].todo) IN
       \/ /\ c \notin registry
          /\ registry' = registry \cup {c}
          /\ mine' = mine \cup {c} /\ today' = today \cup {c}
          /\ \E told \in {TRUE} \cup (IF "lost" \in may THEN {FALSE} ELSE {}) :
               call' = [call EXCEPT ![k].pc = "reply", ![k].created = told]
          /\ UNCHANGED dropped
       \/ /\ \/ (c \in registry \/ "api" \in may) /\ UNCHANGED dropped
             \/ "fee" \in may /\ dropped < MaxDropped /\ dropped' = dropped + 1
          /\ call' = [call EXCEPT ![k].pc = "reply", ![k].created = FALSE]
          /\ UNCHANGED <<registry, mine, today>>
  /\ UNCHANGED <<log, conf, job, item, may>>

\* What confirm does of an answer: log it and note the item, then go on to the
\* next item or finish. The item's row replaces one the content has already.
Finished(b, ok, bad) ==
  job' = [job EXCEPT ![b].cost = ok,
                     ![b].status = IF bad /\ ok = 0 THEN "failed" ELSE "completed"]

Settled(k, logged, good) ==
  LET c == Head(call[k].todo)  b == call[k].conf
      ok == IF good THEN call[k].ok + 1 ELSE call[k].ok
  IN  /\ log' = IF logged THEN [log EXCEPT ![c] = "fresh"] ELSE log
      /\ IF call[k].batch
           THEN Mark(b, {c}, IF good THEN "success" ELSE "failed")
           ELSE UNCHANGED item
      /\ IF Len(call[k].todo) > 1
           THEN /\ call' = [call EXCEPT ![k].pc = "record", ![k].created = FALSE,
                                        ![k].todo = Tail(@), ![k].ok = ok]
                /\ UNCHANGED job
           ELSE /\ Return(k)
                /\ IF call[k].batch
                     THEN \/ Finished(b, ok, ~good)
                          \/ "ledger" \in may /\ UNCHANGED job
                     ELSE UNCHANGED job

\* The note of a failed item throws as well, and ends the batch half done.
LedgerGone(k, logged) ==
  /\ log' = IF logged THEN [log EXCEPT ![Head(call[k].todo)] = "fresh"] ELSE log
  /\ Return(k)
  /\ UNCHANGED <<job, item>>

BadLogSinglesOnly(k) ==
  /\ At(k, "reply")
  /\ Settled(k, call[k].created /\ ~call[k].batch, call[k].created)
  /\ UNCHANGED <<registry, mine, today, dropped, conf, may>>
BadTrustReply(k) ==
  /\ At(k, "reply")
  /\ Settled(k, call[k].created, TRUE)
  /\ UNCHANGED <<registry, mine, today, dropped, conf, may>>
RecordEnds(k) ==
  /\ At(k, "reply")
  /\ \/ Settled(k, call[k].created, call[k].created)
     \/ /\ "ledger" \in may /\ call[k].created
        /\ \E logged \in {FALSE, call[k].batch} :
             \/ Settled(k, logged, FALSE)
             \/ call[k].batch /\ LedgerGone(k, logged)
     \/ "ledger" \in may /\ ~call[k].created /\ call[k].batch /\ LedgerGone(k, FALSE)
  /\ UNCHANGED <<registry, mine, today, dropped, conf, may>>
-----------------------------------------------------------------------------
(***************************************************************************)
(* Time, other agents, and restarts: a process keeps the confirmations in  *)
(* memory and the ledger on disk.                                          *)
(***************************************************************************)
Expires(b) ==
  /\ conf[b].status = "pending"
  /\ conf' = [conf EXCEPT ![b].status = "expired"]
  /\ UNCHANGED <<registry, mine, today, dropped, log, job, item, call, may>>

\* One timer for the single confirmations, one for the batches.
Collect(batch) ==
  LET gone == {b \in Conf : conf[b].status = "expired" /\ conf[b].batch = batch} IN
  /\ gone # {}
  /\ conf' = [b \in Conf |-> IF b \in gone THEN NoPending ELSE conf[b]]
  /\ UNCHANGED <<registry, mine, today, dropped, log, job, item, call, may>>

\* A call is about to log the record of c.
Logging(c) == \E k \in Call : /\ At(k, "reply") /\ call[k].created
                              /\ Head(call[k].todo) = c

\* A day has passed: for a record and its entry, if it has one, or for a fee.
\* Between a record and its entry there is less.
Ages(c) ==
  /\ c \in today \/ log[c] = "fresh"
  /\ ~Logging(c)
  /\ today' = today \ {c}
  /\ log' = [log EXCEPT ![c] = IF @ = "fresh" THEN "old" ELSE @]
  /\ UNCHANGED <<registry, mine, dropped, conf, job, item, call, may>>
FeeAges ==
  /\ dropped > 0 /\ dropped' = dropped - 1
  /\ UNCHANGED <<registry, mine, today, log, conf, job, item, call, may>>

Elsewhere(c) ==
  /\ c \notin registry
  /\ registry' = registry \cup {c}
  /\ UNCHANGED <<mine, today, dropped, log, conf, job, item, call, may>>

Restart ==
  /\ "crash" \in may
  /\ call' = [k \in Call |-> Idle]
  /\ conf' = [b \in Conf |-> NoPending]
  /\ UNCHANGED <<registry, mine, today, dropped, log, job, item, may>>

CallStep(k) == Verify(k) \/ PrepareEnds(k) \/ RecordHash(k) \/ RecordEnds(k)

Next ==
  \/ \E k \in Call : CallStep(k)
  \/ \E k \in Call, batch \in BOOLEAN, s \in Contents : Prepare(k, batch, s)
  \/ \E k \in Call, b \in Conf : Confirm(k, b)
  \/ \E b \in Conf : Expires(b)
  \/ \E c \in Content : Ages(c) \/ Elsewhere(c)
  \/ \E batch \in BOOLEAN : Collect(batch)
  \/ FeeAges \/ Restart

Spec == Init /\ [][Next]_vars
-----------------------------------------------------------------------------
Without(kinds) == kinds \cap may = {}

TypeOK ==
  /\ registry \subseteq Content /\ mine \subseteq registry
  /\ today \subseteq mine /\ dropped \in 0 .. MaxDropped
  /\ log \in [Content -> Entry]
  /\ conf \in [Conf -> Pending]
  /\ job \in [Conf -> Job]
  /\ item \in [Conf -> [Content -> Item]]
  /\ call \in [Call -> CallState]
  /\ may \in FaultSets

\* What was really spent within the last day, in items: the records created,
\* and the fees that bought none.
Spent == Cardinality(today) + dropped

\* The items of a confirmed call that it has still to pay for.
ToPay(k)  == IF At(k, "reply") THEN Len(call[k].todo) - 1
             ELSE IF At(k, "record") THEN Len(call[k].todo) ELSE 0
AllToPay  == Cardinality({i \in Call \X (1 .. MaxBatch) : i[2] <= ToPay(i[1])})

\* What of it the guardrails can never see: fees that bought nothing, and
\* records not in the ledger that no call is about to log.
Unnoted == dropped + Cardinality({c \in today : log[c] # "fresh" /\ ~Logging(c)})

Within(n, slack) ==
  /\ n <= MaxRecords + slack
  /\ n * (Fee + Gas) <= MaxSpend + slack * (Fee + Gas)

\* "Maximum daily spend" (packages/mcp-server/SECURITY.md:42), of what is
\* really spent: the guardrails are checked against the ledger before an await
\* and the spending is logged after it, or never. A call that runs alone
\* spends no more than the day allows, but for what the ledger was never told;
\* without lost answers, dropped fees, a failing ledger and crashes that is
\* nothing. Overlapping calls add at most one batch for each other call.
LimitWhenAlone ==
  /\ \A k \in Call : call[k].alone => Within(Spent + ToPay(k), Unnoted)
  /\ Without({"lost", "fee", "ledger", "crash"}) => Unnoted = 0
DailyLimitHolds ==
  /\ LimitWhenAlone
  /\ Within(Spent + AllToPay, (Cardinality(Call) - 1) * MaxBatch + Unnoted)

\* What the guardrails count is what was created: short of a crash, an answer
\* lost and a failing ledger, a record the server created is in the ledger or
\* the call that created it is about to log it.
LedgerIsComplete ==
  Without({"crash", "lost", "ledger"}) =>
    \A c \in mine : log[c] # "none" \/ Logging(c)

\* What a finished batch reports is so: an item is marked success only if its
\* record is in the ledger, and the cost counts those items. It counts more
\* when the batch lists a content twice: the second time fails, and its row
\* replaces the first one's.
Rows(b, s) == {c \in Content : item[b][c] = s}
BatchReportIsTrue ==
  \A b \in Conf :
    job[b].status \in {"completed", "failed"} =>
      /\ \A c \in Rows(b, "success") : c \in mine /\ log[c] # "none"
      /\ job[b].cost >= Cardinality(Rows(b, "success"))
      /\ Cardinality(Content \ Rows(b, "none")) = job[b].total =>
           job[b].cost = Cardinality(Rows(b, "success"))
      /\ job[b].status = "failed" => Rows(b, "success") = {}
=============================================================================
