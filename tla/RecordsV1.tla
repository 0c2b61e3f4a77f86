------------------------------ MODULE RecordsV1 ------------------------------
(***************************************************************************)
(* Creation of v1 records against a payment: POST /v1/records and          *)
(* POST /v1/records/batch (src/routes/records.ts) with preCheck,           *)
(* verifyAndSettle and linkRecord (src/services/paymentVerifier.ts),       *)
(* checkDuplicates and createRecord (src/services/recordsService.ts),      *)
(* verifyFee (src/services/fee.ts) and the x402 facilitator               *)
(* (src/services/x402Verifier.ts).                                         *)
(*                                                                         *)
(* A request is one POST, or one item of a batch: the items run side by    *)
(* side like requests. Its pc names the await it is at:                    *)
(*                                                                         *)
(*   precheck  -> is there a record of this content?                       *)
(*   dups      -> is the nonce or the fee in a record?                     *)
(*   attempt   -> INSERT into payment_attempts                             *)
(*   verify    -> verifyFee, or the facilitator's verify and settle        *)
(*   settle    -> the attempt's UPDATE to settled                          *)
(*   insert    -> INSERT into records                                      *)
(*   enqueue   -> the anchoring job                                        *)
(*   link      -> the attempt's UPDATE with the record's id                *)
(*   undo      -> the attempt's UPDATE to failed; answer is what follows   *)
(*   idle      -> none in progress; answer is that of the last one         *)
(*                                                                         *)
(* Wallet and nonce are one value here. The server knows a payment by an   *)
(* identifier, compared as a string: the payment-identifier of an x402     *)
(* payment (Usdc), or the hash of a transfer as it was written (Fee). The  *)
(* schema lets a hash be written in letters of either case, nothing        *)
(* lower-cases it, and the chain knows the transfer by any spelling. The   *)
(* two reads of dups are one step: records are only ever added, so what    *)
(* both found was so when the later one ran, and what neither found was    *)
(* so when the earlier one ran.                                            *)
(***************************************************************************)
EXTENDS Naturals, FiniteSets

CONSTANTS
  Content, Nonce,
  Transfer,      \* transfers of the fee on the chain
  Spelling,      \* the ways to write a hash: its letters in either case
  Usdc,          \* x402 payments, by payment-identifier
  NoPay,         \* a request that brings no payment
  NoContent, NoNonce,
  Req,           \* requests in flight at a time
  FaultSets      \* the combinations of kinds of fault a behaviour may meet

\* TX_HASH_REGEX: the hash of a transfer, in one spelling.
Fee == Transfer \X Spelling
Pay == Fee \cup Usdc
SameTransfer(p) == {q \in Fee : q[1] = p[1]}

(***************************************************************************)
(* db         a statement throws without having had its effect             *)
(* lostReply  a statement, or the settlement of an x402 payment, has its   *)
(*            effect and its reply is lost                                 *)
(* rpc        a call of the chain or the facilitator throws, or the fee    *)
(*            has expired                                                  *)
(* redis      the anchoring job cannot be added                            *)
(* crash      the process dies                                             *)
(***************************************************************************)
FaultKinds == {"db", "lostReply", "rpc", "redis", "crash"}

ASSUME RecordsAssumption ==
  /\ Fee \cap Usdc = {} /\ NoPay \notin Pay
  /\ NoContent \notin Content /\ NoNonce \notin Nonce
  /\ FaultSets \subseteq SUBSET FaultKinds

VARIABLES
  records,   \* the records table
  attempts,  \* payment_attempts, by payment identifier
  paid,      \* identifiers of payments whose money has reached the receiver
  jobs,      \* contents whose record has had its anchoring job added
  req,       \* the requests
  may        \* the kinds of fault that may occur

vars == <<records, attempts, paid, jobs, req, may>>

\* nonce and batch are not columns: they tell which request made the attempt.
Status  == {"none", "pending", "settled", "failed"}
Attempt == [status : Status, content : Content \cup {NoContent},
            nonce : Nonce \cup {NoNonce}, linked : BOOLEAN, batch : BOOLEAN]
NoAttempt == [status |-> "none", content |-> NoContent, nonce |-> NoNonce,
              linked |-> FALSE, batch |-> FALSE]

Record  == [content : Content, nonce : Nonce, pay : Pay]

\* created 201, cached 200, duplicate and reused 409, refused 400 and 402,
\* error 500 or no answer. A conflict that an INSERT meets is an error: the
\* 23505 the code looks for is in the cause of what drizzle throws.
Answer  == {"none", "created", "cached", "duplicate", "reused", "refused", "error"}
PC      == {"idle", "precheck", "dups", "attempt", "verify", "settle",
            "insert", "enqueue", "link", "undo"}
Request == [pc : PC, content : Content \cup {NoContent},
            nonce : Nonce \cup {NoNonce}, pay : Pay \cup {NoPay},
            batch : BOOLEAN, answer : Answer]
Blank   == [pc |-> "idle", content |-> NoContent, nonce |-> NoNonce,
            pay |-> NoPay, batch |-> FALSE, answer |-> "none"]

Init ==
  /\ records = {}
  /\ attempts = [p \in Pay |-> NoAttempt]
  /\ paid = {} /\ jobs = {}
  /\ req = [r \in Req |-> Blank]
  /\ may \in FaultSets
-----------------------------------------------------------------------------
At(r, pc)   == req[r].pc = pc
Goto(r, pc) == req' = [req EXCEPT ![r].pc = pc]
Reply(r, a) == req' = [req EXCEPT ![r] = [Blank EXCEPT !.answer = a]]

\* A throw undoes the attempt, if there is one and a catch for it, and is then
\* answered.
BadThrows(r, a) ==
  IF req[r].pc \in {"verify", "settle"}
    THEN req' = [req EXCEPT ![r] = [@ EXCEPT !.pc = "undo", !.answer = a]]
    ELSE Reply(r, a)
Throws(r, a) ==
  IF \/ req[r].pc \in {"verify", "settle"}
     \/ req[r].pc \in {"insert", "link"} /\ ~req[r].batch
    THEN req' = [req EXCEPT ![r] = [@ EXCEPT !.pc = "undo", !.answer = a]]
    ELSE Reply(r, a)

\* A statement with its effect, followed by next; or one that throws, with or
\* without its effect.
Statement(r, effect, none, next) ==
  \/ effect /\ next
  \/ "lostReply" \in may /\ effect /\ Throws(r, "error")
  \/ "db" \in may /\ none /\ Throws(r, "error")

RecordOf(c)   == {e \in records : e.content = c}
Recorded(p)   == \E e \in records : e.pay = p
InFlight(r)   == ~At(r, "idle")
UsesNonce(n)  == \E e \in records : e.nonce = n
UsesFee(p)    == p \in Fee /\ Recorded(p)
SetAttempt(p, s) == attempts' = [attempts EXCEPT ![p].status = s]
-----------------------------------------------------------------------------
\* A submission that passes the schema and the signature check; an item of a
\* batch cannot bring an x402 payment.
Submit(r, c, n, p, batch) ==
  /\ At(r, "idle")
  /\ batch => p \notin Usdc
  /\ req' = [req EXCEPT ![r] = [pc |-> "precheck", content |-> c, nonce |-> n,
                                pay |-> p, batch |-> batch, answer |-> "none"]]
  /\ UNCHANGED <<records, attempts, paid, jobs, may>>

\* The record's attempt, read in a second statement, keeps its identifier.
\* A single request without payment learns the terms (402) after this check.
preCheck(r) ==
  /\ At(r, "precheck")
  /\ \/ /\ RecordOf(req[r].content) # {}
        /\ IF req[r].pay \in Usdc
                /\ \E e \in RecordOf(req[r].content) : e.pay = req[r].pay
             THEN Reply(r, "cached")
             ELSE Reply(r, "duplicate")
     \/ /\ RecordOf(req[r].content) = {}
        /\ IF req[r].pay = NoPay /\ ~req[r].batch
             THEN Reply(r, "refused")
             ELSE Goto(r, "dups")
     \/ "db" \in may /\ Reply(r, "error")
  /\ UNCHANGED <<records, attempts, paid, jobs, may>>

checkDuplicates(r) ==
  /\ At(r, "dups")
  /\ \/ /\ UsesNonce(req[r].nonce) \/ UsesFee(req[r].pay)
        /\ Reply(r, IF UsesNonce(req[r].nonce) THEN "duplicate" ELSE "reused")
     \/ /\ ~UsesNonce(req[r].nonce) /\ ~UsesFee(req[r].pay)
        /\ IF req[r].pay = NoPay THEN Reply(r, "refused") ELSE Goto(r, "attempt")
     \/ "db" \in may /\ Reply(r, "error")
  /\ UNCHANGED <<records, attempts, paid, jobs, may>>

\* idx_pa_payment_identifier lets one attempt through for each identifier, ever.
InsertAttempt(r) ==
  /\ At(r, "attempt")
  /\ LET p == req[r].pay IN
       \/ /\ attempts[p].status # "none"
          /\ Throws(r, "error") /\ UNCHANGED attempts
       \/ /\ attempts[p].status = "none"
          /\ Statement(r,
               attempts' = [attempts EXCEPT ![p] =
                 [status |-> "pending", content |-> req[r].content,
                  nonce |-> req[r].nonce, linked |-> FALSE,
                  batch |-> req[r].batch]],
               UNCHANGED attempts,
               Goto(r, "verify"))
  /\ UNCHANGED <<records, paid, jobs, may>>

\* A confirmed transfer of enough to the receiver. That it cannot be found, or
\* is too old, is a refusal; only the last call may throw anything else.
verifyFee(r) ==
  /\ At(r, "verify") /\ req[r].pay \in Fee
  /\ \/ req[r].pay \in paid /\ Goto(r, "settle")
     \/ req[r].pay \notin paid /\ Throws(r, "refused")
     \/ "rpc" \in may /\ Throws(r, "refused")
     \/ "rpc" \in may /\ req[r].pay \in paid /\ Throws(r, "error")
  /\ UNCHANGED <<records, attempts, paid, jobs, may>>

\* The facilitator settles a payment once. It may refuse any.
BadSettlePayment(r) ==
  /\ At(r, "verify") /\ req[r].pay \in Usdc
  /\ Goto(r, "settle")
  /\ UNCHANGED <<records, attempts, paid, jobs, may>>
BadSettleThenVerify(r) ==
  /\ At(r, "verify") /\ req[r].pay \in Usdc
  /\ paid' = paid \cup {req[r].pay}
  /\ Goto(r, "settle") \/ Throws(r, "refused")
  /\ UNCHANGED <<records, attempts, jobs, may>>
SettlePayment(r) ==
  /\ At(r, "verify") /\ req[r].pay \in Usdc
  /\ \/ /\ req[r].pay \notin paid
        /\ paid' = paid \cup {req[r].pay}
        /\ Goto(r, "settle") \/ ("lostReply" \in may /\ Throws(r, "error"))
     \/ /\ Throws(r, "refused") \/ ("rpc" \in may /\ Throws(r, "error"))
        /\ UNCHANGED paid
  /\ UNCHANGED <<records, attempts, jobs, may>>

MarkSettled(r) ==
  /\ At(r, "settle")
  /\ Statement(r, SetAttempt(req[r].pay, "settled"), UNCHANGED attempts,
               Goto(r, "insert"))
  /\ UNCHANGED <<records, paid, jobs, may>>

\* The catch blocks of verifyAndSettle and of the route.
MarkFailed(r) ==
  /\ At(r, "undo")
  /\ Statement(r, SetAttempt(req[r].pay, "failed"), UNCHANGED attempts,
               Reply(r, req[r].answer))
  /\ UNCHANGED <<records, paid, jobs, may>>

\* The unique content_hash, (agent_wallet, nonce) and fee_tx_hash decide, the
\* last on a varchar that tells the cases apart.
InsertRecord(r) ==
  /\ At(r, "insert")
  /\ LET c == req[r].content  n == req[r].nonce  p == req[r].pay IN
       \/ /\ RecordOf(c) # {} \/ UsesNonce(n) \/ UsesFee(p)
          /\ Throws(r, "error") /\ UNCHANGED records
       \/ /\ RecordOf(c) = {} /\ ~UsesNonce(n) /\ ~UsesFee(p)
          /\ Statement(r,
               records' = records \cup {[content |-> c, nonce |-> n, pay |-> p]},
               UNCHANGED records,
               Goto(r, "enqueue"))
  /\ UNCHANGED <<attempts, paid, jobs, may>>

\* An enqueue that throws is logged and forgotten.
EnqueueAnchorJob(r) ==
  /\ At(r, "enqueue")
  /\ Goto(r, "link")
  /\ \/ jobs' = jobs \cup {req[r].content}
     \/ "redis" \in may /\ UNCHANGED jobs
  /\ UNCHANGED <<records, attempts, paid, may>>

linkRecord(r) ==
  /\ At(r, "link")
  /\ Statement(r, attempts' = [attempts EXCEPT ![req[r].pay].linked = TRUE],
               UNCHANGED attempts, Reply(r, "created"))
  /\ UNCHANGED <<records, paid, jobs, may>>

\* The process dies under a request, which gets no answer.
Crash(r) ==
  /\ "crash" \in may
  /\ InFlight(r)
  /\ Reply(r, "error")
  /\ UNCHANGED <<records, attempts, paid, jobs, may>>

\* The agent's transfer of the fee is confirmed, under every spelling.
Confirmed(p) ==
  /\ p \in Fee \ paid
  /\ paid' = paid \cup SameTransfer(p)
  /\ UNCHANGED <<records, attempts, jobs, req, may>>

RequestStep(r) ==
  \/ preCheck(r) \/ checkDuplicates(r) \/ InsertAttempt(r) \/ verifyFee(r)
  \/ SettlePayment(r) \/ MarkSettled(r) \/ MarkFailed(r) \/ InsertRecord(r)
  \/ EnqueueAnchorJob(r) \/ linkRecord(r) \/ Crash(r)

Next ==
  \/ \E r \in Req : RequestStep(r)
  \/ \E r \in Req, c \in Content, n \in Nonce, p \in Pay \cup {NoPay},
        batch \in BOOLEAN : Submit(r, c, n, p, batch)
  \/ \E p \in Fee : Confirmed(p)

Spec == Init /\ [][Next]_vars
-----------------------------------------------------------------------------
Without(kinds) == kinds \cap may = {}

TypeOK ==
  /\ records \subseteq Record
  /\ attempts \in [Pay -> Attempt]
  /\ paid \subseteq Pay
  /\ jobs \subseteq {e.content : e \in records}
  /\ req \in [Req -> Request]
  /\ may \in FaultSets

\* "No record without accepted payment evidence" (INV-012, schema.ts:221): the
\* money of every record has arrived, under the identifier it was presented
\* with, which was taken for this very content; and no identifier, content or
\* nonce serves two records, whatever fails when. Of the transfer behind a
\* hash this does not hold: see OneRecordPerTransfer.
RecordsArePaid ==
  /\ \A e \in records :
       /\ e.pay \in paid
       /\ attempts[e.pay].status \in {"settled", "failed"}
       /\ attempts[e.pay].content = e.content
  /\ \A e, f \in records :
       e.pay = f.pay \/ e.content = f.content \/ e.nonce = f.nonce => e = f

\* What an attempt says of its payment is true. None is left settled without
\* a record ("to avoid that the payment is orphaned in state settled without
\* record", records.ts:185): but for crashes and failing statements, and but
\* for batches, which have no such catch. One marked failed paid for no record:
\* as long as statements do not fail, because a failing linkRecord marks the
\* attempt of a record that exists, and will be anchored, as failed.
Held(p) == \E r \in Req : InFlight(r) /\ req[r].pay = p
AttemptsAreTrue ==
  \A p \in Pay :
    /\ /\ Without({"crash", "db", "lostReply"})
       /\ attempts[p].status = "settled" /\ ~attempts[p].batch
       => Recorded(p) \/ Held(p)
    /\ Without({"db", "lostReply"}) /\ attempts[p].status = "failed" =>
         ~Recorded(p)

\* Money taken through the facilitator buys a record, or another record has
\* the content or the nonce it was taken for: without crashes and failing
\* statements nothing else comes between.
MoneyLostOnlyToConflict ==
  Without({"crash", "db", "lostReply"}) =>
    \A p \in Usdc \cap paid :
      \/ Recorded(p) \/ Held(p)
      \/ \E e \in records : \/ e.content = attempts[p].content
                            \/ e.nonce = attempts[p].nonce

\* A transfer of the fee buys one record: "1:1 with record, non-reusable"
\* (schema.ts:90), "One `fee_tx_hash` = one `record`" (fee-flow-v1.md:116).
OneRecordPerTransfer ==
  \A e, f \in records :
    e.pay \in Fee /\ f.pay \in SameTransfer(e.pay) => e = f
=============================================================================
