------------------------------- MODULE SdkV1 -------------------------------
(***************************************************************************)
(* Calls of record, recordHash and recordBatch of the TypeScript SDK       *)
(* (packages/sdk/src/client.ts, with payFee of fee.ts and request of       *)
(* http.ts) against the server of RecordsV1. A call draws its nonce once,  *)
(* so it is its nonce. It is at one of these awaits:                       *)
(*                                                                         *)
(*   pay     -> sendTransaction of payFee                                  *)
(*   confirm -> waitForTransactionReceipt of payFee                        *)
(*   post    -> fetch, before it reaches the server                        *)
(*   sent    -> fetch, its request in a slot of the server                 *)
(*   sign    -> signX402Payment, after the first POST was answered 402     *)
(*   done    -> out is what the caller got                                 *)
(*                                                                         *)
(* A fetch given up leaves its request running: the slot is an orphan.     *)
(* A batch has one item here.                                              *)
(***************************************************************************)
EXTENDS RecordsV1

CONSTANTS
  Mode,          \* {"fee", "byo", "x402", "batch"}, or some of them
  MaxRetries,    \* httpRetries, 3 by default
  Node,          \* the spelling in which sendTransaction returns a hash
  NoReq,
  NetFaultSets

(***************************************************************************)
(* timeout    a fetch is given up after timeoutMs                          *)
(* unreached  a request fails, or the limiter refuses it, before the       *)
(*            handler                                                      *)
(* wallet     the wallet or the node throws, a transaction sent or not     *)
(* reverted   the transaction of the fee reverts                           *)
(***************************************************************************)
NetFaultKinds == {"timeout", "unreached", "wallet", "reverted"}

ASSUME SdkAssumption ==
  /\ Mode \subseteq {"fee", "byo", "x402", "batch"}
  /\ MaxRetries \in Nat /\ NoReq \notin Req /\ Node \in Spelling
  /\ NetFaultSets \subseteq SUBSET NetFaultKinds

VARIABLES
  call,     \* the calls of the SDK, by nonce
  reverted, \* the fees, in any spelling, whose transaction has reverted
  netMay    \* the kinds of fault that may occur outside of the server

sdkVars == <<records, attempts, paid, jobs, req, may, call, reverted, netMay>>

\* receipt: of a 201; cached: of a 200, which has no record_id; failed: 5xx,
\* 429 or no answer to the last attempt, or a wallet that threw.
Outcome == {"none", "receipt", "cached", "duplicate", "reused", "refused", "failed"}
Call == [pc : {"idle", "pay", "confirm", "post", "sent", "sign", "done"},
         mode : Mode \cup {"none"}, content : Content \cup {NoContent},
         fee : Fee \cup {NoPay}, usdc : Usdc \cup {NoPay}, signed : BOOLEAN,
         try : 0..MaxRetries, slot : Req \cup {NoReq}, out : Outcome]

SdkInit ==
  /\ Init
  /\ call = [k \in Nonce |->
       [pc |-> "idle", mode |-> "none", content |-> NoContent, fee |-> NoPay,
        usdc |-> NoPay, signed |-> FALSE, try |-> 0, slot |-> NoReq,
        out |-> "none"]]
  /\ reverted = {} /\ netMay \in NetFaultSets
-----------------------------------------------------------------------------
Doing(k, pc) == call[k].pc = pc
Known(field) == {call[k][field] : k \in Nonce}
\* Hashes and identifiers are drawn at random: which one is new is immaterial.
New(S, field) == CHOOSE x \in S : x \notin Known(field)
Fresh(S, field) == S \ Known(field) # {}
NewOrKnown(S, field) ==
  (S \cap Known(field)) \cup {x \in S : Fresh(S, field) /\ x = New(S, field)}

\* The fee the next transaction will be; and the fees a caller may bring, in
\* the spelling of its choice.
Unsent  == {p \in Fee : p[2] = Node /\ SameTransfer(p) \cap Known("fee") = {}}
NextFee == {p \in Unsent : p = CHOOSE q \in Unsent : TRUE}
Fees    == {p \in Fee : SameTransfer(p) \cap (Known("fee") \cup NextFee) # {}}

\* What the POST brings: PAYMENT-SIGNATURE comes before fee_tx_hash.
Payment(k) == IF call[k].signed THEN call[k].usdc ELSE call[k].fee

Finish(k, out) ==
  call' = [call EXCEPT ![k] = [@ EXCEPT !.pc = "done", !.out = out, !.slot = NoReq]]

\* request: another attempt after the backoff, unless this was the last.
BadAgain(k) ==
  IF call[k].try <= MaxRetries
    THEN call' = [call EXCEPT ![k] =
           [@ EXCEPT !.pc = "post", !.try = call[k].try + 1, !.slot = NoReq]]
    ELSE Finish(k, "failed")
Again(k) ==
  IF call[k].try < MaxRetries
    THEN call' = [call EXCEPT ![k] =
           [@ EXCEPT !.pc = "post", !.try = call[k].try + 1, !.slot = NoReq]]
    ELSE Finish(k, "failed")
-----------------------------------------------------------------------------
\* The status an answer has, from the route or from apiErrorHandler; the one
\* item of a batch decides its status.
apiErrorHandler(a) ==
  CASE a = "refused"                -> 402
    [] a \in {"duplicate", "reused"} -> 409
    [] a = "error"                  -> 500
ReplyStatus(a) == CASE a = "created" -> 201 [] a = "cached" -> 200
                    [] OTHER -> apiErrorHandler(a)
BatchStatus(a) == IF a = "created" THEN 201 ELSE 400

\* A process that has died answers nothing.
NoStatus == 0
Statuses(k, a) ==
  {IF call[k].mode = "batch" THEN BatchStatus(a) ELSE ReplyStatus(a)}
    \cup {s \in {NoStatus} : a = "error" /\ "crash" \in may}

\* The limit of writes is 0 while Redis is down.
registerRateLimit(redisHealthy) == IF redisHealthy THEN 429 ELSE 503

Retried(s) == s \notin 200..299 /\ (s \in 400..499 => s = 429)

\* What becomes of a call whose POST got status s for answer a. recordX402
\* catches the 402 of its first POST; a 400 does not say why.
BadHandle(k, s, a) ==
  \/ s \in {200, 201, 409} /\ Finish(k, IF s = 200 THEN "cached" ELSE "receipt")
  \/ Retried(s) /\ Again(k)
  \/ /\ s = 402 /\ call[k].mode = "x402" /\ ~call[k].signed
     /\ call' = [call EXCEPT ![k] =
          [@ EXCEPT !.pc = "sign", !.try = 0, !.slot = NoReq]]
  \/ /\ s \in {400, 402}
     /\ s = 402 /\ call[k].mode = "x402" => call[k].signed
     /\ Finish(k, IF s = 400 THEN "failed" ELSE a)
Handle(k, s, a) ==
  \/ s \in 200..299 /\ Finish(k, IF s = 200 THEN "cached" ELSE "receipt")
  \/ Retried(s) /\ Again(k)
  \/ /\ s = 402 /\ call[k].mode = "x402" /\ ~call[k].signed
     /\ call' = [call EXCEPT ![k] =
          [@ EXCEPT !.pc = "sign", !.try = 0, !.slot = NoReq]]
  \/ /\ s \in {400, 402, 409}
     /\ s = 402 /\ call[k].mode = "x402" => call[k].signed
     /\ Finish(k, IF s = 400 THEN "failed" ELSE a)
-----------------------------------------------------------------------------
\* The caller brings a fee it has sent (feeTxHash), or none; an item of a
\* batch must bring one. Calls begin in an order of no importance.
record(k, mode, c, f) ==
  /\ Doing(k, "idle") /\ k = CHOOSE j \in Nonce : Doing(j, "idle")
  /\ mode \in {"byo", "batch"} <=> f # NoPay
  /\ c \in NewOrKnown(Content, "content") /\ f \in Fees \cup {NoPay}
  /\ mode = "x402" => Fresh(Usdc, "usdc")
  /\ call' = [call EXCEPT ![k] =
       [@ EXCEPT !.mode = mode, !.content = c, !.fee = f,
                 !.usdc = IF mode = "x402" THEN New(Usdc, "usdc") ELSE NoPay,
                 !.pc = IF mode = "fee" THEN "pay" ELSE "post"]]
  /\ UNCHANGED <<vars, reverted, netMay>>

\* payFee. When sendTransaction throws the transaction may be on its way.
SendFee(k) ==
  /\ Doing(k, "pay")
  /\ \E f \in NextFee :
       LET sent == [call EXCEPT ![k].fee = f] IN
         \/ call' = [sent EXCEPT ![k].pc = "confirm"]
         \/ /\ "wallet" \in netMay
            /\ \E c \in {call, sent} :
                 call' = [c EXCEPT ![k] = [@ EXCEPT !.pc = "done", !.out = "failed"]]
  /\ UNCHANGED <<vars, reverted, netMay>>

\* The receipt's status is not looked at.
BadAwaitFee(k) ==
  /\ Doing(k, "confirm")
  /\ call' = [call EXCEPT ![k].pc = "post"]
  /\ UNCHANGED <<vars, reverted, netMay>>
AwaitFee(k) ==
  /\ Doing(k, "confirm")
  /\ \/ /\ call[k].fee \in paid \cup reverted
        /\ call' = [call EXCEPT ![k].pc = "post"]
     \/ "wallet" \in netMay /\ Finish(k, "failed")
  /\ UNCHANGED <<vars, reverted, netMay>>

\* Bound: Req requests in flight; slots are interchangeable.
Idle   == {r \in Req : At(r, "idle") /\ \A k \in Nonce : call[k].slot # r}
PostRecord(k) ==
  /\ Doing(k, "post") /\ Idle # {}
  /\ LET r == CHOOSE r \in Idle : TRUE IN
       /\ Submit(r, call[k].content, k, Payment(k), call[k].mode = "batch")
       /\ call' = [call EXCEPT ![k] = [@ EXCEPT !.pc = "sent", !.slot = r]]
  /\ UNCHANGED <<reverted, netMay>>

\* The attempt fails before the handler, or is given up.
AttemptFails(k) ==
  /\ \/ Doing(k, "post") /\ "unreached" \in netMay
     \/ Doing(k, "sent") /\ "timeout" \in netMay
  /\ Again(k)
  /\ UNCHANGED <<vars, reverted, netMay>>

Receive(k) ==
  /\ Doing(k, "sent") /\ At(call[k].slot, "idle")
  /\ LET a == req[call[k].slot].answer IN
       \E s \in Statuses(k, a) : Handle(k, s, a)
  /\ req' = [req EXCEPT ![call[k].slot] = Blank]
  /\ UNCHANGED <<records, attempts, paid, jobs, may, reverted, netMay>>

\* The limiter answers before the handler, out of requests or out of Redis.
Limited(k) ==
  /\ Doing(k, "post") /\ "unreached" \in netMay
  /\ \E redisHealthy \in BOOLEAN :
       Handle(k, registerRateLimit(redisHealthy), "error")
  /\ UNCHANGED <<vars, reverted, netMay>>

\* The second POST has the same identifier, and attempts of its own.
signX402Payment(k) ==
  /\ Doing(k, "sign")
  /\ \/ call' = [call EXCEPT ![k] = [@ EXCEPT !.pc = "post", !.signed = TRUE]]
     \/ "wallet" \in netMay /\ Finish(k, "failed")
  /\ UNCHANGED <<vars, reverted, netMay>>

\* The chain: a fee that has been sent is confirmed, or reverts.
Settle(p) ==
  /\ p \in Fee \cap Known("fee")
  /\ SameTransfer(p) \cap (paid \cup reverted) = {}
  /\ \/ Confirmed(p) /\ UNCHANGED reverted
     \/ /\ "reverted" \in netMay
        /\ reverted' = reverted \cup SameTransfer(p) /\ UNCHANGED vars
  /\ UNCHANGED <<call, netMay>>

Serve(r) == RequestStep(r) /\ UNCHANGED <<call, reverted, netMay>>
CallStep(k) ==
  \/ SendFee(k) \/ AwaitFee(k) \/ PostRecord(k) \/ AttemptFails(k) \/ Receive(k)
  \/ Limited(k) \/ signX402Payment(k)

SdkNext ==
  \/ \E k \in Nonce : CallStep(k)
  \/ \E k \in Nonce, m \in Mode, c \in Content, f \in Fee \cup {NoPay} :
        record(k, m, c, f)
  \/ \E r \in Req : Serve(r)
  \/ \E p \in Fee : Settle(p)

SdkSpec == SdkInit /\ [][SdkNext]_sdkVars
-----------------------------------------------------------------------------
\* Calls are well formed, and no two wait for one request.
SdkTypeOK ==
  /\ TypeOK
  /\ call \in [Nonce -> Call] /\ reverted \subseteq Fee \ paid
  /\ netMay \in NetFaultSets
  /\ \A j, k \in Nonce :
       /\ Doing(k, "sent") <=> call[k].slot # NoReq
       /\ call[j].slot = call[k].slot /\ call[k].slot # NoReq => j = k

OwnRecord(k) == {e \in records : e.nonce = k}

\* A receipt is of a record of this call's content and payment, also when the
\* answer came to a resend ("Reintento Idempotente", client.ts:267). A call
\* told that it is a duplicate finds its content recorded. A call that was
\* refused has no record, unless its POST was made again: then the refusal may
\* be of the second request, and the record of the first.
OutcomeIsTrue ==
  \A k \in Nonce :
    LET own == {e \in OwnRecord(k) : e.content = call[k].content
                                       /\ e.pay = Payment(k)} IN
      /\ call[k].out \in {"receipt", "cached"} => own # {}
      /\ call[k].out = "cached" => call[k].signed /\ call[k].try > 0
      /\ call[k].out = "duplicate" =>
           RecordOf(call[k].content) # {}
      /\ call[k].out \in {"duplicate", "reused", "refused"} =>
           call[k].try > 0 \/ OwnRecord(k) = {}

\* The fee is paid before the POST and its hash is lost with the error: while
\* nothing but timeouts goes wrong, the fee of a call that has ended buys its
\* record, or another record has the content, or another call took the hash.
FeeLostOnlyToConflict ==
  Without({"db", "lostReply", "rpc", "crash"})
    /\ netMay \subseteq {"timeout", "reverted"} =>
    \A k \in Nonce :
      Doing(k, "done") /\ call[k].mode = "fee" /\ call[k].fee \in paid =>
        \/ Recorded(call[k].fee) \/ Held(call[k].fee)
        \/ RecordOf(call[k].content) # {}
        \/ \E j \in Nonce \ {k} : call[j].fee = call[k].fee
=============================================================================
