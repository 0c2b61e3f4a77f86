------------------------------ MODULE Webhooks ------------------------------
(***************************************************************************)
(* Webhooks of agents: registration and deletion (src/routes/webhooks.ts   *)
(* behind src/middleware/walletAuth.ts), the dispatch of an event to the   *)
(* webhooks of a wallet and its delivery                                   *)
(* (src/services/webhookDispatcher.ts, src/workers/webhook.worker.ts).     *)
(*                                                                         *)
(* A POST is at one of these awaits: validate (the DNS of the URL), count, *)
(* insert. DELETE is one step: the owner its SELECT compares never         *)
(* changes, and its UPDATE has no other condition.                         *)
(*                                                                         *)
(* An event is one call of enqueueWebhookDispatch, at select or at one of  *)
(* its adds; its caller swallows what it throws (src/services/anchor.ts).  *)
(* A delivery is the job of an event for a webhook; its id is drawn once,  *)
(* so the pair stands for delivery_id. A worker slot runs it at            *)
(*                                                                         *)
(*   load    -> SELECT of the webhook, then its secret                     *)
(*   resolve -> the DNS of the URL again                                   *)
(*   send    -> fetch, answered within 5 s or not                          *)
(*   return  -> the job completes        throw -> the job fails            *)
(***************************************************************************)
EXTENDS Integers, FiniteSets

CONSTANTS
  Wallet, Hook, Change, NoWallet, NoHook, NoChange,
  MAX_WEBHOOKS_PER_WALLET,   \* 5
  AUTH_WINDOW,               \* 5 minutes, in what unit Ages has
  Ages,                      \* of a request's timestamp, as the server sees it
  Post,                      \* registrations in flight at a time
  Slot,                      \* deliveries run at a time (concurrency: 5)
  HookAttempts,              \* 3, of the queue's job options
  HookStalls,                \* 1, BullMQ's maxStalledCount
  HookFaultSets

(***************************************************************************)
(* db       a SELECT of the dispatcher or of a delivery throws             *)
(* redis    a job cannot be added                                          *)
(* key      the secret cannot be decrypted                                 *)
(* dns      the host does not resolve, or to a blocked range               *)
(* refused  the receiver cannot be reached, or says no                     *)
(* late     the receiver has the event and its answer is lost or late      *)
(* crash    the process of a dispatcher or a worker dies                   *)
(***************************************************************************)
HookFaultKinds == {"db", "redis", "key", "dns", "refused", "late", "crash"}

ASSUME WebhooksAssumption ==
  /\ NoWallet \notin Wallet /\ NoHook \notin Hook /\ NoChange \notin Change
  /\ MAX_WEBHOOKS_PER_WALLET \in Nat \ {0} /\ HookAttempts \in Nat \ {0}
  /\ HookStalls \in Nat /\ AUTH_WINDOW \in Nat /\ Ages \subseteq Int
  /\ IsFiniteSet(Hook) /\ IsFiniteSet(Post)
  /\ HookFaultSets \subseteq SUBSET HookFaultKinds

VARIABLES
  hook,     \* the webhooks table
  post,     \* the registrations in flight
  event,    \* the calls of enqueueWebhookDispatch
  delivery, \* the jobs of the queue, by event and webhook
  slot,     \* what each slot of the worker is doing
  heard,    \* how often a receiver got an attempt of a delivery
  hookMay   \* the kinds of fault that may occur

hookVars == <<hook, post, event, delivery, slot, heard, hookMay>>

HookRow  == [owner : Wallet \cup {NoWallet}, active : BOOLEAN]
Posting  == [pc : {"idle", "validate", "count", "insert"},
             wallet : Wallet \cup {NoWallet}]
Dispatching ==
  [pc : {"none", "select", "add", "done"},
             wallet : Wallet \cup {NoWallet}, found : SUBSET Hook, todo : SUBSET Hook]
Delivery == [status : {"none", "waiting", "active", "completed", "failed"},
             made : 0..HookAttempts, stalls : 0..HookStalls]
Work     == [pc : {"idle", "load", "resolve", "send", "return", "throw"},
             ev : Change \cup {NoChange}, hook : Hook \cup {NoHook}]
Free     == [pc |-> "idle", ev |-> NoChange, hook |-> NoHook]

HookInit ==
  /\ hook = [h \in Hook |-> [owner |-> NoWallet, active |-> FALSE]]
  /\ post = [p \in Post |-> [pc |-> "idle", wallet |-> NoWallet]]
  /\ event = [e \in Change |-> [pc |-> "none", wallet |-> NoWallet,
                               found |-> {}, todo |-> {}]]
  /\ delivery = [d \in Change \X Hook |->
                   [status |-> "none", made |-> 0, stalls |-> 0]]
  /\ slot = [s \in Slot |-> Free]
  /\ heard = [d \in Change \X Hook |-> [n \in 1..HookAttempts |-> 0]]
  /\ hookMay \in HookFaultSets
-----------------------------------------------------------------------------
(***************************************************************************)
(* Registration and deletion.                                              *)
(***************************************************************************)
Active(w) == {h \in Hook : hook[h].owner = w /\ hook[h].active}
Unused    == {h \in Hook : hook[h].owner = NoWallet}
Posts     == {p \in Post : post[p].pc # "idle"}

\* The wallet of the headers signed the timestamp, which is recent.
walletAuth(headers) ==
  /\ headers.age \in -AUTH_WINDOW..AUTH_WINDOW
  /\ headers.signer = headers.wallet

\* Bound: there are ids left for all registrations in flight.
Register(p, headers) ==
  /\ post[p].pc = "idle" /\ walletAuth(headers)
  /\ Cardinality(Posts) < Cardinality(Unused)
  /\ post' = [post EXCEPT ![p] = [pc |-> "validate", wallet |-> headers.wallet]]
  /\ UNCHANGED <<hook, event, delivery, slot, heard, hookMay>>

validateWebhookUrl(p) ==
  /\ post[p].pc = "validate"
  /\ post' \in {[post EXCEPT ![p].pc = "count"],
                [post EXCEPT ![p] = [pc |-> "idle", wallet |-> NoWallet]]}
  /\ UNCHANGED <<hook, event, delivery, slot, heard, hookMay>>

BadCountActive(p) ==
  /\ post[p].pc = "count"
  /\ post' = [post EXCEPT ![p] =
       IF Cardinality(Active(post[p].wallet)) > MAX_WEBHOOKS_PER_WALLET
         THEN [pc |-> "idle", wallet |-> NoWallet]
         ELSE [@ EXCEPT !.pc = "insert"]]
  /\ UNCHANGED <<hook, event, delivery, slot, heard, hookMay>>
CountActive(p) ==
  /\ post[p].pc = "count"
  /\ post' = [post EXCEPT ![p] =
       IF Cardinality(Active(post[p].wallet)) >= MAX_WEBHOOKS_PER_WALLET
         THEN [pc |-> "idle", wallet |-> NoWallet]
         ELSE [@ EXCEPT !.pc = "insert"]]
  /\ UNCHANGED <<hook, event, delivery, slot, heard, hookMay>>

\* The id is a new one; which one makes no difference.
InsertHook(p) ==
  /\ post[p].pc = "insert"
  /\ LET h == CHOOSE h \in Unused : TRUE IN
       hook' = [hook EXCEPT ![h] = [owner |-> post[p].wallet, active |-> TRUE]]
  /\ post' = [post EXCEPT ![p] = [pc |-> "idle", wallet |-> NoWallet]]
  /\ UNCHANGED <<event, delivery, slot, heard, hookMay>>

\* Only the owner can delete: the row stays, inactive for good.
Delete(h, headers) ==
  /\ walletAuth(headers) /\ hook[h].owner = headers.wallet
  /\ hook' = [hook EXCEPT ![h].active = FALSE]
  /\ UNCHANGED <<post, event, delivery, slot, heard, hookMay>>
-----------------------------------------------------------------------------
(***************************************************************************)
(* enqueueWebhookDispatch. A throw ends it; a dying process too, and the   *)
(* run of the anchoring job that follows finds its record settled and does *)
(* not call it again.                                                      *)
(***************************************************************************)
StateChanged(e, w) ==
  /\ event[e].pc = "none"
  /\ event' = [event EXCEPT ![e] = [@ EXCEPT !.pc = "select", !.wallet = w]]
  /\ UNCHANGED <<hook, post, delivery, slot, heard, hookMay>>

SelectActive(e) ==
  /\ event[e].pc = "select"
  /\ LET hooks == Active(event[e].wallet) IN
       event' = [event EXCEPT ![e] =
         [@ EXCEPT !.pc = IF hooks = {} THEN "done" ELSE "add",
                   !.found = hooks, !.todo = hooks]]
  /\ UNCHANGED <<hook, post, delivery, slot, heard, hookMay>>

BadAddJob(e, h) ==
  /\ event[e].pc = "add" /\ h \in event[e].todo
  /\ event' = [event EXCEPT ![e] = [@ EXCEPT !.todo = {}, !.pc = "done"]]
  /\ delivery' = [delivery EXCEPT ![<<e, h>>].status = "waiting"]
  /\ UNCHANGED <<hook, post, slot, heard, hookMay>>
AddJob(e, h) ==
  /\ event[e].pc = "add" /\ h \in event[e].todo
  /\ LET rest == event[e].todo \ {h} IN
       event' = [event EXCEPT ![e] =
         [@ EXCEPT !.todo = rest, !.pc = IF rest = {} THEN "done" ELSE "add"]]
  /\ delivery' = [delivery EXCEPT ![<<e, h>>].status = "waiting"]
  /\ UNCHANGED <<hook, post, slot, heard, hookMay>>

\* The SELECT or an add throws, or the process dies.
GiveUp(e) ==
  /\ \/ event[e].pc = "select" /\ {"db", "crash"} \cap hookMay # {}
     \/ event[e].pc = "add" /\ {"redis", "crash"} \cap hookMay # {}
  /\ event' = [event EXCEPT ![e].pc = "done"]
  /\ UNCHANGED <<hook, post, delivery, slot, heard, hookMay>>
-----------------------------------------------------------------------------
(***************************************************************************)
(* The worker.                                                             *)
(***************************************************************************)
On(s)       == <<slot[s].ev, slot[s].hook>>
Step(s, pc) == slot' = [slot EXCEPT ![s].pc = pc]
Fails(s, kinds) == kinds \cap hookMay # {} /\ Step(s, "throw")

TakeDelivery(s, e, h) ==
  /\ slot[s].pc = "idle" /\ delivery[<<e, h>>].status = "waiting"
  /\ delivery' = [delivery EXCEPT ![<<e, h>>].status = "active"]
  /\ slot' = [slot EXCEPT ![s] = [pc |-> "load", ev |-> e, hook |-> h]]
  /\ UNCHANGED <<hook, post, event, heard, hookMay>>

LoadHook(s) ==
  /\ slot[s].pc = "load"
  /\ \/ hook[slot[s].hook].active /\ Step(s, "resolve")
     \/ ~hook[slot[s].hook].active /\ Step(s, "throw")
     \/ Fails(s, {"db", "key"})
  /\ UNCHANGED <<hook, post, event, delivery, heard, hookMay>>

resolveAndValidateHostname(s) ==
  /\ slot[s].pc = "resolve"
  /\ Step(s, "send") \/ Fails(s, {"dns"})
  /\ UNCHANGED <<hook, post, event, delivery, heard, hookMay>>

\* The payload says which attempt it is.
PostPayload(s) ==
  /\ slot[s].pc = "send"
  /\ LET n == delivery[On(s)].made + 1
         arrives == heard' = [heard EXCEPT ![On(s)][n] = @ + 1] IN
       \/ arrives /\ (Step(s, "return") \/ Fails(s, {"late"}))
       \/ UNCHANGED heard /\ Fails(s, {"refused"})
  /\ UNCHANGED <<hook, post, event, delivery, hookMay>>

BadCompleteDelivery(s) ==
  /\ slot[s].pc = "return"
  /\ delivery' = [delivery EXCEPT ![On(s)].status = "waiting"]
  /\ slot' = [slot EXCEPT ![s] = Free]
  /\ UNCHANGED <<hook, post, event, heard, hookMay>>
CompleteDelivery(s) ==
  /\ slot[s].pc = "return"
  /\ delivery' = [delivery EXCEPT ![On(s)].status = "completed"]
  /\ slot' = [slot EXCEPT ![s] = Free]
  /\ UNCHANGED <<hook, post, event, heard, hookMay>>

\* BullMQ retries after customBackoff, until the attempts are used up.
BadFailDelivery(s) ==
  /\ slot[s].pc = "throw"
  /\ delivery' = [delivery EXCEPT ![On(s)].status = "waiting"]
  /\ slot' = [slot EXCEPT ![s] = Free]
  /\ UNCHANGED <<hook, post, event, heard, hookMay>>
FailDelivery(s) ==
  /\ slot[s].pc = "throw"
  /\ LET made == delivery[On(s)].made + 1 IN
       delivery' = [delivery EXCEPT ![On(s)] =
         [@ EXCEPT !.made = made,
                   !.status = IF made < HookAttempts THEN "waiting" ELSE "failed"]]
  /\ slot' = [slot EXCEPT ![s] = Free]
  /\ UNCHANGED <<hook, post, event, heard, hookMay>>

WorkerDies(s) ==
  /\ "crash" \in hookMay /\ slot[s].pc # "idle"
  /\ slot' = [slot EXCEPT ![s] = Free]
  /\ UNCHANGED <<hook, post, event, delivery, heard, hookMay>>

\* BullMQ finds an active job that no worker is running.
StalledDelivery(e, h) ==
  /\ delivery[<<e, h>>].status = "active" /\ \A s \in Slot : On(s) # <<e, h>>
  /\ LET stalls == delivery[<<e, h>>].stalls IN
       delivery' = [delivery EXCEPT ![<<e, h>>] =
         IF stalls < HookStalls
           THEN [@ EXCEPT !.status = "waiting", !.stalls = stalls + 1]
           ELSE [@ EXCEPT !.status = "failed"]]
  /\ UNCHANGED <<hook, post, event, slot, heard, hookMay>>
-----------------------------------------------------------------------------
Headers     == [wallet : Wallet, signer : Wallet, age : Ages]
PostStep(p) == validateWebhookUrl(p) \/ CountActive(p) \/ InsertHook(p)
DispatchStep(e) ==
  SelectActive(e) \/ GiveUp(e) \/ \E h \in Hook : AddJob(e, h)
SlotStep(s) ==
  \/ LoadHook(s) \/ resolveAndValidateHostname(s) \/ PostPayload(s) \/ CompleteDelivery(s)
  \/ FailDelivery(s)

HookNext ==
  \/ \E p \in Post : PostStep(p) \/ \E x \in Headers : Register(p, x)
  \/ \E h \in Hook, x \in Headers : Delete(h, x)
  \/ \E e \in Change : DispatchStep(e) \/ \E w \in Wallet : StateChanged(e, w)
  \/ \E s \in Slot : SlotStep(s) \/ WorkerDies(s)
  \/ \E s \in Slot, e \in Change, h \in Hook : TakeDelivery(s, e, h)
  \/ \E e \in Change, h \in Hook : StalledDelivery(e, h)

\* Code that runs goes on, the fetch having its timeout; BullMQ hands out
\* waiting jobs and looks for stalled ones.
HookFairness ==
  /\ \A e \in Change : WF_hookVars(DispatchStep(e))
  /\ \A s \in Slot : WF_hookVars(SlotStep(s))
  /\ \A e \in Change, h \in Hook : WF_hookVars(StalledDelivery(e, h))
  /\ WF_hookVars(\E s \in Slot, e \in Change, h \in Hook : TakeDelivery(s, e, h))

HookSpec     == HookInit /\ [][HookNext]_hookVars
FairHookSpec == HookSpec /\ HookFairness
-----------------------------------------------------------------------------
Spared(kinds) == kinds \cap hookMay = {}

\* The tables, requests and jobs are well formed.
HookTypeOK ==
  /\ hook \in [Hook -> HookRow] /\ post \in [Post -> Posting]
  /\ event \in [Change -> Dispatching]
  /\ delivery \in [Change \X Hook -> Delivery] /\ slot \in [Slot -> Work]
  /\ heard \in [Change \X Hook -> [1..HookAttempts -> Nat]]
  /\ hookMay \in HookFaultSets

\* "Maximum 5 webhooks per wallet" (webhooks.ts:29): the count and the insert
\* are two statements, and a wallet passes the limit by no more than the
\* registrations that were in flight beside its own.
OvershootBounded ==
  \A w \in Wallet :
    Cardinality(Active(w)) <= MAX_WEBHOOKS_PER_WALLET + Cardinality(Post) - 1

\* "delivery_id + attempt for deduplication" (webhookDispatcher.ts:23): who
\* hears of an event is a webhook of the wallet it is about, active when it was
\* dispatched; each attempt is heard once, and again only for a worker that
\* died under it.
AttemptsAreDistinct ==
  \A e \in Change, h \in Hook : \A n \in 1..HookAttempts :
    heard[<<e, h>>][n] > 0 =>
      /\ hook[h].owner = event[e].wallet /\ h \in event[e].found
      /\ n <= delivery[<<e, h>>].made + 1
      /\ heard[<<e, h>>][n] <= 1 + (IF Spared({"crash"}) THEN 0
                                    ELSE delivery[<<e, h>>].stalls)

\* Once dispatched, an event has a delivery for each webhook found active, but
\* for an add that threw or a process that died; a delivery that completed was
\* heard; one that failed had its attempts or its stalls, and lost them to a
\* fault or to the deletion of its webhook.
HeardOrGivenUp ==
  \A e \in Change, h \in Hook :
    /\ event[e].pc = "done" /\ h \in event[e].found /\ Spared({"redis", "crash"})
         => delivery[<<e, h>>].status # "none"
    /\ delivery[<<e, h>>].status = "completed" =>
         \E n \in 1..HookAttempts : heard[<<e, h>>][n] > 0
    /\ delivery[<<e, h>>].status = "failed" =>
         /\ \/ delivery[<<e, h>>].made = HookAttempts
            \/ delivery[<<e, h>>].stalls = HookStalls /\ ~Spared({"crash"})
         /\ hook[h].active => hookMay \ {"redis"} # {}

\* Every delivery that is added completes or fails in the end, whatever the
\* receiver does and however often the worker dies.
DeliveriesEnd ==
  \A d \in Change \X Hook :
    delivery[d].status = "waiting" ~> delivery[d].status \in {"completed", "failed"}
=============================================================================
