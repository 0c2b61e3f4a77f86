--------------------------- MODULE WebhooksProofs ---------------------------
(***************************************************************************)
(* Proofs about Webhooks, for any wallets, webhooks, registrations,        *)
(* events, slots, limits and faults.                                       *)
(***************************************************************************)
EXTENDS Webhooks, FiniteSetTheorems, TLAPS

\* Registrations that have been counted and not yet inserted.
Inserting(w) == {p \in Post : post[p].pc = "insert" /\ post[p].wallet = w}

RegType == hook \in [Hook -> HookRow] /\ post \in [Post -> Posting]

\* Each of them may have counted the same webhooks.
Room ==
  \A w \in Wallet :
    Cardinality(Active(w)) + Cardinality(Inserting(w))
      <= MAX_WEBHOOKS_PER_WALLET - 1 + Cardinality(Post)

\* There is an unused id for each registration.
IdsLeft == Cardinality(Posts) <= Cardinality(Unused)

RegInv == RegType /\ Room /\ IdsLeft
-----------------------------------------------------------------------------
(***************************************************************************)
(* The sets that are counted.                                              *)
(***************************************************************************)
LEMMA Finite ==
  /\ \A T \in SUBSET Hook : IsFiniteSet(T) /\ Cardinality(T) \in Nat
  /\ \A T \in SUBSET Post : IsFiniteSet(T) /\ Cardinality(T) \in Nat
                            /\ Cardinality(T) <= Cardinality(Post)
  /\ Cardinality(Post) \in Nat
BY FS_Subset, FS_CardinalityType, WebhooksAssumption

LEMMA Sets ==
  /\ \A w : Active(w) \in SUBSET Hook /\ Active(w)' \in SUBSET Hook
  /\ \A w : Inserting(w) \in SUBSET Post /\ Inserting(w)' \in SUBSET Post
  /\ Posts \in SUBSET Post /\ Posts' \in SUBSET Post
  /\ Unused \in SUBSET Hook /\ Unused' \in SUBSET Hook
BY DEF Active, Inserting, Posts, Unused

\* What the sets and their elements become when one registration moves.
LEMMA PostMoves ==
  ASSUME NEW p \in Post, NEW to \in Posting, RegType,
         post' = [post EXCEPT ![p] = to]
  PROVE  /\ post' \in [Post -> Posting]
         /\ \A w : Inserting(w)' = IF to.pc = "insert" /\ to.wallet = w
                                     THEN Inserting(w) \cup {p}
                                     ELSE Inserting(w) \ {p}
         /\ Posts' = IF to.pc = "idle" THEN Posts \ {p} ELSE Posts \cup {p}
         /\ \A w : ~(to.pc = "insert" /\ to.wallet = w) =>
              Inserting(w)' \in SUBSET Inserting(w)
BY DEF RegType, Inserting, Posts

LEMMA Smaller ==
  ASSUME NEW S, IsFiniteSet(S), NEW T \in SUBSET S
  PROVE  Cardinality(T) <= Cardinality(S)
BY FS_Subset

LEMMA HookInitInv == HookInit => RegInv
<1> SUFFICES ASSUME HookInit PROVE RegInv
  OBVIOUS
<1>1. RegType
  BY DEF HookInit, RegType, HookRow, Posting
<1>2. \A w : Active(w) = {} /\ Inserting(w) = {}
  BY DEF HookInit, Active, Inserting
<1>3. Posts = {}
  BY DEF HookInit, Posts
<1>4. Room
  BY <1>2, FS_EmptySet, Finite, WebhooksAssumption DEF Room
<1>5. IdsLeft
  BY <1>3, FS_EmptySet, Finite, Sets DEF IdsLeft
<1>6. QED
  BY <1>1, <1>4, <1>5 DEF RegInv

LEMMA RegisterInv ==
  ASSUME NEW p \in Post, NEW x \in Headers, RegInv, Register(p, x)
  PROVE  RegInv'
<1> DEFINE to == [pc |-> "validate", wallet |-> x.wallet]
<1>1. to \in Posting /\ to.pc = "validate"
  BY DEF Headers, Posting
<1>2. post' = [post EXCEPT ![p] = to] /\ UNCHANGED hook /\ p \notin Posts
  BY DEF Register, Posts
<1>3. Cardinality(Posts) < Cardinality(Unused)
  BY DEF Register
<1> HIDE DEF to
<1>4. RegType'
  BY <1>1, <1>2, PostMoves DEF RegInv, RegType
<1>5. Unused' = Unused /\ \A w : Active(w)' = Active(w)
  BY <1>2 DEF Unused, Active
<1>6. \A w : Inserting(w)' \in SUBSET Inserting(w)
  BY <1>1, <1>2, PostMoves DEF RegInv
<1>7. \A w : Cardinality(Inserting(w)') <= Cardinality(Inserting(w))
  BY <1>6, Smaller, Finite, Sets
<1>8. Room'
  BY <1>5, <1>7, Finite, Sets, WebhooksAssumption DEF RegInv, Room
<1>9. Posts' = Posts \cup {p}
  BY <1>1, <1>2, PostMoves DEF RegInv
<1>10. Cardinality(Posts') = Cardinality(Posts) + 1
  BY <1>2, <1>9, FS_AddElement, Finite, Sets
<1>11. IdsLeft'
  BY <1>3, <1>5, <1>10, Finite, Sets DEF IdsLeft
<1>12. QED
  BY <1>4, <1>8, <1>11 DEF RegInv

\* A registration that is refused, or goes on to count.
LEMMA GoesOn ==
  ASSUME NEW p \in Post, NEW to \in Posting, RegInv, UNCHANGED hook,
         post' = [post EXCEPT ![p] = to], p \in Posts,
         to.pc = "insert" => Cardinality(Active(to.wallet)) < MAX_WEBHOOKS_PER_WALLET
  PROVE  RegInv'
<1>1. RegType'
  BY PostMoves DEF RegInv, RegType
<1>2. Unused' = Unused /\ \A w : Active(w)' = Active(w)
  BY DEF Unused, Active
<1>3. Posts' \in SUBSET Posts
  BY PostMoves DEF RegInv
<1>4. IdsLeft'
  BY <1>2, <1>3, Smaller, Finite, Sets DEF RegInv, IdsLeft
<1>5. ASSUME NEW w \in Wallet
      PROVE  Cardinality(Active(w)') + Cardinality(Inserting(w)')
               <= MAX_WEBHOOKS_PER_WALLET - 1 + Cardinality(Post)
  <2>1. CASE to.pc = "insert" /\ to.wallet = w
    <3>1. Cardinality(Active(w)') < MAX_WEBHOOKS_PER_WALLET
      BY <2>1, <1>2
    <3>2. Cardinality(Inserting(w)') <= Cardinality(Post)
      BY Finite, Sets
    <3>3. QED
      BY <3>1, <3>2, Finite, Sets, WebhooksAssumption
  <2>2. CASE ~ (to.pc = "insert" /\ to.wallet = w)
    <3>1. Inserting(w)' \in SUBSET Inserting(w)
      BY <2>2, PostMoves DEF RegInv
    <3>2. Cardinality(Inserting(w)') <= Cardinality(Inserting(w))
      BY <3>1, Smaller, Finite, Sets
    <3>3. QED
      BY <3>2, <1>2, Finite, Sets, WebhooksAssumption DEF RegInv, Room
  <2>3. QED
    BY <2>1, <2>2
<1>6. QED
  BY <1>1, <1>4, <1>5 DEF RegInv, Room

LEMMA InsertInv ==
  ASSUME NEW p \in Post, RegInv, InsertHook(p)
  PROVE  RegInv' /\ \E h \in Unused :
           hook' = [hook EXCEPT ![h] = [owner |-> post[p].wallet, active |-> TRUE]]
<1> DEFINE to == [pc |-> "idle", wallet |-> NoWallet]
           h  == CHOOSE h \in Unused : TRUE
<1>1. to \in Posting /\ to.pc = "idle" /\ to.pc # "insert"
  BY DEF Posting
<1>2. /\ post' = [post EXCEPT ![p] = to]
      /\ hook' = [hook EXCEPT ![h] = [owner |-> post[p].wallet, active |-> TRUE]]
      /\ post[p].pc = "insert" /\ p \in Posts
  BY DEF InsertHook, Posts
<1> HIDE DEF to
<1>3. Posts' = Posts \ {p} /\ \A w : Inserting(w)' = Inserting(w) \ {p}
  BY <1>1, <1>2, PostMoves DEF RegInv
<1>4. Cardinality(Posts') = Cardinality(Posts) - 1
  BY <1>2, <1>3, FS_RemoveElement, Finite, Sets
<1>5. Cardinality(Posts') \in Nat /\ Cardinality(Posts) \in Nat
      /\ Cardinality(Unused) \in Nat
  BY Finite, Sets
<1>6. Cardinality(Unused) # 0
  BY <1>4, <1>5 DEF RegInv, IdsLeft
<1>7. Unused # {}
  BY <1>6, FS_EmptySet
<1>8. h \in Unused
  BY <1>7
<1> HIDE DEF h
<1>9. h \in Hook /\ post[p].wallet \in Wallet \cup {NoWallet}
  BY <1>8 DEF Unused, RegInv, RegType, Posting
<1>10. RegType'
  BY <1>1, <1>2, <1>9, PostMoves DEF RegInv, RegType, HookRow
<1>11. Unused \ {h} \in SUBSET Unused' /\ \A w : Active(w)' \in SUBSET (Active(w) \cup {h})
  BY <1>2, <1>9 DEF Unused, Active, RegInv, RegType, HookRow
<1>12. Cardinality(Unused \ {h}) = Cardinality(Unused) - 1
  BY <1>8, FS_RemoveElement, Finite, Sets
<1>13. Cardinality(Unused \ {h}) <= Cardinality(Unused')
  BY <1>11, Smaller, Finite, Sets
<1>14. IdsLeft'
  BY <1>4, <1>5, <1>12, <1>13, Finite, Sets DEF RegInv, IdsLeft
<1>15. ASSUME NEW w \in Wallet
       PROVE  Cardinality(Active(w)') + Cardinality(Inserting(w)')
                <= MAX_WEBHOOKS_PER_WALLET - 1 + Cardinality(Post)
  <2>1. CASE post[p].wallet = w
    <3>1. p \in Inserting(w)
      BY <2>1, <1>2 DEF Inserting
    <3>2. Cardinality(Inserting(w)') = Cardinality(Inserting(w)) - 1
      BY <3>1, <1>3, FS_RemoveElement, Finite, Sets
    <3>3. IsFiniteSet(Active(w) \cup {h})
          /\ Cardinality(Active(w) \cup {h}) <= Cardinality(Active(w)) + 1
      BY FS_AddElement, Finite, Sets
    <3>4. Cardinality(Active(w)') <= Cardinality(Active(w) \cup {h})
      BY <3>3, <1>11, Smaller
    <3>5. Cardinality(Active(w) \cup {h}) \in Nat
      BY <3>3, FS_CardinalityType
    <3>6. QED
      BY <3>2, <3>3, <3>4, <3>5, Finite, Sets, WebhooksAssumption DEF RegInv, Room
  <2>2. CASE post[p].wallet # w
    <3>1. Active(w)' \in SUBSET Active(w)
      BY <2>2, <1>2, <1>9 DEF Active, RegInv, RegType, HookRow
    <3>2. Cardinality(Active(w)') <= Cardinality(Active(w))
      BY <3>1, Smaller, Finite, Sets
    <3>3. Cardinality(Inserting(w)') <= Cardinality(Inserting(w))
      BY <1>3, Smaller, Finite, Sets
    <3>4. QED
      BY <3>2, <3>3, Finite, Sets, WebhooksAssumption DEF RegInv, Room
  <2>3. QED
    BY <2>1, <2>2
<1>16. QED
  BY <1>2, <1>8, <1>10, <1>14, <1>15 DEF RegInv, Room

LEMMA DeleteInv ==
  ASSUME NEW d \in Hook, NEW x \in Headers, RegInv, Delete(d, x)
  PROVE  RegInv'
<1>1. UNCHANGED post /\ hook' = [hook EXCEPT ![d].active = FALSE]
  BY DEF Delete
<1>2. RegType'
  BY <1>1 DEF RegInv, RegType, HookRow
<1>3. Posts' = Posts /\ Unused' = Unused /\ \A w : Inserting(w)' = Inserting(w)
  BY <1>1 DEF Posts, Unused, Inserting, RegInv, RegType, HookRow
<1>4. \A w : Active(w)' \in SUBSET Active(w)
  BY <1>1 DEF Active, RegInv, RegType, HookRow
<1>5. \A w : Cardinality(Active(w)') <= Cardinality(Active(w))
  BY <1>4, Smaller, Finite, Sets
<1>6. Room'
  BY <1>3, <1>5, Finite, Sets, WebhooksAssumption DEF RegInv, Room
<1>7. QED
  BY <1>2, <1>3, <1>6 DEF RegInv, IdsLeft

LEMMA PostStepInv ==
  ASSUME NEW p \in Post, RegInv, PostStep(p)
  PROVE  RegInv'
<1> DEFINE out == [pc |-> "idle", wallet |-> NoWallet]
<1>1. CASE validateWebhookUrl(p)
  <2>1. PICK to \in {[post[p] EXCEPT !.pc = "count"], out} :
          post' = [post EXCEPT ![p] = to]
    BY <1>1 DEF validateWebhookUrl, RegInv, RegType
  <2>2. to \in Posting /\ to.pc # "insert"
    BY <2>1 DEF Posting, RegInv, RegType
  <2>3. p \in Posts /\ UNCHANGED hook
    BY <1>1 DEF validateWebhookUrl, Posts
  <2>4. QED
    BY <2>1, <2>2, <2>3, GoesOn
<1>2. CASE CountActive(p)
  <2>1. p \in Posts /\ UNCHANGED hook
    BY <1>2 DEF CountActive, Posts
  <2>2. CASE Cardinality(Active(post[p].wallet)) >= MAX_WEBHOOKS_PER_WALLET
    <3>1. post' = [post EXCEPT ![p] = out] /\ out \in Posting /\ out.pc # "insert"
      BY <1>2, <2>2 DEF CountActive, Posting
    <3>2. QED
      BY <2>1, <3>1, GoesOn
  <2>3. CASE ~ (Cardinality(Active(post[p].wallet)) >= MAX_WEBHOOKS_PER_WALLET)
    <3> DEFINE to == [post[p] EXCEPT !.pc = "insert"]
    <3>1. post' = [post EXCEPT ![p] = to]
      BY <1>2, <2>3 DEF CountActive, RegInv, RegType
    <3>2. to \in Posting /\ to.wallet = post[p].wallet
      BY DEF Posting, RegInv, RegType
    <3>3. Cardinality(Active(to.wallet)) < MAX_WEBHOOKS_PER_WALLET
      BY <2>3, <3>2, Finite, Sets, WebhooksAssumption
    <3> HIDE DEF to
    <3>4. QED
      BY <2>1, <3>1, <3>2, <3>3, GoesOn
  <2>4. QED
    BY <2>2, <2>3
<1>3. CASE InsertHook(p)
  BY <1>3, InsertInv
<1>4. QED
  BY <1>1, <1>2, <1>3 DEF PostStep

\* The steps that have nothing to do with registrations.
Elsewhere == UNCHANGED <<hook, post>>

LEMMA StepKinds ==
  HookNext => \/ \E p \in Post : PostStep(p)
              \/ \E p \in Post, x \in Headers : Register(p, x)
              \/ \E h \in Hook, x \in Headers : Delete(h, x)
              \/ Elsewhere
BY DEF HookNext, Elsewhere, DispatchStep, SelectActive, GiveUp, AddJob, StateChanged,
       SlotStep, LoadHook, resolveAndValidateHostname, PostPayload, CompleteDelivery,
       FailDelivery, WorkerDies, TakeDelivery, StalledDelivery

LEMMA ElsewhereInv == RegInv /\ Elsewhere => RegInv'
BY DEF Elsewhere, RegInv, RegType, Room, IdsLeft, Active, Inserting, Posts, Unused

LEMMA RegInvStep == RegInv /\ [HookNext]_hookVars => RegInv'
<1> SUFFICES ASSUME RegInv, [HookNext]_hookVars PROVE RegInv'
  OBVIOUS
<1>1. CASE UNCHANGED hookVars
  BY <1>1, ElsewhereInv DEF hookVars, Elsewhere
<1>2. CASE HookNext
  BY <1>2, StepKinds, PostStepInv, RegisterInv, DeleteInv, ElsewhereInv
<1>3. QED
  BY <1>1, <1>2

LEMMA RoomSuffices == RegInv => OvershootBounded
<1> SUFFICES ASSUME RegInv, NEW w \in Wallet
    PROVE  Cardinality(Active(w)) <= MAX_WEBHOOKS_PER_WALLET + Cardinality(Post) - 1
  BY DEF OvershootBounded
<1>1. QED
  BY Finite, Sets, WebhooksAssumption DEF RegInv, Room

\* However registrations overlap, a wallet has no more active webhooks than the
\* limit of webhooks.ts and the registrations in flight beside its own.
THEOREM LimitOvershoot == HookSpec => []OvershootBounded
<1>1. QED
  BY HookInitInv, RegInvStep, RoomSuffices, PTL DEF HookSpec
-----------------------------------------------------------------------------
(***************************************************************************)
(* Deliveries.                                                             *)
(***************************************************************************)
Running(s) == slot[s].pc # "idle"
Tries      == 1..HookAttempts

\* How often an attempt may have been heard before it is made.
Repeats(d) == IF Spared({"crash"}) THEN 0 ELSE delivery[d].stalls

GoodDelivery(d) ==
  /\ delivery[d].status \in {"none", "waiting", "active"} =>
       delivery[d].made < HookAttempts
  /\ \A n \in Tries : /\ heard[d][n] <= 1 + Repeats(d)
                      /\ n > delivery[d].made + 1 => heard[d][n] = 0
                      /\ delivery[d].status = "none" => heard[d][n] = 0
  /\ delivery[d].status = "waiting" => heard[d][delivery[d].made + 1] <= Repeats(d)
  /\ delivery[d].status = "completed" => \E n \in Tries : heard[d][n] > 0
  /\ delivery[d].status = "failed" =>
       /\ \/ delivery[d].made = HookAttempts
          \/ delivery[d].stalls = HookStalls /\ ~Spared({"crash"})
       /\ hook[d[2]].active => hookMay \ {"redis"} # {}

GoodSlot(s) ==
  Running(s) =>
    /\ On(s) \in Change \X Hook /\ delivery[On(s)].status = "active"
    /\ slot[s].pc \in {"load", "resolve", "send"} =>
         heard[On(s)][delivery[On(s)].made + 1] <= Repeats(On(s))
    /\ slot[s].pc = "return" => heard[On(s)][delivery[On(s)].made + 1] > 0
    /\ slot[s].pc = "throw" =>
         (hook[slot[s].hook].active => hookMay \ {"redis"} # {})

\* A webhook has a job once its turn has come, or never if it was not found.
GoodEvent(e) ==
  /\ event[e].pc # "none" => event[e].wallet \in Wallet
  /\ event[e].pc \in {"none", "select"} => event[e].found = {}
  /\ event[e].todo \subseteq event[e].found
  /\ \A h \in event[e].found : hook[h].owner = event[e].wallet
  /\ \A h \in Hook :
       /\ h \notin event[e].found => delivery[<<e, h>>].status = "none"
       /\ event[e].pc = "add" /\ h \in event[e].todo =>
            delivery[<<e, h>>].status = "none"
       /\ /\ h \in event[e].found /\ Spared({"redis", "crash"})
          /\ event[e].pc = "add" => h \notin event[e].todo
          => delivery[<<e, h>>].status # "none"

\* A job is run by one slot, and by one until a process dies.
Alone == \A s, t \in Slot : Running(s) /\ Running(t) /\ On(s) = On(t) => s = t
Attended ==
  Spared({"crash"}) =>
    \A d \in Change \X Hook : delivery[d].status = "active" =>
      \E s \in Slot : Running(s) /\ On(s) = d

DeliveryInv ==
  /\ HookTypeOK
  /\ \A d \in Change \X Hook : GoodDelivery(d)
  /\ \A s \in Slot : GoodSlot(s)
  /\ \A e \in Change : GoodEvent(e)
  /\ Alone /\ Attended
-----------------------------------------------------------------------------
(***************************************************************************)
(* What a step leaves alone stays good.                                    *)
(***************************************************************************)
LEMMA HooksKept ==
  ASSUME RegInv, [HookNext]_hookVars, NEW h \in Hook, hook[h].owner \in Wallet
  PROVE  hook'[h].owner = hook[h].owner /\ (hook'[h].active => hook[h].active)
<1>1. CASE UNCHANGED hook
  BY <1>1
<1>2. ASSUME NEW p \in Post, InsertHook(p)
      PROVE  hook'[h] = hook[h]
  <2>1. PICK g \in Unused :
          hook' = [hook EXCEPT ![g] = [owner |-> post[p].wallet, active |-> TRUE]]
    BY <1>2, InsertInv
  <2>2. g # h
    BY WebhooksAssumption DEF Unused
  <2>3. QED
    BY <2>1, <2>2 DEF RegInv, RegType
<1>3. ASSUME NEW g \in Hook, NEW x \in Headers, Delete(g, x)
      PROVE  hook'[h].owner = hook[h].owner /\ (hook'[h].active => hook[h].active)
  BY <1>3 DEF Delete, RegInv, RegType, HookRow
<1>4. ASSUME NEW p \in Post, PostStep(p), ~InsertHook(p)
      PROVE  UNCHANGED hook
  BY <1>4 DEF PostStep, validateWebhookUrl, CountActive
<1>5. ASSUME NEW p \in Post, NEW x \in Headers, Register(p, x)
      PROVE  UNCHANGED hook
  BY <1>5 DEF Register
<1>6. QED
  BY <1>1, <1>2, <1>3, <1>4, <1>5, StepKinds DEF hookVars, Elsewhere

LEMMA Owned ==
  ASSUME DeliveryInv, NEW e \in Change, NEW h \in Hook,
         h \in event[e].found \/ delivery[<<e, h>>].status # "none"
  PROVE  h \in event[e].found /\ hook[h].owner = event[e].wallet
         /\ event[e].wallet \in Wallet
<1>1. GoodEvent(e) /\ event[e] \in Dispatching
  BY DEF DeliveryInv, HookTypeOK
<1>2. QED
  BY <1>1 DEF GoodEvent

LEMMA KeepDelivery ==
  ASSUME NEW d \in Change \X Hook, GoodDelivery(d), UNCHANGED hookMay,
         delivery'[d] = delivery[d], heard'[d] = heard[d],
         delivery[d].status = "failed" => (hook'[d[2]].active => hook[d[2]].active)
  PROVE  GoodDelivery(d)'
BY DEF GoodDelivery, Repeats, Spared, Tries

LEMMA KeepSlot ==
  ASSUME NEW s \in Slot, GoodSlot(s), slot'[s] = slot[s], UNCHANGED hookMay,
         Running(s) => /\ delivery'[On(s)] = delivery[On(s)]
                       /\ heard'[On(s)] = heard[On(s)]
                       /\ hook'[slot[s].hook].active => hook[slot[s].hook].active
  PROVE  GoodSlot(s)'
BY DEF GoodSlot, Running, On, Repeats, Spared

LEMMA KeepEvent ==
  ASSUME NEW e \in Change, GoodEvent(e), event'[e] = event[e], UNCHANGED hookMay,
         \A h \in event[e].found : hook'[h].owner = hook[h].owner,
         \A h \in Hook : delivery'[<<e, h>>].status = "none"
                           <=> delivery[<<e, h>>].status = "none"
  PROVE  GoodEvent(e)'
BY DEF GoodEvent, Spared

LEMMA KeepPairing ==
  ASSUME Alone, Attended, UNCHANGED <<slot, delivery, hookMay>>
  PROVE  Alone' /\ Attended'
BY DEF Alone, Attended, Running, On, Spared

\* Registrations, deletions, and steps that do nothing.
LEMMA TableStep ==
  ASSUME DeliveryInv, RegInv, RegInv', [HookNext]_hookVars,
         UNCHANGED <<event, delivery, slot, heard, hookMay>>
  PROVE  DeliveryInv'
<1>1. HookTypeOK'
  BY DEF DeliveryInv, HookTypeOK, RegInv, RegType
<1>2. ASSUME NEW d \in Change \X Hook PROVE GoodDelivery(d)'
  <2>1. PICK e \in Change, h \in Hook : d = <<e, h>>
    OBVIOUS
  <2>2. delivery[d].status = "failed" => (hook'[h].active => hook[h].active)
    BY <2>1, Owned, HooksKept
  <2>3. QED
    BY <2>1, <2>2, KeepDelivery DEF DeliveryInv
<1>3. ASSUME NEW s \in Slot PROVE GoodSlot(s)'
  <2>1. GoodSlot(s)
    BY DEF DeliveryInv
  <2>2. Running(s) => /\ slot[s].ev \in Change /\ slot[s].hook \in Hook
                      /\ delivery[<<slot[s].ev, slot[s].hook>>].status # "none"
    BY <2>1 DEF GoodSlot, On
  <2>3. Running(s) => (hook'[slot[s].hook].active => hook[slot[s].hook].active)
    BY <2>2, Owned, HooksKept
  <2>4. QED
    BY <2>1, <2>3, KeepSlot
<1>4. ASSUME NEW e \in Change PROVE GoodEvent(e)'
  <2>1. GoodEvent(e) /\ event[e].found \subseteq Hook
    BY DEF DeliveryInv, HookTypeOK, Dispatching
  <2>2. \A h \in event[e].found : hook'[h].owner = hook[h].owner
    BY <2>1, Owned, HooksKept
  <2>3. QED
    BY <2>1, <2>2, KeepEvent
<1>5. Alone' /\ Attended'
  BY KeepPairing DEF DeliveryInv
<1>6. QED
  BY <1>1, <1>2, <1>3, <1>4, <1>5 DEF DeliveryInv
-----------------------------------------------------------------------------
(***************************************************************************)
(* The dispatch.                                                           *)
(***************************************************************************)
LEMMA EventMoves ==
  ASSUME DeliveryInv, NEW e \in Change, NEW v \in Dispatching,
         event' = [event EXCEPT ![e] = v],
         UNCHANGED <<hook, post, delivery, slot, heard, hookMay>>,
         GoodEvent(e)'
  PROVE  DeliveryInv'
<1>1. HookTypeOK'
  BY DEF DeliveryInv, HookTypeOK
<1>2. ASSUME NEW d \in Change \X Hook PROVE GoodDelivery(d)'
  BY KeepDelivery DEF DeliveryInv
<1>3. ASSUME NEW s \in Slot PROVE GoodSlot(s)'
  BY KeepSlot DEF DeliveryInv
<1>4. ASSUME NEW f \in Change PROVE GoodEvent(f)'
  <2>1. CASE f = e
    BY <2>1
  <2>2. CASE f # e
    <3>1. event'[f] = event[f] /\ GoodEvent(f)
      BY <2>2 DEF DeliveryInv, HookTypeOK
    <3>2. QED
      BY <3>1, KeepEvent
  <2>3. QED
    BY <2>1, <2>2
<1>5. Alone' /\ Attended'
  BY KeepPairing DEF DeliveryInv
<1>6. QED
  BY <1>1, <1>2, <1>3, <1>4, <1>5 DEF DeliveryInv

LEMMA StateChangedInv ==
  ASSUME DeliveryInv, NEW e \in Change, NEW w \in Wallet, StateChanged(e, w)
  PROVE  DeliveryInv'
<1> DEFINE v == [event[e] EXCEPT !.pc = "select", !.wallet = w]
<1>1. event[e] \in Dispatching /\ GoodEvent(e) /\ event \in [Change -> Dispatching]
  BY DEF DeliveryInv, HookTypeOK
<1>2. event' = [event EXCEPT ![e] = v] /\ event[e].pc = "none"
      /\ UNCHANGED <<hook, post, delivery, slot, heard, hookMay>>
  BY DEF StateChanged
<1>3. v \in Dispatching /\ v.pc = "select" /\ v.wallet = w
      /\ v.found = event[e].found /\ v.todo = event[e].todo
  BY <1>1 DEF Dispatching
<1> HIDE DEF v
<1>4. event'[e] = v
  BY <1>1, <1>2
<1>5. GoodEvent(e)'
  BY <1>1, <1>2, <1>3, <1>4 DEF GoodEvent, Spared
<1>6. QED
  BY <1>2, <1>3, <1>5, EventMoves

LEMMA SelectActiveInv ==
  ASSUME DeliveryInv, NEW e \in Change, SelectActive(e)
  PROVE  DeliveryInv'
<1> DEFINE hooks == Active(event[e].wallet)
           v == [event[e] EXCEPT !.pc = IF hooks = {} THEN "done" ELSE "add",
                                 !.found = hooks, !.todo = hooks]
<1>1. event[e] \in Dispatching /\ GoodEvent(e) /\ event \in [Change -> Dispatching]
  BY DEF DeliveryInv, HookTypeOK
<1>2. event' = [event EXCEPT ![e] = v] /\ event[e].pc = "select"
      /\ UNCHANGED <<hook, post, delivery, slot, heard, hookMay>>
  BY DEF SelectActive
<1>3. hooks \in SUBSET Hook /\ \A h \in hooks : hook[h].owner = event[e].wallet
  BY DEF Active
<1> HIDE DEF hooks
<1>4. /\ v \in Dispatching /\ v.pc = (IF hooks = {} THEN "done" ELSE "add")
      /\ v.wallet = event[e].wallet /\ v.found = hooks /\ v.todo = hooks
  BY <1>1, <1>3 DEF Dispatching
<1> HIDE DEF v
<1>5. event'[e] = v
  BY <1>1, <1>2
<1>6. \A h \in Hook : delivery[<<e, h>>].status = "none"
  BY <1>1, <1>2 DEF GoodEvent
<1>7. GoodEvent(e)'
  BY <1>1, <1>2, <1>3, <1>4, <1>5, <1>6 DEF GoodEvent, Spared
<1>8. QED
  BY <1>2, <1>4, <1>7, EventMoves

LEMMA GiveUpInv ==
  ASSUME DeliveryInv, NEW e \in Change, GiveUp(e)
  PROVE  DeliveryInv'
<1> DEFINE v == [event[e] EXCEPT !.pc = "done"]
<1>1. event[e] \in Dispatching /\ GoodEvent(e) /\ event \in [Change -> Dispatching]
  BY DEF DeliveryInv, HookTypeOK
<1>2. event' = [event EXCEPT ![e] = v]
      /\ UNCHANGED <<hook, post, delivery, slot, heard, hookMay>>
  BY <1>1 DEF GiveUp
<1>3. \/ event[e].pc = "select"
      \/ event[e].pc = "add" /\ ~Spared({"redis", "crash"})
  BY DEF GiveUp, Spared
<1>4. v \in Dispatching /\ v.pc = "done" /\ v.wallet = event[e].wallet
      /\ v.found = event[e].found /\ v.todo = event[e].todo
  BY <1>1 DEF Dispatching
<1> HIDE DEF v
<1>5. event'[e] = v
  BY <1>1, <1>2
<1>6. GoodEvent(e)'
  BY <1>1, <1>2, <1>3, <1>4, <1>5 DEF GoodEvent, Spared
<1>7. QED
  BY <1>2, <1>4, <1>6, EventMoves
-----------------------------------------------------------------------------
(***************************************************************************)
(* Jobs and the slots that run them.                                       *)
(***************************************************************************)
LEMMA JobMoves ==
  ASSUME DeliveryInv, NEW d \in Change \X Hook,
         delivery' \in [Change \X Hook -> Delivery], slot' \in [Slot -> Work],
         heard' \in [Change \X Hook -> [Tries -> Nat]],
         \A c \in Change \X Hook : c # d => /\ delivery'[c] = delivery[c]
                                            /\ heard'[c] = heard[c],
         delivery'[d].status = "none" <=> delivery[d].status = "none",
         UNCHANGED <<hook, post, event, hookMay>>,
         GoodDelivery(d)',
         \A s \in Slot : \/ GoodSlot(s)'
                         \/ slot'[s] = slot[s] /\ (Running(s) => On(s) # d),
         Alone', Attended'
  PROVE  DeliveryInv'
<1>1. HookTypeOK'
  BY DEF DeliveryInv, HookTypeOK, Tries
<1>2. ASSUME NEW c \in Change \X Hook PROVE GoodDelivery(c)'
  <2>1. CASE c # d
    BY <2>1, KeepDelivery DEF DeliveryInv
  <2>2. QED
    BY <2>1
<1>3. ASSUME NEW s \in Slot PROVE GoodSlot(s)'
  <2>1. CASE slot'[s] = slot[s] /\ (Running(s) => On(s) # d)
    <3>1. GoodSlot(s) /\ (Running(s) => On(s) \in Change \X Hook)
      BY DEF DeliveryInv, GoodSlot
    <3>2. Running(s) => delivery'[On(s)] = delivery[On(s)] /\ heard'[On(s)] = heard[On(s)]
      BY <2>1, <3>1
    <3>3. QED
      BY <2>1, <3>1, <3>2, KeepSlot
  <2>2. QED
    BY <2>1
<1>4. ASSUME NEW e \in Change PROVE GoodEvent(e)'
  <2>1. \A h \in Hook : delivery'[<<e, h>>].status = "none"
                          <=> delivery[<<e, h>>].status = "none"
    OBVIOUS
  <2>2. QED
    BY <2>1, KeepEvent DEF DeliveryInv
<1>5. QED
  BY <1>1, <1>2, <1>3, <1>4 DEF DeliveryInv

\* The job of a slot.
IsJobOf(d, s) ==
  /\ On(s) = d /\ d[2] = slot[s].hook
  /\ delivery[d] \in Delivery /\ delivery[d].status = "active"
  /\ delivery[d].made < HookAttempts /\ delivery[d].made + 1 \in Tries
  /\ heard[d] \in [Tries -> Nat] /\ Repeats(d) \in Nat
  /\ GoodSlot(s) /\ GoodDelivery(d)
  /\ \A t \in Slot : t # s /\ Running(t) => On(t) # d

LEMMA SlotFacts ==
  ASSUME DeliveryInv, NEW s \in Slot, Running(s)
  PROVE  \E d \in Change \X Hook : IsJobOf(d, s)
<1>1. GoodSlot(s)
  BY DEF DeliveryInv
<1>2. PICK d \in Change \X Hook : On(s) = d
  BY <1>1 DEF GoodSlot
<1>3. delivery[d].status = "active"
  BY <1>1, <1>2 DEF GoodSlot
<1>4. GoodDelivery(d) /\ delivery[d] \in Delivery /\ heard[d] \in [Tries -> Nat]
  BY DEF DeliveryInv, HookTypeOK, Tries
<1>5. delivery[d].made < HookAttempts
  BY <1>3, <1>4 DEF GoodDelivery
<1>6. delivery[d].made \in Nat /\ delivery[d].stalls \in Nat
      /\ delivery[d].made + 1 \in Tries
  BY <1>4, <1>5, WebhooksAssumption DEF Delivery, Tries
<1>7. Repeats(d) \in Nat
  BY <1>6 DEF Repeats
<1>8. \A t \in Slot : t # s /\ Running(t) => On(t) # d
  BY <1>2 DEF DeliveryInv, Alone
<1>9. d[2] = slot[s].hook
  BY <1>2 DEF On
<1>10. QED
  BY <1>1, <1>2, <1>3, <1>4, <1>5, <1>6, <1>7, <1>8, <1>9 DEF IsJobOf

\* A slot that goes from await to await keeps its job.
LEMMA StepMoves ==
  ASSUME DeliveryInv, NEW s \in Slot, Running(s), UNCHANGED <<delivery, hookMay>>,
         NEW pc \in {"resolve", "send", "return", "throw"}, Step(s, pc)
  PROVE  /\ slot' \in [Slot -> Work] /\ slot'[s].pc = pc
         /\ slot'[s].hook = slot[s].hook /\ On(s)' = On(s) /\ Running(s)'
         /\ \A t \in Slot : t # s => slot'[t] = slot[t]
         /\ Alone' /\ Attended'
<1>1. slot \in [Slot -> Work]
  BY DEF DeliveryInv, HookTypeOK
<1>2. /\ slot' \in [Slot -> Work] /\ slot'[s].pc = pc
      /\ slot'[s].hook = slot[s].hook /\ slot'[s].ev = slot[s].ev
      /\ \A t \in Slot : t # s => slot'[t] = slot[t]
  BY <1>1 DEF Step, Work
<1>3. \A t \in Slot : On(t)' = On(t) /\ (Running(t)' <=> Running(t))
  BY <1>2 DEF On, Running
<1>4. Alone' /\ Attended'
  BY <1>3 DEF DeliveryInv, Alone, Attended, Spared
<1>5. QED
  BY <1>2, <1>3, <1>4

\* An await whose end changes nothing but the slot.
LEMMA AwaitInv ==
  ASSUME DeliveryInv, NEW s \in Slot, Running(s),
         NEW pc \in {"resolve", "send", "throw"}, Step(s, pc),
         UNCHANGED <<hook, post, event, delivery, heard, hookMay>>,
         slot[s].pc \in {"load", "resolve", "send"},
         pc = "throw" => (hook[slot[s].hook].active => hookMay \ {"redis"} # {})
  PROVE  DeliveryInv'
<1>1. PICK d \in Change \X Hook : IsJobOf(d, s)
  BY SlotFacts
<1>2. /\ slot' \in [Slot -> Work] /\ slot'[s].pc = pc
      /\ slot'[s].hook = slot[s].hook /\ On(s)' = On(s)
      /\ \A t \in Slot : t # s => slot'[t] = slot[t]
      /\ Alone' /\ Attended'
  BY StepMoves
<1>3. GoodSlot(s)'
  BY <1>1, <1>2 DEF IsJobOf, GoodSlot, Running, Repeats, Spared
<1>4. \A t \in Slot : t # s => slot'[t] = slot[t] /\ (Running(t) => On(t) # d)
  BY <1>1, <1>2 DEF IsJobOf
<1>5. GoodDelivery(d)'
  BY <1>1, KeepDelivery DEF IsJobOf
<1>6. delivery' \in [Change \X Hook -> Delivery]
      /\ heard' \in [Change \X Hook -> [Tries -> Nat]]
  BY DEF DeliveryInv, HookTypeOK, Tries
<1>7. QED
  BY <1>2, <1>3, <1>4, <1>5, <1>6, JobMoves

LEMMA LoadHookInv ==
  ASSUME DeliveryInv, NEW s \in Slot, LoadHook(s)
  PROVE  DeliveryInv'
<1>1. Running(s) /\ slot[s].pc \in {"load", "resolve", "send"}
      /\ UNCHANGED <<hook, post, event, delivery, heard, hookMay>>
  BY DEF LoadHook, Running
<1>2. \/ Step(s, "resolve")
      \/ Step(s, "throw") /\ (hook[slot[s].hook].active => hookMay \ {"redis"} # {})
  BY DEF LoadHook, Fails
<1>3. QED
  BY <1>1, <1>2, AwaitInv

LEMMA ResolveInv ==
  ASSUME DeliveryInv, NEW s \in Slot, resolveAndValidateHostname(s)
  PROVE  DeliveryInv'
<1>1. Running(s) /\ slot[s].pc \in {"load", "resolve", "send"}
      /\ UNCHANGED <<hook, post, event, delivery, heard, hookMay>>
  BY DEF resolveAndValidateHostname, Running
<1>2. Step(s, "send") \/ (Step(s, "throw") /\ hookMay \ {"redis"} # {})
  BY DEF resolveAndValidateHostname, Fails
<1>3. QED
  BY <1>1, <1>2, AwaitInv

LEMMA PostPayloadInv ==
  ASSUME DeliveryInv, NEW s \in Slot, PostPayload(s)
  PROVE  DeliveryInv'
<1>1. Running(s) /\ slot[s].pc = "send"
      /\ UNCHANGED <<hook, post, event, delivery, hookMay>>
  BY DEF PostPayload, Running
<1>2. PICK d \in Change \X Hook : IsJobOf(d, s)
  BY <1>1, SlotFacts
<1>3. PICK n \in Tries : n = delivery[d].made + 1
  BY <1>2 DEF IsJobOf
<1>4. CASE UNCHANGED heard /\ Fails(s, {"refused"})
  <2>1. Step(s, "throw") /\ hookMay \ {"redis"} # {}
    BY <1>4 DEF Fails
  <2>2. QED
    BY <1>1, <1>4, <2>1, AwaitInv
<1>5. ASSUME NEW pc \in {"return", "throw"}, Step(s, pc),
             pc = "throw" => hookMay \ {"redis"} # {},
             heard' = [heard EXCEPT ![d][n] = @ + 1]
      PROVE  DeliveryInv'
  <2>1. heard[d][n] <= Repeats(d)
    BY <1>1, <1>2, <1>3 DEF IsJobOf, GoodSlot
  <2>2. /\ slot' \in [Slot -> Work] /\ slot'[s].pc = pc
        /\ slot'[s].hook = slot[s].hook /\ On(s)' = On(s)
        /\ \A t \in Slot : t # s => slot'[t] = slot[t]
        /\ Alone' /\ Attended'
    BY <1>1, <1>5, StepMoves
  <2>3. heard \in [Change \X Hook -> [Tries -> Nat]]
        /\ delivery \in [Change \X Hook -> Delivery]
    BY DEF DeliveryInv, HookTypeOK, Tries
  <2>4. /\ heard' \in [Change \X Hook -> [Tries -> Nat]]
        /\ heard'[d][n] = heard[d][n] + 1
        /\ \A m \in Tries : m # n => heard'[d][m] = heard[d][m]
        /\ \A c \in Change \X Hook : c # d => heard'[c] = heard[c]
    <3> DEFINE g == [heard[d] EXCEPT ![n] = heard[d][n] + 1]
    <3>1. heard[d] \in [Tries -> Nat]
      BY <2>3
    <3>2. g \in [Tries -> Nat] /\ g[n] = heard[d][n] + 1
          /\ \A m \in Tries : m # n => g[m] = heard[d][m]
      BY <3>1
    <3>3. heard' = [heard EXCEPT ![d] = g]
      BY <1>5, <2>3
    <3> HIDE DEF g
    <3>4. heard'[d] = g
      BY <3>3, <2>3
    <3>5. QED
      BY <3>2, <3>3, <3>4, <2>3
  <2>5. delivery'[d] = delivery[d] /\ Repeats(d)' = Repeats(d)
    BY <1>1 DEF Repeats, Spared
  <2>6. heard[d][n] \in Nat /\ Repeats(d) \in Nat
    BY <1>2 DEF IsJobOf
  <2>7. heard'[d][n] <= 1 + Repeats(d) /\ heard'[d][n] > 0
    BY <2>1, <2>4, <2>6
  <2>8. \A m \in Tries : heard'[d][m] <= 1 + Repeats(d)
                         /\ (m > n => heard'[d][m] = 0)
    <3> SUFFICES ASSUME NEW m \in Tries
        PROVE  heard'[d][m] <= 1 + Repeats(d) /\ (m > n => heard'[d][m] = 0)
      OBVIOUS
    <3>1. CASE m = n
      BY <3>1, <2>7 DEF Tries
    <3>2. CASE m # n
      BY <3>2, <1>2, <1>3, <2>4 DEF IsJobOf, GoodDelivery
    <3>3. QED
      BY <3>1, <3>2
  <2>9. GoodDelivery(d)'
    <3>1. delivery[d].status = "active" /\ delivery[d].made < HookAttempts
      BY <1>2 DEF IsJobOf
    <3>2. QED
      BY <1>3, <2>5, <2>8, <3>1 DEF GoodDelivery
  <2>10. GoodSlot(s)'
    BY <1>1, <1>2, <1>3, <1>5, <2>2, <2>5, <2>7 DEF IsJobOf, GoodSlot
  <2>11. \A t \in Slot : t # s => slot'[t] = slot[t] /\ (Running(t) => On(t) # d)
    BY <1>2, <2>2 DEF IsJobOf
  <2>12. QED
    BY <1>1, <2>2, <2>3, <2>4, <2>5, <2>9, <2>10, <2>11, JobMoves
<1>6. \/ UNCHANGED heard /\ Fails(s, {"refused"})
      \/ /\ heard' = [heard EXCEPT ![d][n] = @ + 1]
         /\ Step(s, "return") \/ Fails(s, {"late"})
  BY <1>2, <1>3 DEF PostPayload, IsJobOf
<1>7. Fails(s, {"late"}) => Step(s, "throw") /\ hookMay \ {"redis"} # {}
  BY DEF Fails
<1>8. QED
  BY <1>4, <1>5, <1>6, <1>7

\* A slot that is done with its job.
LEMMA FreeMoves ==
  ASSUME DeliveryInv, NEW s \in Slot, slot' = [slot EXCEPT ![s] = Free]
  PROVE  /\ slot' \in [Slot -> Work] /\ GoodSlot(s)' /\ ~Running(s)'
         /\ \A t \in Slot : t # s => /\ slot'[t] = slot[t] /\ On(t)' = On(t)
                                     /\ Running(t)' <=> Running(t)
         /\ Alone'
<1>1. slot \in [Slot -> Work] /\ Free \in Work /\ Free.pc = "idle"
  BY DEF DeliveryInv, HookTypeOK, Free, Work
<1>2. /\ slot' \in [Slot -> Work] /\ slot'[s] = Free
      /\ \A t \in Slot : t # s => slot'[t] = slot[t]
  BY <1>1
<1>3. ~Running(s)'
  BY <1>1, <1>2 DEF Running
<1>4. \A t \in Slot : t # s => On(t)' = On(t) /\ (Running(t)' <=> Running(t))
  BY <1>2 DEF On, Running
<1>5. Alone'
  BY <1>3, <1>4 DEF DeliveryInv, Alone
<1>6. QED
  BY <1>2, <1>3, <1>4, <1>5 DEF GoodSlot

LEMMA EndInv ==
  ASSUME DeliveryInv, NEW s \in Slot, NEW d \in Change \X Hook, Running(s),
         IsJobOf(d, s),
         NEW v \in Delivery, v.status \in {"waiting", "completed", "failed"},
         delivery' = [delivery EXCEPT ![d] = v],
         slot' = [slot EXCEPT ![s] = Free],
         UNCHANGED <<hook, post, event, heard, hookMay>>,
         GoodDelivery(d)'
  PROVE  DeliveryInv'
<1>1. /\ slot' \in [Slot -> Work] /\ GoodSlot(s)' /\ ~Running(s)'
      /\ \A t \in Slot : t # s => /\ slot'[t] = slot[t] /\ On(t)' = On(t)
                                  /\ Running(t)' <=> Running(t)
      /\ Alone'
  BY FreeMoves
<1>2. delivery \in [Change \X Hook -> Delivery]
      /\ heard \in [Change \X Hook -> [Tries -> Nat]]
  BY DEF DeliveryInv, HookTypeOK, Tries
<1>3. /\ delivery' \in [Change \X Hook -> Delivery] /\ delivery'[d] = v
      /\ \A c \in Change \X Hook : c # d => delivery'[c] = delivery[c]
  BY <1>2
<1>4. delivery'[d].status = "none" <=> delivery[d].status = "none"
  BY <1>3 DEF IsJobOf
<1>5. \A t \in Slot : t # s => slot'[t] = slot[t] /\ (Running(t) => On(t) # d)
  BY <1>1 DEF IsJobOf
<1>6. Attended'
  <2> SUFFICES ASSUME Spared({"crash"}), NEW c \in Change \X Hook,
                      delivery'[c].status = "active"
      PROVE  \E t \in Slot : Running(t)' /\ On(t)' = c
    BY DEF Attended, Spared
  <2>1. c # d /\ delivery[c].status = "active"
    BY <1>3
  <2>2. PICK t \in Slot : Running(t) /\ On(t) = c
    BY <2>1 DEF DeliveryInv, Attended
  <2>3. t # s
    BY <2>1, <2>2 DEF IsJobOf
  <2>4. QED
    BY <1>1, <2>2, <2>3
<1>7. heard' = heard
  OBVIOUS
<1>8. QED
  BY <1>1, <1>2, <1>3, <1>4, <1>5, <1>6, <1>7, JobMoves

LEMMA CompleteDeliveryInv ==
  ASSUME DeliveryInv, NEW s \in Slot, CompleteDelivery(s)
  PROVE  DeliveryInv'
<1>1. Running(s) /\ slot[s].pc = "return"
      /\ UNCHANGED <<hook, post, event, heard, hookMay>>
      /\ slot' = [slot EXCEPT ![s] = Free]
  BY DEF CompleteDelivery, Running
<1>2. PICK d \in Change \X Hook : IsJobOf(d, s)
  BY <1>1, SlotFacts
<1> DEFINE v == [delivery[d] EXCEPT !.status = "completed"]
<1>3. /\ v \in Delivery /\ v.status = "completed" /\ v.made = delivery[d].made
      /\ v.stalls = delivery[d].stalls
  BY <1>2 DEF IsJobOf, Delivery
<1>4. delivery' = [delivery EXCEPT ![d] = v]
  BY <1>2 DEF CompleteDelivery, IsJobOf
<1> HIDE DEF v
<1>5. delivery'[d] = v
  BY <1>4 DEF DeliveryInv, HookTypeOK
<1>6. heard[d][delivery[d].made + 1] > 0
  BY <1>1, <1>2 DEF IsJobOf, GoodSlot
<1>7. Repeats(d)' = Repeats(d)
  BY <1>1, <1>3, <1>5 DEF Repeats, Spared
<1>8. GoodDelivery(d)'
  BY <1>1, <1>2, <1>3, <1>5, <1>6, <1>7 DEF IsJobOf, GoodDelivery
<1>9. QED
  BY <1>1, <1>2, <1>3, <1>4, <1>8, EndInv

LEMMA FailDeliveryInv ==
  ASSUME DeliveryInv, NEW s \in Slot, FailDelivery(s)
  PROVE  DeliveryInv'
<1>1. Running(s) /\ slot[s].pc = "throw"
      /\ UNCHANGED <<hook, post, event, heard, hookMay>>
      /\ slot' = [slot EXCEPT ![s] = Free]
  BY DEF FailDelivery, Running
<1>2. PICK d \in Change \X Hook : IsJobOf(d, s)
  BY <1>1, SlotFacts
<1> DEFINE made == delivery[d].made + 1
           v == [delivery[d] EXCEPT !.made = made,
                   !.status = IF made < HookAttempts THEN "waiting" ELSE "failed"]
<1>3. delivery[d].made \in Nat /\ made \in Tries /\ made \in 0..HookAttempts
      /\ HookAttempts \in Nat /\ delivery[d].made < HookAttempts
  BY <1>2, WebhooksAssumption DEF IsJobOf, Delivery, Tries
<1>4. delivery' = [delivery EXCEPT ![d] = v]
  BY <1>2 DEF FailDelivery, IsJobOf
<1>5. /\ v \in Delivery /\ v.made = made /\ v.stalls = delivery[d].stalls
      /\ v.status = IF made < HookAttempts THEN "waiting" ELSE "failed"
  BY <1>2, <1>3 DEF IsJobOf, Delivery
<1> HIDE DEF v
<1>6. delivery'[d] = v
  BY <1>4 DEF DeliveryInv, HookTypeOK
<1>7. Repeats(d)' = Repeats(d) /\ Repeats(d) \in Nat
  BY <1>1, <1>2, <1>5, <1>6 DEF IsJobOf, Repeats, Spared
<1>8. hook[d[2]].active => hookMay \ {"redis"} # {}
  BY <1>1, <1>2 DEF IsJobOf, GoodSlot
<1>9. \A n \in Tries : /\ heard[d][n] <= 1 + Repeats(d)
                       /\ n > made => heard[d][n] = 0
  BY <1>2 DEF IsJobOf, GoodDelivery
<1>10. made < HookAttempts => heard[d][made + 1] = 0
  BY <1>3, <1>9 DEF Tries
<1>11. ~(made < HookAttempts) => made = HookAttempts
  BY <1>3
<1>12. \A n \in Tries : n > made + 1 => heard[d][n] = 0
  BY <1>3, <1>9 DEF Tries
<1> HIDE DEF made
<1>13. GoodDelivery(d)'
  BY <1>1, <1>5, <1>6, <1>7, <1>8, <1>9, <1>10, <1>11, <1>12 DEF GoodDelivery
<1>14. v.status \in {"waiting", "completed", "failed"}
  BY <1>5
<1>15. QED
  BY <1>1, <1>2, <1>4, <1>5, <1>13, <1>14, EndInv

LEMMA WorkerDiesInv ==
  ASSUME DeliveryInv, NEW s \in Slot, WorkerDies(s)
  PROVE  DeliveryInv'
<1>1. Running(s) /\ ~Spared({"crash"}) /\ slot' = [slot EXCEPT ![s] = Free]
      /\ UNCHANGED <<hook, post, event, delivery, heard, hookMay>>
  BY DEF WorkerDies, Running, Spared
<1>2. PICK d \in Change \X Hook : IsJobOf(d, s)
  BY <1>1, SlotFacts
<1>3. /\ slot' \in [Slot -> Work] /\ GoodSlot(s)' /\ Alone'
      /\ \A t \in Slot : t # s => slot'[t] = slot[t]
  BY <1>1, FreeMoves
<1>4. Attended'
  BY <1>1 DEF Attended, Spared
<1>5. \A t \in Slot : t # s => slot'[t] = slot[t] /\ (Running(t) => On(t) # d)
  BY <1>2, <1>3 DEF IsJobOf
<1>6. GoodDelivery(d)'
  BY <1>1, <1>2, KeepDelivery DEF IsJobOf
<1>7. delivery' \in [Change \X Hook -> Delivery]
      /\ heard' \in [Change \X Hook -> [Tries -> Nat]]
  BY <1>1 DEF DeliveryInv, HookTypeOK, Tries
<1>8. QED
  BY <1>1, <1>3, <1>4, <1>5, <1>6, <1>7, JobMoves

LEMMA StalledDeliveryInv ==
  ASSUME DeliveryInv, NEW e \in Change, NEW h \in Hook, StalledDelivery(e, h)
  PROVE  DeliveryInv'
<1> DEFINE d == <<e, h>>
           v == IF delivery[d].stalls < HookStalls
                  THEN [delivery[d] EXCEPT !.status = "waiting",
                                           !.stalls = delivery[d].stalls + 1]
                  ELSE [delivery[d] EXCEPT !.status = "failed"]
<1>1. /\ delivery[d].status = "active" /\ \A s \in Slot : On(s) # d
      /\ delivery' = [delivery EXCEPT ![d] = v]
      /\ UNCHANGED <<hook, post, event, slot, heard, hookMay>>
  BY DEF StalledDelivery
<1>2. d \in Change \X Hook /\ GoodDelivery(d) /\ delivery[d] \in Delivery
      /\ heard \in [Change \X Hook -> [Tries -> Nat]]
      /\ delivery \in [Change \X Hook -> Delivery] /\ slot \in [Slot -> Work]
  BY DEF DeliveryInv, HookTypeOK, Tries
<1>3. ~Spared({"crash"})
  BY <1>1, <1>2 DEF DeliveryInv, Attended
<1>4. /\ v \in Delivery /\ v.made = delivery[d].made
      /\ v.status \in {"waiting", "failed"}
      /\ v.status = "waiting" => v.stalls = delivery[d].stalls + 1
      /\ v.status = "failed" => v.stalls = delivery[d].stalls
                                /\ delivery[d].stalls = HookStalls
      /\ delivery[d].stalls \in Nat /\ delivery[d].made \in Nat
  <2> HIDE DEF d
  <2>1. delivery[d].stalls \in 0..HookStalls /\ HookStalls \in Nat
        /\ delivery[d].made \in 0..HookAttempts /\ HookAttempts \in Nat
    BY <1>2, WebhooksAssumption DEF Delivery
  <2>2. delivery[d].stalls \in Nat /\ delivery[d].made \in Nat
    BY <2>1
  <2>3. CASE delivery[d].stalls < HookStalls
    <3>1. v = [delivery[d] EXCEPT !.status = "waiting", !.stalls = delivery[d].stalls + 1]
          /\ delivery[d].stalls + 1 \in 0..HookStalls
      BY <2>1, <2>3
    <3> HIDE DEF v
    <3>2. /\ v.made = delivery[d].made /\ v.status = "waiting"
          /\ v.stalls = delivery[d].stalls + 1 /\ v \in Delivery
      BY <1>2, <3>1 DEF Delivery
    <3>3. QED
      BY <2>2, <3>2
  <2>4. CASE ~(delivery[d].stalls < HookStalls)
    <3>1. v = [delivery[d] EXCEPT !.status = "failed"]
          /\ delivery[d].stalls = HookStalls
      BY <2>1, <2>4
    <3> HIDE DEF v
    <3>2. /\ v.made = delivery[d].made /\ v.status = "failed"
          /\ v.stalls = delivery[d].stalls /\ v \in Delivery
      BY <1>2, <3>1 DEF Delivery
    <3>3. QED
      BY <2>2, <3>1, <3>2
  <2>5. QED
    BY <2>3, <2>4
<1> HIDE DEF v, d
<1>5. delivery'[d] = v
  BY <1>1, <1>2
<1>6. delivery[d].made < HookAttempts
  BY <1>1, <1>2 DEF GoodDelivery
<1>7. delivery[d].made + 1 \in Tries
  BY <1>4, <1>6, WebhooksAssumption DEF Tries
<1>8. Repeats(d) = delivery[d].stalls /\ Repeats(d)' = v.stalls
  BY <1>1, <1>3, <1>5 DEF Repeats, Spared
<1>9. \A n \in Tries : /\ heard[d][n] <= 1 + v.stalls
                       /\ n > delivery[d].made + 1 => heard[d][n] = 0
  <2>1. \A n \in Tries : heard[d][n] \in Nat
    BY <1>2
  <2>2. QED
    BY <1>2, <1>4, <1>8, <2>1 DEF GoodDelivery
<1>10. v.status = "waiting" => heard[d][delivery[d].made + 1] <= v.stalls
  BY <1>2, <1>4, <1>7, <1>8 DEF GoodDelivery
<1>11. hookMay \ {"redis"} # {}
  BY <1>3 DEF Spared
<1>12. GoodDelivery(d)'
  BY <1>1, <1>3, <1>4, <1>5, <1>6, <1>8, <1>9, <1>10, <1>11
     DEF GoodDelivery, Spared
<1>13. Alone' /\ Attended'
  <2>1. Alone'
    BY <1>1 DEF DeliveryInv, Alone, Running, On
  <2>2. Attended'
    BY <1>1, <1>3 DEF Attended, Spared
  <2>3. QED
    BY <2>1, <2>2
<1>14. /\ delivery' \in [Change \X Hook -> Delivery]
       /\ \A c \in Change \X Hook : c # d => delivery'[c] = delivery[c]
       /\ delivery'[d].status = "none" <=> delivery[d].status = "none"
  BY <1>1, <1>2, <1>4, <1>5
<1>15. slot' \in [Slot -> Work] /\ heard' \in [Change \X Hook -> [Tries -> Nat]]
  BY <1>1, <1>2
<1>16. QED
  BY <1>1, <1>2, <1>12, <1>13, <1>14, <1>15, JobMoves

LEMMA TakeDeliveryInv ==
  ASSUME DeliveryInv, NEW s \in Slot, NEW e \in Change, NEW h \in Hook,
         TakeDelivery(s, e, h)
  PROVE  DeliveryInv'
<1> DEFINE d == <<e, h>>
           v == [delivery[d] EXCEPT !.status = "active"]
<1>1. /\ ~Running(s) /\ delivery[d].status = "waiting"
      /\ delivery' = [delivery EXCEPT ![d] = v]
      /\ slot' = [slot EXCEPT ![s] = [pc |-> "load", ev |-> e, hook |-> h]]
      /\ UNCHANGED <<hook, post, event, heard, hookMay>>
  BY DEF TakeDelivery, Running
<1>2. d \in Change \X Hook /\ GoodDelivery(d) /\ delivery[d] \in Delivery
      /\ heard \in [Change \X Hook -> [Tries -> Nat]]
      /\ delivery \in [Change \X Hook -> Delivery] /\ slot \in [Slot -> Work]
  BY DEF DeliveryInv, HookTypeOK, Tries
<1>3. /\ v \in Delivery /\ v.made = delivery[d].made
      /\ v.status = "active" /\ v.stalls = delivery[d].stalls
  BY <1>2 DEF Delivery
<1> HIDE DEF v
<1>4. /\ slot' \in [Slot -> Work] /\ slot'[s].pc = "load"
      /\ slot'[s].ev = e /\ slot'[s].hook = h
      /\ \A t \in Slot : t # s => slot'[t] = slot[t]
  BY <1>1, <1>2 DEF Work
<1>5. Running(s)' /\ On(s)' = d
  BY <1>4 DEF Running, On
<1> HIDE DEF d
<1>6. /\ delivery' \in [Change \X Hook -> Delivery] /\ delivery'[d] = v
      /\ \A c \in Change \X Hook : c # d => delivery'[c] = delivery[c]
  BY <1>1, <1>2, <1>3
<1>7. Repeats(d)' = Repeats(d) /\ heard'[d] = heard[d]
  BY <1>1, <1>3, <1>6 DEF Repeats, Spared
<1>8. GoodDelivery(d)'
  BY <1>1, <1>2, <1>3, <1>6, <1>7 DEF GoodDelivery
<1>9. heard[d][delivery[d].made + 1] <= Repeats(d)
  BY <1>1, <1>2 DEF GoodDelivery
<1>10. GoodSlot(s)'
  BY <1>2, <1>3, <1>4, <1>5, <1>6, <1>7, <1>9 DEF GoodSlot
<1>11. \A t \in Slot : t # s => /\ slot'[t] = slot[t] /\ (Running(t) => On(t) # d)
                                /\ On(t)' = On(t) /\ (Running(t)' <=> Running(t))
  <2> SUFFICES ASSUME NEW t \in Slot, t # s
      PROVE  /\ slot'[t] = slot[t] /\ (Running(t) => On(t) # d)
             /\ On(t)' = On(t) /\ (Running(t)' <=> Running(t))
    OBVIOUS
  <2>1. Running(t) => delivery[On(t)].status = "active"
    BY DEF DeliveryInv, GoodSlot
  <2>2. Running(t) => On(t) # d
    BY <1>1, <2>1
  <2>3. QED
    BY <1>4, <2>2 DEF On, Running
<1>12. Alone'
  BY <1>5, <1>11 DEF DeliveryInv, Alone
<1>13. Attended'
  <2> SUFFICES ASSUME Spared({"crash"}), NEW c \in Change \X Hook,
                      delivery'[c].status = "active"
      PROVE  \E t \in Slot : Running(t)' /\ On(t)' = c
    BY <1>1 DEF Attended, Spared
  <2>1. CASE c = d
    BY <1>5, <2>1
  <2>2. CASE c # d
    <3>1. PICK t \in Slot : Running(t) /\ On(t) = c
      BY <1>6, <2>2 DEF DeliveryInv, Attended
    <3>2. QED
      BY <1>1, <1>11, <3>1
  <2>3. QED
    BY <2>1, <2>2
<1>14. delivery'[d].status = "none" <=> delivery[d].status = "none"
  BY <1>1, <1>3, <1>6
<1>15. heard' = heard
  BY <1>1
<1>16. QED
  BY <1>1, <1>2, <1>4, <1>6, <1>8, <1>10, <1>11, <1>12, <1>13, <1>14, <1>15, JobMoves

\* Two writes: the event forgets the webhook, and the queue has its job.
LEMMA AddJobInv ==
  ASSUME DeliveryInv, NEW e \in Change, NEW h \in Hook, AddJob(e, h)
  PROVE  DeliveryInv'
<1> DEFINE d == <<e, h>>
           rest == event[e].todo \ {h}
           v == [event[e] EXCEPT !.todo = rest,
                                 !.pc = IF rest = {} THEN "done" ELSE "add"]
           w == [delivery[d] EXCEPT !.status = "waiting"]
<1>1. /\ event[e].pc = "add" /\ h \in event[e].todo
      /\ event' = [event EXCEPT ![e] = v] /\ delivery' = [delivery EXCEPT ![d] = w]
      /\ UNCHANGED <<hook, post, slot, heard, hookMay>>
  BY DEF AddJob
<1>2. /\ d \in Change \X Hook /\ GoodDelivery(d) /\ delivery[d] \in Delivery
      /\ heard \in [Change \X Hook -> [Tries -> Nat]]
      /\ delivery \in [Change \X Hook -> Delivery]
      /\ event \in [Change -> Dispatching] /\ event[e] \in Dispatching /\ GoodEvent(e)
  BY DEF DeliveryInv, HookTypeOK, Tries
<1>3. delivery[d].status = "none"
  BY <1>1, <1>2 DEF GoodEvent
<1>4. /\ v \in Dispatching /\ v.wallet = event[e].wallet /\ v.found = event[e].found
      /\ v.todo = rest /\ v.pc \in {"add", "done"} /\ (v.pc = "done" => rest = {})
  BY <1>2 DEF Dispatching
<1>5. /\ w \in Delivery /\ w.status = "waiting" /\ w.made = delivery[d].made
      /\ w.stalls = delivery[d].stalls /\ w.stalls \in Nat /\ w.made \in Nat
  BY <1>2, WebhooksAssumption DEF Delivery
<1> HIDE DEF v, w
<1>6. /\ event' \in [Change -> Dispatching] /\ event'[e] = v
      /\ \A f \in Change : f # e => event'[f] = event[f]
  BY <1>1, <1>2, <1>4
<1>7. /\ delivery' \in [Change \X Hook -> Delivery] /\ delivery'[d] = w
      /\ \A c \in Change \X Hook : c # d => delivery'[c] = delivery[c]
  BY <1>1, <1>2, <1>5
<1>8. HookTypeOK'
  BY <1>1, <1>6, <1>7 DEF DeliveryInv, HookTypeOK
<1>9. ASSUME NEW f \in Change PROVE GoodEvent(f)'
  <2>1. CASE f # e
    <3>1. \A g \in Hook : <<f, g>> \in Change \X Hook /\ <<f, g>> # d
      BY <2>1
    <3>2. \A g \in Hook : delivery'[<<f, g>>] = delivery[<<f, g>>]
      BY <3>1, <1>7
    <3>3. event'[f] = event[f] /\ GoodEvent(f)
      BY <1>6, <2>1 DEF DeliveryInv
    <3>4. QED
      BY <1>1, <3>2, <3>3, KeepEvent
  <2>2. CASE f = e
    <3>1. \A g \in Hook : g # h => delivery'[<<e, g>>] = delivery[<<e, g>>]
      BY <1>7
    <3>2. h \in event[e].found
      BY <1>1, <1>2 DEF GoodEvent
    <3>3. \A g \in Hook : g \in rest <=> g \in event[e].todo /\ g # h
      OBVIOUS
    <3> HIDE DEF rest
    <3>4. /\ v.wallet \in Wallet /\ v.todo \subseteq v.found
          /\ \A g \in v.found : hook'[g].owner = v.wallet
      BY <1>1, <1>2, <1>4 DEF GoodEvent, rest
    <3>5. ASSUME NEW g \in Hook
          PROVE  /\ g \notin v.found => delivery'[<<e, g>>].status = "none"
                 /\ v.pc = "add" /\ g \in v.todo => delivery'[<<e, g>>].status = "none"
                 /\ /\ g \in v.found /\ Spared({"redis", "crash"})
                    /\ v.pc = "add" => g \notin v.todo
                    => delivery'[<<e, g>>].status # "none"
      <4>1. CASE g = h
        BY <4>1, <1>4, <1>5, <1>7, <3>2, <3>3
      <4>2. CASE g # h
        <5>1. delivery'[<<e, g>>] = delivery[<<e, g>>]
          BY <3>1, <4>2
        <5>2. v.pc = "done" => g \notin event[e].todo
          BY <1>4, <3>3, <4>2
        <5>3. QED
          BY <1>1, <1>2, <1>4, <3>3, <4>2, <5>1, <5>2 DEF GoodEvent
      <4>3. QED
        BY <4>1, <4>2
    <3>6. QED
      BY <1>1, <1>4, <1>6, <2>2, <3>4, <3>5 DEF GoodEvent, Spared
  <2>3. QED
    BY <2>1, <2>2
<1> HIDE DEF d
<1>10. ASSUME NEW c \in Change \X Hook PROVE GoodDelivery(c)'
  <2>1. CASE c = d
    <3>1. Repeats(d)' = Repeats(d) /\ Repeats(d) \in Nat /\ heard'[d] = heard[d]
      BY <1>1, <1>5, <1>7 DEF Repeats, Spared
    <3>2. \A n \in Tries : heard[d][n] = 0
      BY <1>2, <1>3 DEF GoodDelivery
    <3>3. delivery[d].made < HookAttempts
      BY <1>2, <1>3 DEF GoodDelivery
    <3>4. w.made + 1 \in Tries
      BY <1>5, <3>3, WebhooksAssumption DEF Tries
    <3>5. GoodDelivery(d)'
      BY <1>1, <1>5, <1>7, <3>1, <3>2, <3>3, <3>4 DEF GoodDelivery
    <3>6. QED
      BY <2>1, <3>5
  <2>2. CASE c # d
    BY <1>1, <1>7, <2>2, KeepDelivery DEF DeliveryInv
  <2>3. QED
    BY <2>1, <2>2
<1>11. ASSUME NEW s \in Slot PROVE GoodSlot(s)'
  <2>1. GoodSlot(s)
    BY DEF DeliveryInv
  <2>2. Running(s) => delivery'[On(s)] = delivery[On(s)]
    BY <1>3, <1>7, <2>1 DEF GoodSlot
  <2>3. QED
    BY <1>1, <2>1, <2>2, KeepSlot
<1>12. Alone'
  BY <1>1 DEF DeliveryInv, Alone, Running, On
<1>13. Attended'
  BY <1>1, <1>5, <1>7 DEF DeliveryInv, Attended, Spared, Running, On
<1>14. QED
  BY <1>8, <1>9, <1>10, <1>11, <1>12, <1>13 DEF DeliveryInv
-----------------------------------------------------------------------------
(***************************************************************************)
(* The invariant and what follows from it.                                 *)
(***************************************************************************)
LEMMA DeliveryInitInv == HookInit => DeliveryInv
<1> SUFFICES ASSUME HookInit PROVE DeliveryInv
  OBVIOUS
<1>1. HookTypeOK
  <2>1. Free \in Work
    BY DEF Free, Work
  <2>2. hook \in [Hook -> HookRow] /\ post \in [Post -> Posting]
    BY DEF HookInit, HookRow, Posting
  <2>3. event \in [Change -> Dispatching]
    BY DEF HookInit, Dispatching
  <2>4. delivery \in [Change \X Hook -> Delivery]
    <3>1. [status |-> "none", made |-> 0, stalls |-> 0] \in Delivery
      BY WebhooksAssumption DEF Delivery
    <3>2. QED
      BY <3>1 DEF HookInit
  <2>5. heard \in [Change \X Hook -> [1..HookAttempts -> Nat]]
    BY DEF HookInit
  <2>6. QED
    BY <2>1, <2>2, <2>3, <2>4, <2>5 DEF HookInit, HookTypeOK
<1>2. \A s \in Slot : ~Running(s)
  BY DEF HookInit, Free, Running
<1>3. \A d \in Change \X Hook : /\ delivery[d].status = "none"
                                /\ delivery[d].made = 0 /\ delivery[d].stalls = 0
                                /\ heard[d] = [n \in 1..HookAttempts |-> 0]
  BY DEF HookInit
<1>4. ASSUME NEW d \in Change \X Hook PROVE GoodDelivery(d)
  <2>1. \A n \in Tries : heard[d][n] = 0
    BY <1>3 DEF Tries
  <2>2. delivery[d].status = "none" /\ delivery[d].made < HookAttempts
    BY <1>3, WebhooksAssumption
  <2>3. Repeats(d) = 0
    BY <1>3 DEF Repeats
  <2>4. QED
    BY <2>1, <2>2, <2>3 DEF GoodDelivery
<1>5. ASSUME NEW e \in Change PROVE GoodEvent(e)
  <2>1. event[e].pc = "none" /\ event[e].found = {} /\ event[e].todo = {}
    BY DEF HookInit
  <2>2. \A h \in Hook : delivery[<<e, h>>].status = "none"
    BY <1>3
  <2>3. QED
    BY <2>1, <2>2 DEF GoodEvent
<1>6. Alone /\ Attended
  BY <1>2, <1>3 DEF Alone, Attended
<1>7. QED
  BY <1>1, <1>2, <1>4, <1>5, <1>6 DEF DeliveryInv, GoodSlot

LEMMA DeliveryInvStep ==
  RegInv /\ RegInv' /\ DeliveryInv /\ [HookNext]_hookVars => DeliveryInv'
<1> SUFFICES ASSUME RegInv, RegInv', DeliveryInv, [HookNext]_hookVars
    PROVE  DeliveryInv'
  OBVIOUS
<1>1. CASE UNCHANGED <<event, delivery, slot, heard, hookMay>>
  BY <1>1, TableStep
<1>2. ASSUME NEW p \in Post, PostStep(p) \/ \E x \in Headers : Register(p, x)
      PROVE  UNCHANGED <<event, delivery, slot, heard, hookMay>>
  BY <1>2 DEF PostStep, validateWebhookUrl, CountActive, InsertHook, Register
<1>3. ASSUME NEW h \in Hook, NEW x \in Headers, Delete(h, x)
      PROVE  UNCHANGED <<event, delivery, slot, heard, hookMay>>
  BY <1>3 DEF Delete
<1>4. ASSUME NEW e \in Change, DispatchStep(e) \/ \E w \in Wallet : StateChanged(e, w)
      PROVE  DeliveryInv'
  BY <1>4, SelectActiveInv, GiveUpInv, AddJobInv, StateChangedInv DEF DispatchStep
<1>5. ASSUME NEW s \in Slot, SlotStep(s) \/ WorkerDies(s)
      PROVE  DeliveryInv'
  BY <1>5, LoadHookInv, ResolveInv, PostPayloadInv, CompleteDeliveryInv,
     FailDeliveryInv, WorkerDiesInv DEF SlotStep
<1>6. ASSUME NEW s \in Slot, NEW e \in Change, NEW h \in Hook, TakeDelivery(s, e, h)
      PROVE  DeliveryInv'
  BY <1>6, TakeDeliveryInv
<1>7. ASSUME NEW e \in Change, NEW h \in Hook, StalledDelivery(e, h)
      PROVE  DeliveryInv'
  BY <1>7, StalledDeliveryInv
<1>8. UNCHANGED hookVars => UNCHANGED <<event, delivery, slot, heard, hookMay>>
  BY DEF hookVars
<1>9. QED
  BY <1>1, <1>2, <1>3, <1>4, <1>5, <1>6, <1>7, <1>8 DEF HookNext

LEMMA DeliveriesStay == HookSpec => [](RegInv /\ DeliveryInv)
<1>1. HookInit => RegInv /\ DeliveryInv
  BY HookInitInv, DeliveryInitInv
<1>2. RegInv /\ DeliveryInv /\ [HookNext]_hookVars => (RegInv /\ DeliveryInv)'
  BY RegInvStep, DeliveryInvStep
<1>3. QED
  BY <1>1, <1>2, PTL DEF HookSpec

\* The tables, requests and jobs stay well formed.
THEOREM HookTypeCorrect == HookSpec => []HookTypeOK
<1>1. DeliveryInv => HookTypeOK
  BY DEF DeliveryInv
<1>2. QED
  BY <1>1, DeliveriesStay, PTL

LEMMA GoodIsDistinct == DeliveryInv => AttemptsAreDistinct
<1> SUFFICES ASSUME DeliveryInv, NEW e \in Change, NEW h \in Hook,
                    NEW n \in 1..HookAttempts, heard[<<e, h>>][n] > 0
    PROVE  /\ hook[h].owner = event[e].wallet /\ h \in event[e].found
           /\ n <= delivery[<<e, h>>].made + 1
           /\ heard[<<e, h>>][n] <= 1 + (IF Spared({"crash"}) THEN 0 ELSE delivery[<<e, h>>].stalls)
  BY DEF AttemptsAreDistinct
<1>1. GoodDelivery(<<e, h>>) /\ n \in Tries /\ heard[<<e, h>>][n] # 0
  BY DEF DeliveryInv, Tries
<1>2. delivery[<<e, h>>].status # "none" /\ ~(n > delivery[<<e, h>>].made + 1)
      /\ heard[<<e, h>>][n] <= 1 + Repeats(<<e, h>>)
  BY <1>1 DEF GoodDelivery
<1>3. delivery[<<e, h>>].made \in Nat
  BY WebhooksAssumption DEF DeliveryInv, HookTypeOK, Delivery
<1>4. QED
  BY <1>2, <1>3, Owned DEF Repeats

\* delivery_id and attempt tell the deliveries of webhookDispatcher.ts apart,
\* whatever fails; only a worker that dies makes an attempt anew.
THEOREM DeliveriesAreDistinct == HookSpec => []AttemptsAreDistinct
<1>1. QED
  BY GoodIsDistinct, DeliveriesStay, PTL

LEMMA GoodIsHeard == DeliveryInv => HeardOrGivenUp
<1> SUFFICES ASSUME DeliveryInv, NEW e \in Change, NEW h \in Hook
    PROVE  /\ event[e].pc = "done" /\ h \in event[e].found /\ Spared({"redis", "crash"})
                => delivery[<<e, h>>].status # "none"
           /\ delivery[<<e, h>>].status = "completed" =>
                \E n \in 1..HookAttempts : heard[<<e, h>>][n] > 0
           /\ delivery[<<e, h>>].status = "failed" =>
                /\ \/ delivery[<<e, h>>].made = HookAttempts
                   \/ delivery[<<e, h>>].stalls = HookStalls /\ ~Spared({"crash"})
                /\ hook[h].active => hookMay \ {"redis"} # {}
  BY DEF HeardOrGivenUp
<1>1. GoodDelivery(<<e, h>>) /\ GoodEvent(e)
  BY DEF DeliveryInv
<1>2. event[e].pc = "done" /\ h \in event[e].found /\ Spared({"redis", "crash"})
        => delivery[<<e, h>>].status # "none"
  BY <1>1 DEF GoodEvent
<1>3. QED
  BY <1>1, <1>2 DEF GoodDelivery, Tries

\* Every webhook found active gets its delivery, and one that ends without an
\* answer had its attempts and a fault or a deletion to lose them to.
THEOREM DeliveriesAreKept == HookSpec => []HeardOrGivenUp
<1>1. QED
  BY GoodIsHeard, DeliveriesStay, PTL
=============================================================================
