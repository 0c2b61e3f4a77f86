-------------------------- MODULE McpServerProofs ---------------------------
(***************************************************************************)
(* Proofs about McpServer, for any contents, calls, confirmations, limits  *)
(* and faults.                                                             *)
(***************************************************************************)
EXTENDS McpServer, FiniteSetTheorems, TLAPS

List == Seq(Content)

\* Items are lists of any length here; a single call has one item, and only a
\* call at its records may be alone.
GoodCall ==
  {v \in [pc : {"idle", "verify", "record", "reply"}, batch : BOOLEAN,
          conf : Conf \cup {NoConf}, todo : List, new : List, dups : List,
          created : BOOLEAN, ok : Nat, alone : BOOLEAN] :
     /\ v.pc = "verify" /\ ~v.batch => Len(v.new) + Len(v.todo) <= 1
     /\ v.alone => v.pc \in {"record", "reply"}}

GoodPending ==
  {p \in [status : {"none", "pending", "expired"}, batch : BOOLEAN,
          new : List, dups : List] :
     p.status # "none" /\ ~p.batch => Len(p.new) <= 1}

TypeInv ==
  /\ log \in [Content -> Entry]
  /\ conf \in [Conf -> GoodPending]
  /\ call \in [Call -> GoodCall]

AloneInv ==
  \A k \in Call : call[k].alone => \A j \in Call \ {k} : ~Busy(j)

\* What the guardrails see of a call that runs alone: the ledger's day and the
\* items it has still to do.
LedgerAlone == \A k \in Call : call[k].alone => Within(Fresh + Len(call[k].todo), 0)

LimitIInv == TypeInv /\ AloneInv /\ LedgerAlone
-----------------------------------------------------------------------------
(***************************************************************************)
(* Calls and confirmations: what the steps make of them.                   *)
(***************************************************************************)
LEMMA IdleGood == Idle \in GoodCall /\ Idle.pc = "idle" /\ ~Idle.alone
BY DEF Idle, GoodCall, List

LEMMA NoPendingGood == NoPending \in GoodPending
BY DEF NoPending, GoodPending, List

LEMMA ContentsAreLists == \A s \in Contents : s \in List
<1> SUFFICES ASSUME NEW s \in Contents PROVE s \in List
  OBVIOUS
<1>1. PICK n \in 1 .. MaxBatch : s \in [1 .. n -> Content]
  BY DEF Contents
<1>2. n \in Nat
  BY <1>1, McpAssumption
<1>3. QED
  BY <1>1, <1>2 DEF List

LEMMA Replace ==
  ASSUME NEW k \in Call, NEW v \in GoodCall, call \in [Call -> GoodCall],
         call' = [call EXCEPT ![k] = v]
  PROVE  /\ call' \in [Call -> GoodCall]
         /\ call'[k] = v
         /\ \A j \in Call \ {k} : call'[j] = call[j]
OBVIOUS

LEMMA ListFacts ==
  /\ <<>> \in List /\ Len(<<>>) = 0
  /\ \A s \in List : Len(s) \in Nat
  /\ \A s \in List, c \in Content :
       Append(s, c) \in List /\ Len(Append(s, c)) = Len(s) + 1
  /\ \A s \in List : s # <<>> =>
       /\ Head(s) \in Content /\ Tail(s) \in List
       /\ Len(Tail(s)) = Len(s) - 1
BY DEF List

LEMMA OneItemLeft ==
  \A s, t \in List, c \in Content :
    t # <<>> /\ Len(s) + Len(t) <= 1 =>
      Len(Append(s, c)) + Len(Tail(t)) <= 1 /\ Len(s) + Len(Tail(t)) <= 1
BY ListFacts

\* The values a step of a call may give it.
LEMMA PrepareGood ==
  ASSUME NEW batch \in BOOLEAN, NEW s \in Contents, batch \/ Len(s) = 1
  PROVE  LET v == [Idle EXCEPT !.pc = "verify", !.batch = batch, !.todo = s]
         IN  v \in GoodCall /\ ~v.alone
<1>1. s \in List
  BY ContentsAreLists
<1>2. Len(s) = 1 => Len(<<>>) + Len(s) <= 1
  BY <1>1, ListFacts
<1>3. QED
  BY <1>1, <1>2, ListFacts DEF Idle, GoodCall

LEMMA VerifyGood ==
  ASSUME NEW v \in GoodCall, v.pc = "verify", v.todo # <<>>
  PROVE  LET c == Head(v.todo)
             n == [v EXCEPT !.todo = Tail(@), !.new = Append(@, c)]
             d == [v EXCEPT !.todo = Tail(@), !.dups = Append(@, c)]
         IN  n \in GoodCall /\ d \in GoodCall /\ ~n.alone /\ ~d.alone
<1> DEFINE c == Head(v.todo)  t == Tail(v.todo)
           nw == Append(v.new, c)  du == Append(v.dups, c)
<1>1. /\ v.todo \in List /\ v.new \in List /\ v.dups \in List /\ ~v.alone
      /\ v.batch \/ Len(v.new) + Len(v.todo) <= 1
  BY DEF GoodCall
<1>2. /\ c \in Content /\ t \in List /\ nw \in List /\ du \in List
      /\ Len(v.new) + Len(v.todo) <= 1 => /\ Len(nw) + Len(t) <= 1
                                          /\ Len(v.new) + Len(t) <= 1
  <2>1. c \in Content /\ t \in List
    BY <1>1, ListFacts
  <2>2. nw \in List /\ du \in List
    BY <1>1, <2>1, ListFacts
  <2>3. QED
    BY <1>1, <2>1, <2>2, OneItemLeft, Zenon
<1> HIDE DEF c, t, nw, du
<1>3. [v EXCEPT !.todo = t, !.new = nw] \in GoodCall
  BY <1>1, <1>2 DEF GoodCall
<1>4. [v EXCEPT !.todo = t, !.dups = du] \in GoodCall
  BY <1>1, <1>2 DEF GoodCall
<1>5. /\ ~[v EXCEPT !.todo = t, !.new = nw].alone
      /\ ~[v EXCEPT !.todo = t, !.dups = du].alone
  BY <1>1 DEF GoodCall
<1>6. QED
  BY <1>3, <1>4, <1>5 DEF c, t, nw, du
LEMMA AskGood ==
  ASSUME NEW v \in GoodCall, v.pc = "record", NEW told \in BOOLEAN
  PROVE  LET n == [v EXCEPT !.pc = "reply", !.created = told]
         IN  n \in GoodCall /\ n.alone = v.alone /\ n.todo = v.todo /\ n.pc = "reply"
BY DEF GoodCall

LEMMA GoOnGood ==
  ASSUME NEW v \in GoodCall, NEW ok \in Nat, Len(v.todo) > 1
  PROVE  LET n == [v EXCEPT !.pc = "record", !.created = FALSE,
                            !.todo = Tail(@), !.ok = ok]
         IN  n \in GoodCall /\ n.alone = v.alone /\ n.todo = Tail(v.todo)
             /\ n.pc = "record"
<1>1. v.todo \in List /\ Tail(v.todo) \in List
  <2>1. \A s \in List : Len(s) > 1 => s # <<>>
    BY ListFacts
  <2>2. QED
    BY <2>1, ListFacts DEF GoodCall
<1>2. QED
  BY <1>1 DEF GoodCall

Started(b, p, a) == [Idle EXCEPT !.pc = "record", !.conf = b, !.batch = p.batch,
                                 !.todo = p.new, !.alone = a]

LEMMA StartGood ==
  ASSUME NEW b \in Conf, NEW p \in GoodPending, NEW a \in BOOLEAN
  PROVE  /\ Started(b, p, a) \in GoodCall
         /\ Started(b, p, a).alone = a
         /\ Started(b, p, a).todo = p.new
         /\ Started(b, p, a).pc = "record"
BY ListFacts DEF Started, Idle, GoodCall, GoodPending

LEMMA NotAloneGood ==
  ASSUME NEW v \in GoodCall
  PROVE  LET n == [v EXCEPT !.alone = FALSE]
         IN  /\ n \in GoodCall /\ ~n.alone
             /\ n.pc = v.pc /\ n.todo = v.todo /\ n.created = v.created
BY DEF GoodCall

LEMMA OfferGood ==
  ASSUME NEW v \in GoodCall, v.pc = "verify", v.todo = <<>>
  PROVE  [status |-> "pending", batch |-> v.batch, new |-> v.new, dups |-> v.dups]
           \in GoodPending
<1>1. v.batch \/ Len(v.new) + Len(<<>>) <= 1
  BY DEF GoodCall
<1>2. \A s \in List : Len(s) + Len(<<>>) <= 1 => Len(s) <= 1
  BY ListFacts
<1>3. v.new \in List /\ v.dups \in List /\ v.batch \in BOOLEAN
  BY DEF GoodCall
<1>4. QED
  BY <1>1, <1>2, <1>3 DEF GoodPending
-----------------------------------------------------------------------------
(***************************************************************************)
(* What a step does to the calls: one of them waits or ends, asks for a    *)
(* record, goes on to its next item, or starts on its records.             *)
(***************************************************************************)
CallChanges(k) ==
  /\ call' \in [Call -> GoodCall]
  /\ \A j \in Call \ {k} : call'[j] = call[j]

Rests(k)  == CallChanges(k) /\ ~call'[k].alone /\ call'[k].pc \in {"idle", "verify"}
Asks(k)   == /\ CallChanges(k) /\ Busy(k) /\ call'[k].pc = "reply"
             /\ call'[k].alone = call[k].alone /\ call'[k].todo = call[k].todo
GoesOn(k) == /\ CallChanges(k) /\ Busy(k) /\ call'[k].pc = "record"
             /\ call'[k].alone = call[k].alone
             /\ Len(call[k].todo) > 1 /\ call'[k].todo = Tail(call[k].todo)
SameAnswer(j) == /\ call'[j].pc = call[j].pc /\ call'[j].todo = call[j].todo
                 /\ call'[j].created = call[j].created
Begins(k) == /\ call' \in [Call -> GoodCall] /\ At(k, "idle")
             /\ call'[k].pc = "record"
             /\ call'[k].alone => \A j \in Call : ~Busy(j)
             /\ Within(Fresh + Len(call'[k].todo), 0)
             /\ \E b \in Conf : conf[b].status = "pending" /\ call'[k].todo = conf[b].new
             /\ \A j \in Call \ {k} : ~call'[j].alone /\ SameAnswer(j)

MayLog == log' = log \/ \E c : log' = [log EXCEPT ![c] = "fresh"]

LEMMA ReturnRests ==
  ASSUME TypeInv, NEW k \in Call, Return(k) PROVE Rests(k)
BY IdleGood, Replace DEF TypeInv, Return, Rests, CallChanges

LEMMA PrepareEffect ==
  ASSUME TypeInv, NEW k \in Call, NEW batch \in BOOLEAN, NEW s \in Contents,
         Prepare(k, batch, s)
  PROVE  Rests(k)
<1> DEFINE v == [Idle EXCEPT !.pc = "verify", !.batch = batch, !.todo = s]
<1>1. batch \/ Len(s) = 1
  BY DEF Prepare
<1>2. v \in GoodCall /\ ~v.alone
  BY <1>1, PrepareGood
<1>3. v.pc = "verify"
  BY DEF Idle
<1>4. call' = [call EXCEPT ![k] = v]
  BY DEF Prepare
<1> HIDE DEF v
<1>5. QED
  BY <1>2, <1>3, <1>4, Replace DEF TypeInv, Rests, CallChanges

LEMMA VerifyEffect ==
  ASSUME TypeInv, NEW k \in Call, Verify(k) PROVE Rests(k)
<1> DEFINE v == call[k]
           n == [v EXCEPT !.todo = Tail(@), !.new = Append(@, Head(v.todo))]
           d == [v EXCEPT !.todo = Tail(@), !.dups = Append(@, Head(v.todo))]
<1>1. v \in GoodCall /\ v.pc = "verify" /\ v.todo # <<>>
  BY DEF Verify, At, TypeInv
<1>2. n \in GoodCall /\ d \in GoodCall /\ ~n.alone /\ ~d.alone
  BY <1>1, VerifyGood
<1>3. n.pc = "verify" /\ d.pc = "verify"
  BY <1>1 DEF GoodCall
<1>4. \/ call' = [call EXCEPT ![k] = n]
      \/ call' = [call EXCEPT ![k] = d]
      \/ Return(k)
  <2>1. [[call EXCEPT ![k].todo = Tail(@)] EXCEPT ![k].new = Append(@, Head(v.todo))]
          = [call EXCEPT ![k] = n]
    BY DEF TypeInv, GoodCall
  <2>2. [[call EXCEPT ![k].todo = Tail(@)] EXCEPT ![k].dups = Append(@, Head(v.todo))]
          = [call EXCEPT ![k] = d]
    BY DEF TypeInv, GoodCall
  <2> HIDE DEF n, d
  <2>3. QED
    BY <2>1, <2>2, Zenon DEF Verify
<1> HIDE DEF n, d
<1>5. QED
  BY <1>2, <1>3, <1>4, Replace, ReturnRests DEF TypeInv, Rests, CallChanges

LEMMA RecordHashEffect ==
  ASSUME TypeInv, NEW k \in Call, RecordHash(k) PROVE Asks(k)
<1>1. call[k] \in GoodCall /\ call[k].pc = "record"
  BY DEF RecordHash, At, TypeInv
<1>2. PICK told \in BOOLEAN :
        call' = [call EXCEPT ![k] = [call[k] EXCEPT !.pc = "reply", !.created = told]]
  BY DEF RecordHash, TypeInv
<1> DEFINE n == [call[k] EXCEPT !.pc = "reply", !.created = told]
<1>3. n \in GoodCall /\ n.alone = call[k].alone /\ n.todo = call[k].todo /\ n.pc = "reply"
  BY <1>1, AskGood
<1>4. call' = [call EXCEPT ![k] = n]
  BY <1>2
<1> HIDE DEF n
<1>5. QED
  BY <1>1, <1>3, <1>4, Replace DEF TypeInv, Asks, CallChanges, Busy
LEMMA SettledEffect ==
  ASSUME TypeInv, NEW k \in Call, At(k, "reply"),
         NEW logged \in BOOLEAN, NEW good \in BOOLEAN, Settled(k, logged, good)
  PROVE  MayLog /\ (Rests(k) \/ GoesOn(k))
<1> DEFINE ok == IF good THEN call[k].ok + 1 ELSE call[k].ok
           n == [call[k] EXCEPT !.pc = "record", !.created = FALSE,
                                !.todo = Tail(@), !.ok = ok]
<1>1. call[k] \in GoodCall /\ call[k].pc = "reply" /\ ok \in Nat
  <2>1. call[k] \in GoodCall /\ call[k].pc = "reply"
    BY DEF At, TypeInv
  <2>2. call[k].ok \in Nat
    BY <2>1 DEF GoodCall
  <2>3. call[k].ok + 1 \in Nat
    BY <2>2
  <2>4. QED
    BY <2>1, <2>2, <2>3, Zenon
<1>2. MayLog
  BY DEF Settled, MayLog
<1>3. CASE Len(call[k].todo) > 1
  <2>1. n \in GoodCall /\ n.alone = call[k].alone /\ n.todo = Tail(call[k].todo)
        /\ n.pc = "record"
    BY <1>1, <1>3, GoOnGood
  <2>2. call' = [call EXCEPT ![k] = n]
    BY <1>3 DEF Settled, TypeInv
  <2> HIDE DEF n
  <2>3. GoesOn(k)
    BY <1>1, <1>3, <2>1, <2>2, Replace DEF TypeInv, GoesOn, CallChanges, Busy
  <2>4. QED
    BY <1>2, <2>3
<1>4. CASE ~(Len(call[k].todo) > 1)
  <2>1. Return(k)
    BY <1>4 DEF Settled
  <2>2. QED
    BY <1>2, <2>1, ReturnRests
<1>5. QED
  BY <1>3, <1>4

LEMMA RecordEndsEffect ==
  ASSUME TypeInv, NEW k \in Call, RecordEnds(k)
  PROVE  MayLog /\ Busy(k) /\ (Rests(k) \/ GoesOn(k))
<1>1. At(k, "reply") /\ Busy(k) /\ call[k] \in GoodCall
  BY DEF RecordEnds, At, Busy, TypeInv
<1>2. call[k].created \in BOOLEAN /\ call[k].batch \in BOOLEAN
  BY <1>1 DEF GoodCall
<1>3. CASE \E logged, good \in BOOLEAN : Settled(k, logged, good)
  BY <1>1, <1>3, SettledEffect
<1>4. CASE \E logged \in BOOLEAN : LedgerGone(k, logged)
  <2>1. Return(k) /\ MayLog
    BY <1>4 DEF LedgerGone, MayLog
  <2>2. QED
    BY <1>1, <2>1, ReturnRests
<1>5. QED
  BY <1>2, <1>3, <1>4 DEF RecordEnds

(***************************************************************************)
(* The limits.                                                             *)
(***************************************************************************)
LEMMA FreshNat == IsFiniteSet({c \in Content : log[c] = "fresh"}) /\ Fresh \in Nat
<1>1. IsFiniteSet({c \in Content : log[c] = "fresh"})
  BY McpAssumption, FS_Subset
<1>2. QED
  BY <1>1, FS_CardinalityType DEF Fresh

LEMMA TimesMono == \A m, n, c \in Nat : m <= n => m * c <= n * c
BY SMT

LEMMA WithinZero ==
  \A n \in Nat : Within(n, 0) <=> n <= MaxRecords /\ n * (Fee + Gas) <= MaxSpend
<1>1. MaxRecords \in Nat /\ MaxSpend \in Nat /\ Fee + Gas \in Nat
  BY McpAssumption
<1>2. MaxRecords + 0 = MaxRecords /\ MaxSpend + 0 * (Fee + Gas) = MaxSpend
  BY <1>1
<1>3. QED
  BY <1>2 DEF Within

LEMMA WithinMono ==
  ASSUME NEW m \in Nat, NEW n \in Nat, m <= n, Within(n, 0)
  PROVE  Within(m, 0)
<1>1. Fee + Gas \in Nat /\ MaxRecords \in Nat /\ MaxSpend \in Nat
  BY McpAssumption
<1> DEFINE p == m * (Fee + Gas)  q == n * (Fee + Gas)
<1>2. p <= q /\ p \in Nat /\ q \in Nat
  BY <1>1, TimesMono
<1>3. n <= MaxRecords /\ q <= MaxSpend
  BY WithinZero
<1>4. m <= MaxRecords
  BY <1>1, <1>3
<1> HIDE DEF p, q
<1>5. p <= MaxSpend
  BY <1>1, <1>2, <1>3
<1>6. QED
  BY <1>4, <1>5, WithinZero DEF p

LEMMA GuardedWithin ==
  ASSUME TypeInv, NEW b \in Conf, conf[b].status = "pending",
         Allowed(conf[b].batch, Len(conf[b].new))
  PROVE  Within(Fresh + Len(conf[b].new), 0)
<1> DEFINE n == Len(conf[b].new)
<1>1. conf[b] \in GoodPending
  BY DEF TypeInv
<1>2. conf[b].new \in List /\ (conf[b].batch \/ n <= 1)
  BY <1>1 DEF GoodPending
<1>3. n \in Nat /\ Fresh \in Nat
  BY <1>2, ListFacts, FreshNat
<1> HIDE DEF n
<1>4. CASE conf[b].batch
  <2>1. checkBatchGuardrails(n)
    BY <1>4 DEF Allowed, n
  <2>2. QED
    BY <1>3, <2>1, WithinZero DEF checkBatchGuardrails, n
<1>5. CASE ~conf[b].batch
  <2>1. checkGuardrails /\ n <= 1
    BY <1>2, <1>5 DEF Allowed
  <2>2. Within(Fresh + 1, 0)
    <3>1. Fresh + 1 <= MaxRecords
      BY <1>3, <2>1, McpAssumption DEF checkGuardrails
    <3>2. QED
      BY <1>3, <2>1, <3>1, WithinZero DEF checkGuardrails
  <2>3. Fresh + n <= Fresh + 1 /\ Fresh + n \in Nat /\ Fresh + 1 \in Nat
    BY <1>3, <2>1
  <2>4. QED
    BY <2>2, <2>3, WithinMono DEF n
<1>6. QED
  BY <1>4, <1>5

LEMMA ConfirmEffect ==
  ASSUME TypeInv, NEW k \in Call, NEW b \in Conf, Confirm(k, b)
  PROVE  Rests(k) \/ Begins(k)
<1>1. \/ Return(k)
      \/ /\ Starts(k, b) /\ conf[b].status = "pending"
         /\ Allowed(conf[b].batch, Len(conf[b].new))
  BY DEF Confirm
<1>2. CASE Return(k)
  BY <1>2, ReturnRests
<1>3. CASE /\ Starts(k, b) /\ conf[b].status = "pending"
           /\ Allowed(conf[b].batch, Len(conf[b].new))
  <2> DEFINE a == \A i \in Call : ~Busy(i)
             v == Started(b, conf[b], a)
  <2>1. v \in GoodCall /\ v.alone = a /\ v.todo = conf[b].new /\ v.pc = "record"
    <3>1. a \in BOOLEAN /\ conf[b] \in GoodPending
      BY DEF TypeInv
    <3> HIDE DEF a
    <3>2. QED
      BY <3>1, StartGood
  <2>2. \A j \in Call :
          LET n == [call[j] EXCEPT !.alone = FALSE]
          IN  /\ n \in GoodCall /\ ~n.alone
              /\ n.pc = call[j].pc /\ n.todo = call[j].todo /\ n.created = call[j].created
    BY NotAloneGood DEF TypeInv
  <2>3. call' = [j \in Call |-> IF j # k THEN [call[j] EXCEPT !.alone = FALSE] ELSE v]
    BY <1>3, Zenon DEF Starts, Started
  <2>4. Within(Fresh + Len(conf[b].new), 0)
    BY <1>3, GuardedWithin
  <2> HIDE DEF v
  <2>5. call' \in [Call -> GoodCall] /\ call'[k] = v
    BY <2>1, <2>2, <2>3
  <2>6. \A j \in Call \ {k} : ~call'[j].alone /\ SameAnswer(j)
    BY <2>2, <2>3 DEF SameAnswer
  <2>7. At(k, "idle")
    BY DEF Confirm
  <2>8. QED
    BY <1>3, <2>1, <2>4, <2>5, <2>6, <2>7 DEF Begins
<1>4. QED
  BY <1>1, <1>2, <1>3
-----------------------------------------------------------------------------
(***************************************************************************)
(* The steps by what they do to the calls and to the ledger.               *)
(***************************************************************************)
Stays  == call' = call \/ call' = [k \in Call |-> Idle]
AgesOr == log' = log \/ \E c \in Content : log' = [log EXCEPT ![c] = "old"]

LEMMA StepKinds ==
  ASSUME TypeInv, [Next]_vars
  PROVE  \/ \E k \in Call : log' = log /\ (Rests(k) \/ Asks(k) \/ Begins(k))
         \/ \E k \in Call : MayLog /\ Busy(k) /\ (Rests(k) \/ GoesOn(k))
         \/ Stays /\ AgesOr
<1>1. CASE \E k \in Call : CallStep(k)
  <2>1. PICK k \in Call : CallStep(k)
    BY <1>1
  <2>2. CASE Verify(k)
    BY <2>2, VerifyEffect DEF Verify
  <2>3. CASE PrepareEnds(k)
    BY <2>3, ReturnRests DEF PrepareEnds
  <2>4. CASE RecordHash(k)
    BY <2>4, RecordHashEffect DEF RecordHash
  <2>5. CASE RecordEnds(k)
    BY <2>5, RecordEndsEffect
  <2>6. QED
    BY <2>1, <2>2, <2>3, <2>4, <2>5 DEF CallStep
<1>2. CASE \E k \in Call, batch \in BOOLEAN, s \in Contents : Prepare(k, batch, s)
  BY <1>2, PrepareEffect DEF Prepare
<1>3. CASE \E k \in Call, b \in Conf : Confirm(k, b)
  BY <1>3, ConfirmEffect DEF Confirm
<1>4. CASE \E b \in Conf : Expires(b)
  BY <1>4 DEF Expires, Stays, AgesOr
<1>5. CASE \E c \in Content : Ages(c) \/ Elsewhere(c)
  BY <1>5 DEF Ages, Elsewhere, Stays, AgesOr, TypeInv
<1>6. CASE (\E batch \in BOOLEAN : Collect(batch)) \/ FeeAges \/ Restart
  BY <1>6 DEF Collect, FeeAges, Restart, Stays, AgesOr
<1>7. CASE UNCHANGED vars
  BY <1>7 DEF vars, Stays, AgesOr
<1>8. QED
  BY <1>1, <1>2, <1>3, <1>4, <1>5, <1>6, <1>7 DEF Next

LEMMA ConfStep ==
  ASSUME TypeInv, [Next]_vars PROVE conf' \in [Conf -> GoodPending]
<1> USE DEF TypeInv
<1>1. CASE \E k \in Call : PrepareEnds(k)
  <2>1. PICK k \in Call : PrepareEnds(k)
    BY <1>1
  <2> DEFINE p == [status |-> "pending", batch |-> call[k].batch,
                   new |-> call[k].new, dups |-> call[k].dups]
  <2>2. p \in GoodPending
    BY <2>1, OfferGood DEF PrepareEnds, At
  <2>3. conf' = conf \/ \E b \in Conf : conf' = [conf EXCEPT ![b] = p]
    BY <2>1 DEF PrepareEnds, Unused
  <2> HIDE DEF p
  <2>4. QED
    BY <2>2, <2>3
<1>2. CASE \E k \in Call, b \in Conf : Confirm(k, b)
  BY <1>2, NoPendingGood DEF Confirm, Consume
<1>3. CASE \E b \in Conf : Expires(b)
  <2>1. PICK b \in Conf : Expires(b)
    BY <1>3
  <2>2. conf' = [conf EXCEPT ![b] = [conf[b] EXCEPT !.status = "expired"]]
    BY <2>1 DEF Expires
  <2>3. [conf[b] EXCEPT !.status = "expired"] \in GoodPending
    <3>1. conf[b] \in GoodPending /\ conf[b].status # "none"
      BY <2>1 DEF Expires
    <3>2. QED
      BY <3>1 DEF GoodPending
  <2>4. QED
    BY <2>2, <2>3
<1>4. CASE \E batch \in BOOLEAN : Collect(batch)
  BY <1>4, NoPendingGood DEF Collect
<1>5. CASE Restart
  BY <1>5, NoPendingGood DEF Restart
<1>6. CASE conf' = conf
  BY <1>6
<1>7. QED
  BY <1>1, <1>2, <1>3, <1>4, <1>5, <1>6
  DEF Next, CallStep, Verify, RecordHash, RecordEnds, Prepare, Ages, FeeAges,
      Elsewhere, vars

LEMMA TypeStep == ASSUME TypeInv, [Next]_vars PROVE TypeInv'
<1>1. log' \in [Content -> Entry]
  <2>1. MayLog \/ AgesOr
    BY StepKinds DEF MayLog
  <2>2. QED
    BY <2>1 DEF MayLog, AgesOr, TypeInv, Entry
<1>2. call' \in [Call -> GoodCall]
  <2>1. CASE Stays
    BY <2>1, IdleGood DEF Stays, TypeInv
  <2>2. CASE ~Stays
    BY <2>2, StepKinds, Zenon DEF Rests, Asks, GoesOn, Begins, CallChanges
  <2>3. QED
    BY <2>1, <2>2
<1>3. QED
  BY <1>1, <1>2, ConfStep DEF TypeInv

LEMMA AloneStep ==
  ASSUME TypeInv, AloneInv, [Next]_vars PROVE AloneInv'
<1> SUFFICES ASSUME NEW k \in Call, call'[k].alone, NEW j \in Call \ {k}
             PROVE  ~Busy(j)'
  BY DEF AloneInv
<1>1. CASE Stays
  BY <1>1, IdleGood DEF Stays, AloneInv, Busy
<1>2. CASE \E i \in Call : Rests(i)
  BY <1>2 DEF Rests, CallChanges, AloneInv, Busy
<1>3. CASE \E i \in Call : Asks(i) \/ GoesOn(i)
  BY <1>3 DEF Asks, GoesOn, CallChanges, AloneInv, Busy
<1>4. CASE \E i \in Call : Begins(i)
  BY <1>4 DEF Begins, SameAnswer, Busy
<1>5. QED
  BY <1>1, <1>2, <1>3, <1>4, StepKinds

\* An entry made today adds at most one to the day's count; one that grows old
\* takes nothing from what is left of it.
LEMMA FreshGrows ==
  ASSUME TypeInv, MayLog PROVE Fresh' \in Nat /\ Fresh' <= Fresh + 1
<1> DEFINE F == {c \in Content : log[c] = "fresh"}
           G == {c \in Content : log'[c] = "fresh"}
<1>1. IsFiniteSet(F) /\ Cardinality(F) \in Nat
  BY FreshNat, FS_CardinalityType
<1>2. CASE log' = log
  <2>1. G = F
    BY <1>2
  <2>2. QED
    BY <1>1, <2>1 DEF Fresh
<1>3. CASE \E c : log' = [log EXCEPT ![c] = "fresh"]
  <2>1. PICK c : log' = [log EXCEPT ![c] = "fresh"]
    BY <1>3
  <2>2. G \subseteq F \cup {c}
    BY <2>1 DEF TypeInv
  <2>3. /\ IsFiniteSet(F \cup {c})
        /\ Cardinality(F \cup {c}) = Cardinality(F)
           \/ Cardinality(F \cup {c}) = Cardinality(F) + 1
    BY <1>1, FS_AddElement
  <2>4. IsFiniteSet(G) /\ Cardinality(G) <= Cardinality(F \cup {c})
    BY <2>2, <2>3, FS_Subset
  <2>5. Cardinality(G) \in Nat
    BY <2>4, FS_CardinalityType
  <2> HIDE DEF F, G
  <2>6. Cardinality(G) <= Cardinality(F) + 1
    BY <1>1, <2>3, <2>4, <2>5
  <2>7. QED
    BY <2>5, <2>6 DEF Fresh, F, G
<1>4. QED
  BY <1>2, <1>3 DEF MayLog

LEMMA FreshFalls ==
  ASSUME TypeInv, AgesOr PROVE Fresh' \in Nat /\ Fresh' <= Fresh
<1> DEFINE F == {c \in Content : log[c] = "fresh"}
           G == {c \in Content : log'[c] = "fresh"}
<1>1. G \subseteq F
  BY DEF TypeInv, AgesOr
<1>2. IsFiniteSet(F)
  BY FreshNat
<1>3. IsFiniteSet(G) /\ Cardinality(G) <= Cardinality(F)
  BY <1>1, <1>2, FS_Subset
<1>4. Cardinality(G) \in Nat
  BY <1>3, FS_CardinalityType
<1>5. QED
  BY <1>3, <1>4 DEF Fresh

LEMMA LimitStep ==
  ASSUME LimitIInv, [Next]_vars PROVE LedgerAlone'
<1> SUFFICES ASSUME NEW k \in Call, call'[k].alone
             PROVE  Within(Fresh' + Len(call'[k].todo), 0)
  BY DEF LedgerAlone, Within
<1>1. TypeInv /\ AloneInv /\ LedgerAlone
  BY DEF LimitIInv
<1>2. /\ Fresh \in Nat
      /\ call[k] \in GoodCall /\ call[k].todo \in List /\ Len(call[k].todo) \in Nat
  BY <1>1, FreshNat, ListFacts DEF TypeInv, GoodCall
<1>3. call[k].alone => Within(Fresh + Len(call[k].todo), 0)
  BY <1>1 DEF LedgerAlone
<1>4. CASE Stays /\ AgesOr
  <2>1. call' = call
    BY <1>4, IdleGood DEF Stays
  <2>2. Fresh' \in Nat /\ Fresh' <= Fresh
    BY <1>1, <1>4, FreshFalls
  <2> DEFINE m == Fresh' + Len(call[k].todo)  n == Fresh + Len(call[k].todo)
  <2>3. m \in Nat /\ n \in Nat /\ m <= n
    BY <1>2, <2>2, SMTT(30)
  <2> HIDE DEF m, n
  <2>4. Within(m, 0)
    BY <1>3, <2>1, <2>3, WithinMono DEF n
  <2>5. QED
    BY <2>1, <2>4 DEF m
<1>5. CASE \E i \in Call : log' = log /\ (Rests(i) \/ Asks(i))
  <2>1. Fresh' = Fresh
    BY <1>5 DEF Fresh
  <2>2. call[k].alone /\ call'[k].todo = call[k].todo
    BY <1>5 DEF Rests, Asks, CallChanges
  <2>3. QED
    BY <1>3, <2>1, <2>2
<1>6. CASE \E i \in Call : log' = log /\ Begins(i)
  <2>1. Fresh' = Fresh
    BY <1>6 DEF Fresh
  <2>2. Within(Fresh + Len(call'[k].todo), 0)
    BY <1>6 DEF Begins
  <2>3. QED
    BY <2>1, <2>2
<1>7. CASE \E i \in Call : MayLog /\ Busy(i) /\ (Rests(i) \/ GoesOn(i))
  <2>1. call[k].alone /\ GoesOn(k)
    BY <1>1, <1>7 DEF Rests, GoesOn, CallChanges, AloneInv
  <2>2. Fresh' \in Nat /\ Fresh' <= Fresh + 1
    BY <1>1, <1>7, FreshGrows
  <2>3. /\ call'[k].todo = Tail(call[k].todo)
        /\ Len(Tail(call[k].todo)) = Len(call[k].todo) - 1
        /\ Len(call[k].todo) > 1
    <3>1. \A s \in List : Len(s) > 1 => Len(Tail(s)) = Len(s) - 1
      <4>1. \A s \in List : Len(s) > 1 => s # <<>>
        BY ListFacts
      <4>2. QED
        BY <4>1, ListFacts
    <3>2. QED
      BY <1>2, <2>1, <3>1 DEF GoesOn
  <2> DEFINE l == Len(call[k].todo)  l1 == Len(call'[k].todo)
  <2>4. l \in Nat /\ l > 1 /\ l1 = l - 1
    BY <1>2, <2>3
  <2>5. Within(Fresh + l, 0)
    BY <1>3, <2>1
  <2> HIDE DEF l, l1
  <2>6. Fresh' + l1 \in Nat /\ Fresh + l \in Nat /\ Fresh' + l1 <= Fresh + l
    <3>1. \A f, g, n, m \in Nat :
            g <= f + 1 /\ n > 1 /\ m = n - 1 =>
              g + m \in Nat /\ f + n \in Nat /\ g + m <= f + n
      OBVIOUS
    <3>2. l1 \in Nat
      BY <2>4
    <3>3. QED
      BY <1>2, <2>2, <2>4, <3>1, <3>2, Zenon
  <2>7. Within(Fresh' + l1, 0)
    BY <2>5, <2>6, WithinMono
  <2>8. QED
    BY <2>7 DEF l1
<1>8. QED
  BY <1>1, <1>4, <1>5, <1>6, <1>7, StepKinds

LEMMA LimitInit == Init => LimitIInv
<1> SUFFICES ASSUME Init PROVE LimitIInv
  OBVIOUS
<1>1. TypeInv
  BY IdleGood, NoPendingGood DEF Init, TypeInv, Entry
<1>2. \A k \in Call : ~call[k].alone
  BY IdleGood DEF Init
<1>3. QED
  BY <1>1, <1>2 DEF LimitIInv, AloneInv, LedgerAlone

LEMMA LimitAlways == Spec => []LimitIInv
<1>1. LimitIInv /\ [Next]_vars => LimitIInv'
  BY TypeStep, AloneStep, LimitStep DEF LimitIInv
<1>2. QED
  BY LimitInit, <1>1, PTL DEF Spec
-----------------------------------------------------------------------------
(***************************************************************************)
(* The ledger.                                                             *)
(***************************************************************************)
\* A confirmation offers something, and a call at its records has one to make.
WorkInv ==
  /\ \A b \in Conf : conf[b].status # "none" => conf[b].new # <<>>
  /\ \A k \in Call : Busy(k) => call[k].todo # <<>>

\* What is spent today is in the ledger's day, or about to be.
TodayInv ==
  /\ "fee" \notin may => dropped = 0
  /\ Without({"crash", "lost", "ledger"}) =>
       \A c \in today : log[c] = "fresh" \/ Logging(c)

LedgerIInv == /\ TypeInv /\ WorkInv /\ mine \subseteq Content /\ LedgerIsComplete
              /\ today \subseteq Content /\ TodayInv

LEMMA OffersStep ==
  ASSUME TypeInv, WorkInv, [Next]_vars
  PROVE  \A b \in Conf : conf'[b].status # "none" => conf'[b].new # <<>>
<1> USE DEF TypeInv, WorkInv
<1>1. CASE \E k \in Call : PrepareEnds(k)
  <2>1. \/ conf' = conf
        \/ \E b \in Conf : \E s, p : s # <<>> /\ p.new = s /\ conf' = [conf EXCEPT ![b] = p]
    BY <1>1 DEF PrepareEnds, Unused
  <2>2. QED
    BY <2>1
<1>2. CASE \E k \in Call, b \in Conf : Confirm(k, b)
  BY <1>2 DEF Confirm, Consume, NoPending
<1>3. CASE \E b \in Conf : Expires(b)
  BY <1>3 DEF Expires, GoodPending
<1>4. CASE \E batch \in BOOLEAN : Collect(batch)
  BY <1>4 DEF Collect, NoPending
<1>5. CASE Restart
  BY <1>5 DEF Restart, NoPending
<1>6. CASE conf' = conf
  BY <1>6
<1>7. QED
  BY <1>1, <1>2, <1>3, <1>4, <1>5, <1>6
  DEF Next, CallStep, Verify, RecordHash, RecordEnds, Prepare, Ages, FeeAges,
      Elsewhere, vars

LEMMA WorkStep ==
  ASSUME TypeInv, WorkInv, [Next]_vars PROVE WorkInv'
<1>1. ASSUME NEW k \in Call, Busy(k)' PROVE call'[k].todo # <<>>
  <2>1. CASE Stays
    BY <1>1, <2>1, IdleGood DEF Stays, WorkInv, Busy
  <2>2. CASE \E i \in Call : Rests(i) \/ Asks(i)
    BY <1>1, <2>2 DEF Rests, Asks, CallChanges, WorkInv, Busy
  <2>3. CASE \E i \in Call : GoesOn(i)
    <3>1. PICK i \in Call : GoesOn(i)
      BY <2>3
    <3>2. CASE k = i
      <4>1. call[k].todo \in List
        BY DEF TypeInv, GoodCall
      <4>2. \A s \in List : Len(s) > 1 => Tail(s) # <<>>
        <5>1. \A s \in List : Len(s) > 1 => s # <<>>
          BY ListFacts
        <5>2. \A s \in List : Len(s) > 1 => Len(Tail(s)) = Len(s) - 1 /\ Len(s) \in Nat
          BY <5>1, ListFacts
        <5>3. Len(<<>>) = 0
          BY ListFacts
        <5>4. \A n \in Nat : n > 1 => n - 1 # 0
          OBVIOUS
        <5>5. QED
          BY <5>2, <5>3, <5>4, Zenon
      <4>3. QED
        BY <3>1, <3>2, <4>1, <4>2 DEF GoesOn
    <3>3. CASE k # i
      BY <1>1, <3>1, <3>3 DEF GoesOn, CallChanges, WorkInv, Busy
    <3>4. QED
      BY <3>2, <3>3
  <2>4. CASE \E i \in Call : Begins(i)
    BY <1>1, <2>4 DEF Begins, SameAnswer, WorkInv, Busy
  <2>5. QED
    BY <2>1, <2>2, <2>3, <2>4, StepKinds
<1>2. QED
  BY <1>1, OffersStep DEF WorkInv

\* A step that neither asks for a record nor takes an answer leaves what is
\* under way and what is logged as it is, unless the process dies.
Quiet ==
  /\ mine' = mine /\ may' = may
  /\ \A c \in Content : log[c] # "none" => log'[c] # "none"
  /\ \A j \in Call : At(j, "reply") => SameAnswer(j)
  /\ today' \subseteq today /\ \A c \in today' \cap Content : log'[c] = log[c]
  /\ dropped = 0 => dropped' = 0

LEMMA QuietStep ==
  ASSUME TypeInv, [Next]_vars,
         ~ \E k \in Call : RecordHash(k) \/ RecordEnds(k)
  PROVE  Quiet \/ Restart
<1>1. CASE \E k \in Call : Verify(k) \/ PrepareEnds(k)
  <2>1. PICK k \in Call : Verify(k) \/ PrepareEnds(k)
    BY <1>1
  <2>2. Rests(k)
    BY <2>1, VerifyEffect, ReturnRests DEF PrepareEnds
  <2>3. ~At(k, "reply") /\ UNCHANGED <<mine, today, dropped, may, log>>
    BY <2>1 DEF Verify, PrepareEnds, At
  <2>4. QED
    BY <2>2, <2>3 DEF Quiet, Rests, CallChanges, SameAnswer
<1>2. CASE \E k \in Call, batch \in BOOLEAN, s \in Contents : Prepare(k, batch, s)
  <2>1. PICK k \in Call, batch \in BOOLEAN, s \in Contents : Prepare(k, batch, s)
    BY <1>2
  <2>2. Rests(k)
    BY <2>1, PrepareEffect
  <2>3. ~At(k, "reply") /\ UNCHANGED <<mine, today, dropped, may, log>>
    BY <2>1 DEF Prepare, At
  <2>4. QED
    BY <2>2, <2>3 DEF Quiet, Rests, CallChanges, SameAnswer
<1>3. CASE \E k \in Call, b \in Conf : Confirm(k, b)
  <2>1. PICK k \in Call, b \in Conf : Confirm(k, b)
    BY <1>3
  <2>2. Rests(k) \/ Begins(k)
    BY <2>1, ConfirmEffect
  <2>3. ~At(k, "reply") /\ UNCHANGED <<mine, today, dropped, may, log>>
    BY <2>1 DEF Confirm, At
  <2>4. QED
    BY <2>2, <2>3 DEF Quiet, Rests, Begins, CallChanges, SameAnswer
<1>4. CASE \E b \in Conf : Expires(b)
  BY <1>4 DEF Expires, Quiet, SameAnswer
<1>5. CASE \E c \in Content : Ages(c) \/ Elsewhere(c)
  <2>1. PICK d \in Content : Ages(d) \/ Elsewhere(d)
    BY <1>5
  <2>2. UNCHANGED <<mine, may, dropped, call>>
    BY <2>1 DEF Ages, Elsewhere
  <2>3. today' \subseteq today /\ \A c \in Content : c \in today' => log'[c] = log[c]
    BY <2>1 DEF Ages, Elsewhere, TypeInv
  <2>4. \A c \in Content : log[c] # "none" => log'[c] # "none"
    BY <2>1 DEF Ages, Elsewhere, TypeInv
  <2>5. QED
    BY <2>2, <2>3, <2>4 DEF Quiet, SameAnswer
<1>6. CASE (\E batch \in BOOLEAN : Collect(batch)) \/ FeeAges \/ UNCHANGED vars
  BY <1>6 DEF Collect, FeeAges, vars, Quiet, SameAnswer
<1>7. QED
  BY <1>1, <1>2, <1>3, <1>4, <1>5, <1>6 DEF Next, CallStep

\* A record that is created is about to be logged, unless the answer is lost.
LEMMA HashLogging ==
  ASSUME TypeInv, WorkInv, NEW k \in Call, RecordHash(k)
  PROVE  LET h == Head(call[k].todo) IN
           /\ h \in Content /\ may' = may /\ log' = log
           /\ \A c : Logging(c) => Logging(c)'
           /\ \/ mine' = mine /\ today' = today
              \/ /\ mine' = mine \cup {h} /\ today' = today \cup {h}
                 /\ "lost" \notin may => \A c : c = h => Logging(c)'
           /\ "fee" \notin may => dropped' = dropped
<1> DEFINE h == Head(call[k].todo)
<1>1. /\ At(k, "record") /\ Asks(k) /\ may' = may /\ log' = log
      /\ ~At(k, "reply") /\ At(k, "reply")' /\ ("fee" \notin may => dropped' = dropped)
  BY RecordHashEffect DEF RecordHash, Asks, At
<1>2. h \in Content
  BY <1>1, ListFacts DEF WorkInv, Busy, At, TypeInv, GoodCall
<1>3. \/ mine' = mine /\ today' = today
      \/ /\ mine' = mine \cup {h} /\ today' = today \cup {h}
         /\ "lost" \notin may => call'[k].created
  <2>1. CASE /\ mine' = mine \cup {h} /\ today' = today \cup {h}
             /\ \E told \in {TRUE} \cup (IF "lost" \in may THEN {FALSE} ELSE {}) :
                  call' = [call EXCEPT ![k].pc = "reply", ![k].created = told]
    <3>1. PICK told \in {TRUE} \cup (IF "lost" \in may THEN {FALSE} ELSE {}) :
            call' = [call EXCEPT ![k].pc = "reply", ![k].created = told]
      BY <2>1
    <3>2. call[k] \in GoodCall /\ call \in [Call -> GoodCall]
      BY DEF TypeInv
    <3>3. call'[k].created = told
      BY <3>1, <3>2 DEF GoodCall
    <3>4. "lost" \notin may => told = TRUE
      OBVIOUS
    <3>5. QED
      BY <2>1, <3>3, <3>4
  <2>2. CASE mine' = mine /\ today' = today
    BY <2>2
  <2>3. QED
    BY <2>1, <2>2 DEF RecordHash
<1>4. Head(call'[k].todo) = h
  BY <1>1 DEF Asks
<1>5. \A c : Logging(c) => Logging(c)'
  BY <1>1 DEF Logging, At, Asks, CallChanges
<1>6. call'[k].created => \A c : c = h => Logging(c)'
  BY <1>1, <1>4 DEF Logging
<1> HIDE DEF h
<1>7. QED
  BY <1>1, <1>2, <1>3, <1>5, <1>6 DEF h

\* Logged by the call that was told of it, or not yet.
LEMMA EndsLogging ==
  ASSUME TypeInv, NEW k \in Call, RecordEnds(k), "ledger" \notin may,
         NEW c \in Content
  PROVE  /\ log'[c] = log[c] \/ log'[c] = "fresh"
         /\ Logging(c) => log'[c] = "fresh" \/ Logging(c)'
<1>1. Settled(k, call[k].created, call[k].created)
  BY DEF RecordEnds
<1>2. \A j \in Call \ {k} : call'[j] = call[j]
  BY RecordEndsEffect DEF Rests, GoesOn, CallChanges
<1>3. log'[c] = log[c] \/ log'[c] = "fresh"
  BY <1>1 DEF Settled, TypeInv
<1>4. CASE call[k].created /\ Head(call[k].todo) = c
  BY <1>1, <1>3, <1>4 DEF Settled, TypeInv
<1>5. CASE ~(call[k].created /\ Head(call[k].todo) = c)
  BY <1>2, <1>3, <1>5 DEF Logging, At
<1>6. QED
  BY <1>4, <1>5, <1>3

LEMMA LedgerStep ==
  ASSUME LedgerIInv, [Next]_vars
  PROVE  /\ mine' \subseteq Content /\ LedgerIsComplete'
         /\ today' \subseteq Content /\ TodayInv'
<1>1. /\ TypeInv /\ WorkInv /\ mine \subseteq Content /\ today \subseteq Content
      /\ "fee" \notin may => dropped = 0
      /\ Without({"crash", "lost", "ledger"}) =>
           /\ \A c \in mine : log[c] # "none" \/ Logging(c)
           /\ \A c \in today : log[c] = "fresh" \/ Logging(c)
  BY DEF LedgerIInv, LedgerIsComplete, TodayInv
<1> DEFINE Kept ==
      /\ mine' \subseteq Content /\ today' \subseteq Content
      /\ "fee" \notin may' => dropped' = 0
      /\ Without({"crash", "lost", "ledger"})' =>
           /\ \A c \in mine' : log'[c] # "none" \/ Logging(c)'
           /\ \A c \in today' : log'[c] = "fresh" \/ Logging(c)'
<1>2. SUFFICES Kept
  BY DEF LedgerIsComplete, TodayInv
<1>3. CASE Quiet
  <2>1. \A c : Logging(c) => Logging(c)'
    BY <1>3 DEF Quiet, Logging, At, SameAnswer
  <2>2. QED
    BY <1>1, <1>3, <2>1 DEF Quiet, Without
<1>4. CASE Restart
  BY <1>1, <1>4 DEF Restart, Without
<1>5. ASSUME NEW k \in Call, RecordHash(k) PROVE Kept
  <2>1. PICK h \in Content :
          /\ may' = may /\ log' = log
          /\ \A c : Logging(c) => Logging(c)'
          /\ \/ mine' = mine /\ today' = today
             \/ /\ mine' = mine \cup {h} /\ today' = today \cup {h}
                /\ "lost" \notin may => \A c : c = h => Logging(c)'
          /\ "fee" \notin may => dropped' = dropped
    BY <1>1, <1>5, HashLogging
  <2>2. QED
    BY <1>1, <2>1 DEF Without
<1>6. ASSUME NEW k \in Call, RecordEnds(k) PROVE Kept
  <2>1. UNCHANGED <<mine, today, dropped, may>>
    BY <1>6 DEF RecordEnds
  <2>2. ASSUME "ledger" \notin may, NEW c \in Content
        PROVE  /\ log'[c] = log[c] \/ log'[c] = "fresh"
               /\ Logging(c) => log'[c] = "fresh" \/ Logging(c)'
    BY <1>1, <1>6, <2>2, EndsLogging
  <2>3. QED
    BY <1>1, <2>1, <2>2 DEF Without
<1>7. QED
  BY <1>1, <1>3, <1>4, <1>5, <1>6, QuietStep

LEMMA LedgerInit == Init => LedgerIInv
<1> SUFFICES ASSUME Init PROVE LedgerIInv
  OBVIOUS
<1>1. TypeInv
  BY LimitInit DEF LimitIInv
<1>2. WorkInv
  BY IdleGood DEF Init, WorkInv, NoPending, Busy
<1>3. QED
  BY <1>1, <1>2 DEF Init, LedgerIInv, LedgerIsComplete, TodayInv

LEMMA LedgerAlways == Spec => []LedgerIInv
<1>1. LedgerIInv /\ [Next]_vars => LedgerIInv'
  BY TypeStep, WorkStep, LedgerStep DEF LedgerIInv
<1>2. QED
  BY LedgerInit, <1>1, PTL DEF Spec

\* While no process dies, no answer is lost and the ledger works, whatever this
\* server created is in the ledger or about to be logged by the call that was
\* told of it: the guardrails never count too little for good.
THEOREM LedgerComplete == Spec => []LedgerIsComplete
<1>1. LedgerIInv => LedgerIsComplete
  BY DEF LedgerIInv
<1>2. QED
  BY LedgerAlways, <1>1, PTL
-----------------------------------------------------------------------------
(***************************************************************************)
(* The types, with the bound on the items of a call.                       *)
(***************************************************************************)
Fits(v) == /\ Len(v.todo) + Len(v.new) + Len(v.dups) <= MaxBatch
           /\ v.ok + Len(v.todo) <= MaxBatch
Offered(p) == Len(p.new) + Len(p.dups) <= MaxBatch

\* A batch never has more items than the server takes: those to ask about, to
\* pay for and to leave out together; those done well with those to do.
SizeInv == /\ \A k \in Call : Fits(call[k])
           /\ \A b \in Conf : Offered(conf[b])

LEMMA BatchNat == MaxBatch \in Nat /\ MaxBatch >= 1
BY McpAssumption

LEMMA IdleFits == Fits(Idle) /\ Offered(NoPending) /\ Idle.conf = NoConf /\ ~Idle.created
BY ListFacts, BatchNat DEF Idle, NoPending, Fits, Offered

LEMMA ItemsOf == \A s \in List : Len(s) <= MaxBatch => s \in Items
<1> SUFFICES ASSUME NEW s \in List, Len(s) <= MaxBatch PROVE s \in Items
  OBVIOUS
<1>1. s \in Seq(Content) /\ Len(s) \in Nat /\ s \in [1 .. Len(s) -> Content]
  BY DEF List
<1>2. CASE s = <<>>
  BY <1>2 DEF Items
<1>3. CASE s # <<>>
  <2>1. Len(s) # 0
    BY <1>1, <1>3
  <2>2. Len(s) \in 1 .. MaxBatch
    BY <1>1, <2>1, BatchNat
  <2>3. QED
    BY <1>1, <2>2 DEF Items, Contents
<1>4. QED
  BY <1>2, <1>3

LEMMA ContentsFit == \A s \in Contents : Len(s) <= MaxBatch /\ Len(s) >= 1
<1> SUFFICES ASSUME NEW s \in Contents PROVE Len(s) <= MaxBatch /\ Len(s) >= 1
  OBVIOUS
<1>1. PICK n \in 1 .. MaxBatch : s \in [1 .. n -> Content]
  BY DEF Contents
<1>2. Len(s) = n
  BY <1>1, BatchNat
<1>3. QED
  BY <1>1, <1>2, BatchNat

LEMMA LongTail ==
  \A s \in List : Len(s) > 1 =>
    s # <<>> /\ Tail(s) \in List /\ Len(Tail(s)) = Len(s) - 1 /\ Len(s) \in Nat
<1>1. \A s \in List : Len(s) > 1 => s # <<>>
  BY ListFacts
<1>2. QED
  BY <1>1, ListFacts

(***************************************************************************)
(* What the steps of a call make of it, field by field.                    *)
(***************************************************************************)
Turns(k) == CallChanges(k) /\ call'[k].conf = NoConf /\ ~Busy(k)' /\ Fits(call'[k])

LEMMA ReturnTurns == ASSUME TypeInv, NEW k \in Call, Return(k) PROVE Turns(k)
<1>1. call'[k] = Idle /\ CallChanges(k)
  BY IdleGood, Replace DEF TypeInv, Return, CallChanges
<1>2. QED
  BY <1>1, IdleFits, IdleGood DEF Turns, Busy

LEMMA PrepareTurns ==
  ASSUME TypeInv, NEW k \in Call, NEW batch \in BOOLEAN, NEW s \in Contents,
         Prepare(k, batch, s)
  PROVE  Turns(k)
<1> DEFINE v == [Idle EXCEPT !.pc = "verify", !.batch = batch, !.todo = s]
<1>1. batch \/ Len(s) = 1
  BY DEF Prepare
<1>2. v \in GoodCall /\ v.pc = "verify" /\ v.conf = NoConf
  BY <1>1, PrepareGood DEF Idle
<1>3. Fits(v)
  <2>1. v.todo = s /\ v.new = <<>> /\ v.dups = <<>> /\ v.ok = 0
    BY DEF Idle
  <2>2. Len(s) \in Nat /\ Len(s) <= MaxBatch /\ Len(<<>>) = 0
    BY ContentsFit, ContentsAreLists, ListFacts
  <2> HIDE DEF v
  <2>3. QED
    BY <2>1, <2>2, BatchNat DEF Fits
<1>4. call' = [call EXCEPT ![k] = v]
  BY DEF Prepare
<1> HIDE DEF v
<1>5. QED
  BY <1>2, <1>3, <1>4, Replace DEF TypeInv, Turns, CallChanges, Busy

\* An item goes from those to ask about to those to pay for or to leave out.
LEMMA MoveFits ==
  ASSUME NEW v \in GoodCall, v.pc = "verify", v.todo # <<>>, Fits(v)
  PROVE  LET c == Head(v.todo)
             n == [v EXCEPT !.todo = Tail(@), !.new = Append(@, c)]
             d == [v EXCEPT !.todo = Tail(@), !.dups = Append(@, c)]
         IN  Fits(n) /\ Fits(d)
<1> DEFINE c == Head(v.todo)  t == Tail(v.todo)
           nw == Append(v.new, c)  du == Append(v.dups, c)
           n == [v EXCEPT !.todo = t, !.new = nw]
           d == [v EXCEPT !.todo = t, !.dups = du]
<1>1. v.todo \in List /\ v.new \in List /\ v.dups \in List /\ v.ok \in Nat
  BY DEF GoodCall
<1>2. c \in Content /\ t \in List /\ Len(t) = Len(v.todo) - 1
  BY <1>1, ListFacts
<1>3. Len(nw) = Len(v.new) + 1 /\ Len(du) = Len(v.dups) + 1
  BY <1>1, <1>2, ListFacts
<1>4. Len(v.todo) \in Nat /\ Len(v.new) \in Nat /\ Len(v.dups) \in Nat
  BY <1>1, ListFacts
<1>5. /\ n.todo = t /\ n.new = nw /\ n.dups = v.dups /\ n.ok = v.ok
      /\ d.todo = t /\ d.new = v.new /\ d.dups = du /\ d.ok = v.ok
  BY DEF GoodCall
<1> HIDE DEF n, d, t, nw, du
<1>8. Fits(n) /\ Fits(d)
  <2>1. /\ Len(v.todo) + Len(v.new) + Len(v.dups) <= MaxBatch
        /\ v.ok + Len(v.todo) <= MaxBatch
    BY DEF Fits
  <2>2. /\ Len(t) + Len(nw) + Len(v.dups) <= MaxBatch
        /\ Len(t) + Len(v.new) + Len(du) <= MaxBatch
        /\ v.ok + Len(t) <= MaxBatch
    <3> DEFINE x == Len(v.todo)  y == Len(v.new)  z == Len(v.dups)  o == v.ok
               tt == Len(t)  nn == Len(nw)  dd == Len(du)
    <3>1. /\ x \in Nat /\ y \in Nat /\ z \in Nat /\ o \in Nat
          /\ tt = x - 1 /\ nn = y + 1 /\ dd = z + 1
          /\ x + y + z <= MaxBatch /\ o + x <= MaxBatch
      BY <1>1, <1>2, <1>3, <1>4, <2>1
    <3> HIDE DEF x, y, z, o, tt, nn, dd
    <3>2. tt + nn + z <= MaxBatch /\ tt + y + dd <= MaxBatch /\ o + tt <= MaxBatch
      BY <3>1, BatchNat
    <3>3. QED
      BY <3>2 DEF x, y, z, o, tt, nn, dd
  <2>3. QED
    BY <1>5, <2>2 DEF Fits
<1>9. QED
  BY <1>8 DEF n, d, c, t, nw, du

LEMMA VerifyTurns ==
  ASSUME TypeInv, NEW k \in Call, Fits(call[k]), call[k].conf = NoConf, Verify(k)
  PROVE  Turns(k)
<1> DEFINE v == call[k]
           n == [v EXCEPT !.todo = Tail(@), !.new = Append(@, Head(v.todo))]
           d == [v EXCEPT !.todo = Tail(@), !.dups = Append(@, Head(v.todo))]
<1>1. v \in GoodCall /\ v.pc = "verify" /\ v.todo # <<>>
  BY DEF Verify, At, TypeInv
<1>2. n \in GoodCall /\ d \in GoodCall
  BY <1>1, VerifyGood
<1>3. n.pc = "verify" /\ d.pc = "verify" /\ n.conf = NoConf /\ d.conf = NoConf
  BY <1>1 DEF GoodCall
<1>4. Fits(n) /\ Fits(d)
  BY <1>1, MoveFits
<1>5. \/ call' = [call EXCEPT ![k] = n]
      \/ call' = [call EXCEPT ![k] = d]
      \/ Return(k)
  <2>1. [[call EXCEPT ![k].todo = Tail(@)] EXCEPT ![k].new = Append(@, Head(v.todo))]
          = [call EXCEPT ![k] = n]
    BY DEF TypeInv, GoodCall
  <2>2. [[call EXCEPT ![k].todo = Tail(@)] EXCEPT ![k].dups = Append(@, Head(v.todo))]
          = [call EXCEPT ![k] = d]
    BY DEF TypeInv, GoodCall
  <2> HIDE DEF n, d
  <2>3. QED
    BY <2>1, <2>2, Zenon DEF Verify
<1> HIDE DEF n, d
<1>6. QED
  BY <1>2, <1>3, <1>4, <1>5, Replace, ReturnTurns DEF TypeInv, Turns, CallChanges, Busy

\* A call of which only the answer, or nothing a report depends on, changes.
Keeps(j) == /\ call'[j].batch = call[j].batch /\ call'[j].conf = call[j].conf
            /\ call'[j].todo = call[j].todo /\ call'[j].ok = call[j].ok
            /\ call'[j].new = call[j].new /\ call'[j].dups = call[j].dups

Sends(k) == CallChanges(k) /\ At(k, "record") /\ At(k, "reply")' /\ Keeps(k)

LEMMA RecordHashSends ==
  ASSUME TypeInv, NEW k \in Call, RecordHash(k) PROVE Sends(k)
<1>1. call[k] \in GoodCall /\ call[k].pc = "record" /\ At(k, "record")
  BY DEF RecordHash, At, TypeInv
<1>2. PICK told \in BOOLEAN :
        call' = [call EXCEPT ![k] = [call[k] EXCEPT !.pc = "reply", !.created = told]]
  BY DEF RecordHash, TypeInv
<1> DEFINE n == [call[k] EXCEPT !.pc = "reply", !.created = told]
<1>3. /\ n \in GoodCall /\ n.pc = "reply" /\ n.batch = call[k].batch
      /\ n.conf = call[k].conf /\ n.todo = call[k].todo /\ n.ok = call[k].ok
      /\ n.new = call[k].new /\ n.dups = call[k].dups
  BY <1>1 DEF GoodCall
<1>4. call' = [call EXCEPT ![k] = n]
  BY <1>2
<1> HIDE DEF n
<1>5. QED
  BY <1>1, <1>3, <1>4, Replace DEF TypeInv, Sends, CallChanges, Keeps, At

Done(k, good) == IF good THEN call[k].ok + 1 ELSE call[k].ok

Proceeds(k, good) ==
  /\ CallChanges(k) /\ Len(call[k].todo) > 1 /\ At(k, "record")'
  /\ call'[k].todo = Tail(call[k].todo) /\ call'[k].ok = Done(k, good)
  /\ call'[k].conf = call[k].conf /\ call'[k].batch = call[k].batch
  /\ call'[k].new = call[k].new /\ call'[k].dups = call[k].dups

LEMMA SettledProceeds ==
  ASSUME TypeInv, NEW k \in Call, At(k, "reply"),
         NEW logged \in BOOLEAN, NEW good \in BOOLEAN, Settled(k, logged, good)
  PROVE  Proceeds(k, good) \/ (~(Len(call[k].todo) > 1) /\ Return(k))
<1> DEFINE ok == Done(k, good)
           n == [call[k] EXCEPT !.pc = "record", !.created = FALSE,
                                !.todo = Tail(@), !.ok = ok]
<1>1. call[k] \in GoodCall /\ ok \in Nat
  <2>1. call[k] \in GoodCall
    BY DEF TypeInv
  <2>2. call[k].ok \in Nat
    BY <2>1 DEF GoodCall
  <2>3. call[k].ok + 1 \in Nat
    BY <2>2
  <2>4. QED
    BY <2>1, <2>2, <2>3, Zenon DEF Done
<1>2. CASE Len(call[k].todo) > 1
  <2> HIDE DEF ok
  <2>1. /\ n \in GoodCall /\ n.pc = "record" /\ n.todo = Tail(call[k].todo)
    BY <1>1, <1>2, GoOnGood
  <2>2. /\ n.ok = ok /\ n.conf = call[k].conf /\ n.batch = call[k].batch
        /\ n.new = call[k].new /\ n.dups = call[k].dups
    BY <1>1 DEF GoodCall
  <2>3. call' = [call EXCEPT ![k] = n]
    BY <1>2 DEF Settled, TypeInv, ok, Done
  <2> HIDE DEF n
  <2>4. QED
    BY <1>2, <2>1, <2>2, <2>3, Replace DEF TypeInv, Proceeds, CallChanges, At, ok
<1>3. CASE ~(Len(call[k].todo) > 1)
  BY <1>3 DEF Settled
<1>4. QED
  BY <1>2, <1>3

Opens(k, b) ==
  /\ call' \in [Call -> GoodCall]
  /\ call'[k].pc = "record" /\ call'[k].conf = b /\ call'[k].batch = conf[b].batch
  /\ call'[k].todo = conf[b].new /\ call'[k].new = <<>> /\ call'[k].dups = <<>>
  /\ call'[k].ok = 0 /\ ~call'[k].created
  /\ \A j \in Call \ {k} : Keeps(j) /\ SameAnswer(j)

LEMMA StartsOpens ==
  ASSUME TypeInv, NEW k \in Call, NEW b \in Conf, Starts(k, b) PROVE Opens(k, b)
<1> DEFINE a == \A i \in Call : ~Busy(i)
           v == Started(b, conf[b], a)
<1>1. /\ v \in GoodCall /\ v.pc = "record" /\ v.conf = b /\ v.batch = conf[b].batch
      /\ v.todo = conf[b].new /\ v.new = <<>> /\ v.dups = <<>> /\ v.ok = 0 /\ ~v.created
  <2>1. a \in BOOLEAN /\ conf[b] \in GoodPending
    BY DEF TypeInv
  <2> HIDE DEF a
  <2>2. v \in GoodCall
    BY <2>1, StartGood
  <2>3. QED
    BY <2>2 DEF Started, Idle
<1>2. \A j \in Call :
        LET n == [call[j] EXCEPT !.alone = FALSE]
        IN  /\ n \in GoodCall /\ n.pc = call[j].pc /\ n.created = call[j].created
            /\ n.batch = call[j].batch /\ n.conf = call[j].conf
            /\ n.todo = call[j].todo /\ n.ok = call[j].ok
            /\ n.new = call[j].new /\ n.dups = call[j].dups
  <2>1. ASSUME NEW j \in Call
        PROVE  LET n == [call[j] EXCEPT !.alone = FALSE]
               IN  /\ n \in GoodCall /\ n.pc = call[j].pc /\ n.created = call[j].created
                   /\ n.batch = call[j].batch /\ n.conf = call[j].conf
                   /\ n.todo = call[j].todo /\ n.ok = call[j].ok
                   /\ n.new = call[j].new /\ n.dups = call[j].dups
    <3>1. call[j] \in GoodCall
      BY DEF TypeInv
    <3>2. QED
      BY <3>1 DEF GoodCall
  <2>2. QED
    BY <2>1
<1>3. call' = [j \in Call |-> IF j # k THEN [call[j] EXCEPT !.alone = FALSE] ELSE v]
  BY Zenon DEF Starts, Started
<1> HIDE DEF v
<1>4. call' \in [Call -> GoodCall] /\ call'[k] = v
  BY <1>1, <1>2, <1>3
<1>5. \A j \in Call \ {k} : Keeps(j) /\ SameAnswer(j)
  BY <1>2, <1>3 DEF Keeps, SameAnswer
<1>6. QED
  BY <1>1, <1>4, <1>5 DEF Opens

\* A confirmation belongs to one call at a time: calls at their records have
\* one each.
OneCallEach ==
  /\ \A k \in Call : Busy(k) <=> call[k].conf \in Conf
  /\ \A j, k \in Call : call[j].conf = call[k].conf /\ j # k => call[k].conf = NoConf

\* One that can still be confirmed has no job, no call and no rows.
FreshConf ==
  \A b \in Conf :
    /\ conf[b].status # "none" => job[b].status = "none" /\ ~Running(b)
    /\ job[b].status = "none" => \A c \in Content : item[b][c] = "none"

LEMMA Moves ==
  ASSUME TypeInv, SizeInv, OneCallEach, [Next]_vars
  PROVE  \/ \E k \in Call : Turns(k) \/ Sends(k)
         \/ \E k \in Call, good \in BOOLEAN : At(k, "reply") /\ Proceeds(k, good)
         \/ \E k \in Call, b \in Conf :
              Opens(k, b) /\ At(k, "idle") /\ conf[b].status = "pending"
         \/ Stays
<1>1. ASSUME NEW k \in Call, Verify(k) PROVE Turns(k)
  <2>1. Fits(call[k])
    BY DEF SizeInv
  <2>2. call[k].conf = NoConf
    <3>1. call[k] \in GoodCall /\ ~Busy(k)
      BY <1>1 DEF TypeInv, Verify, At, Busy
    <3>2. QED
      BY <3>1 DEF OneCallEach, GoodCall
  <2>3. QED
    BY <1>1, <2>1, <2>2, VerifyTurns
<1>2. ASSUME NEW k \in Call, PrepareEnds(k) PROVE Turns(k)
  BY <1>2, ReturnTurns DEF PrepareEnds
<1>3. ASSUME NEW k \in Call, RecordEnds(k)
      PROVE  Turns(k) \/ \E good \in BOOLEAN : At(k, "reply") /\ Proceeds(k, good)
  <2>1. At(k, "reply") /\ call[k].created \in BOOLEAN /\ call[k].batch \in BOOLEAN
    BY <1>3 DEF RecordEnds, TypeInv, GoodCall
  <2>2. CASE \E logged, good \in BOOLEAN : Settled(k, logged, good)
    BY <2>1, <2>2, SettledProceeds, ReturnTurns
  <2>3. CASE \E logged \in BOOLEAN : LedgerGone(k, logged)
    BY <2>3, ReturnTurns DEF LedgerGone
  <2>4. QED
    BY <1>3, <2>1, <2>2, <2>3 DEF RecordEnds
<1>4. ASSUME NEW k \in Call, NEW b \in Conf, Confirm(k, b)
      PROVE  Turns(k) \/ (Opens(k, b) /\ At(k, "idle") /\ conf[b].status = "pending")
  <2>1. At(k, "idle") /\ (Return(k) \/ (Starts(k, b) /\ conf[b].status = "pending"))
    BY <1>4 DEF Confirm
  <2>2. QED
    BY <2>1, ReturnTurns, StartsOpens
<1>5. CASE \E k \in Call : CallStep(k)
  BY <1>1, <1>2, <1>3, <1>5, RecordHashSends DEF CallStep
<1>6. CASE \E k \in Call, batch \in BOOLEAN, s \in Contents : Prepare(k, batch, s)
  BY <1>6, PrepareTurns
<1>7. CASE \E k \in Call, b \in Conf : Confirm(k, b)
  BY <1>4, <1>7
<1>8. CASE \/ \E b \in Conf : Expires(b)
           \/ \E c \in Content : Ages(c) \/ Elsewhere(c)
           \/ FeeAges
           \/ \E batch \in BOOLEAN : Collect(batch)
           \/ Restart \/ UNCHANGED vars
  BY <1>8 DEF Expires, Ages, FeeAges, Elsewhere, Collect, Restart, vars, Stays
<1>9. QED
  BY <1>5, <1>6, <1>7, <1>8 DEF Next

LEMMA FitsStep ==
  ASSUME TypeInv, SizeInv, OneCallEach, [Next]_vars, NEW j \in Call
  PROVE  Fits(call'[j])
<1>1. Fits(call[j])
  BY DEF SizeInv
<1>2. CASE \E k \in Call : Turns(k)
  BY <1>1, <1>2 DEF Turns, CallChanges
<1>3. CASE \E k \in Call : Sends(k)
  <2>1. call'[j] = call[j] \/ Keeps(j)
    BY <1>3 DEF Sends, CallChanges
  <2>2. QED
    BY <1>1, <2>1 DEF Keeps, Fits
<1>4. CASE \E k \in Call, good \in BOOLEAN : At(k, "reply") /\ Proceeds(k, good)
  <2>1. PICK k \in Call, good \in BOOLEAN : Proceeds(k, good)
    BY <1>4
  <2>2. CASE j # k
    BY <1>1, <2>1, <2>2 DEF Proceeds, CallChanges
  <2>3. CASE j = k
    <3> DEFINE x == Len(call[k].todo)  y == Len(call[k].new)  z == Len(call[k].dups)
               o == call[k].ok  x1 == Len(call'[k].todo)  o1 == call'[k].ok
    <3>1. /\ call[k].todo \in List /\ call[k].new \in List /\ call[k].dups \in List
          /\ o \in Nat
      BY DEF TypeInv, GoodCall
    <3>2. x \in Nat /\ y \in Nat /\ z \in Nat
      BY <3>1, ListFacts
    <3>3. x1 = x - 1
      BY <2>1, <3>1, LongTail DEF Proceeds
    <3>4. x > 1
      BY <2>1 DEF Proceeds
    <3>5. o1 = o \/ o1 = o + 1
      BY <2>1 DEF Proceeds, Done
    <3>6. x + y + z <= MaxBatch /\ o + x <= MaxBatch
      BY <1>1, <2>3 DEF Fits
    <3>7. Len(call'[k].new) = y /\ Len(call'[k].dups) = z
      BY <2>1 DEF Proceeds
    <3> HIDE DEF x, y, z, o, x1, o1
    <3>8. x1 + y + z <= MaxBatch /\ o1 + x1 <= MaxBatch
      BY <3>1, <3>2, <3>3, <3>4, <3>5, <3>6, BatchNat
    <3>9. QED
      BY <2>3, <3>7, <3>8 DEF Fits, x1, o1
  <2>4. QED
    BY <2>2, <2>3
<1>5. CASE \E k \in Call, b \in Conf : Opens(k, b)
  <2>1. PICK k \in Call, b \in Conf : Opens(k, b)
    BY <1>5
  <2>2. CASE j # k
    BY <1>1, <2>1, <2>2 DEF Opens, Keeps, Fits
  <2>3. CASE j = k
    <3>1. Len(conf[b].new) + Len(conf[b].dups) <= MaxBatch
      BY DEF SizeInv, Offered
    <3>2. Len(conf[b].new) \in Nat /\ Len(conf[b].dups) \in Nat /\ Len(<<>>) = 0
      BY ListFacts DEF TypeInv, GoodPending
    <3> DEFINE x == Len(conf[b].new)  y == Len(conf[b].dups)
    <3>3. x <= MaxBatch /\ x + 0 + 0 <= MaxBatch /\ 0 + x <= MaxBatch
      <4> HIDE DEF x, y
      <4>1. x + y <= MaxBatch /\ x \in Nat /\ y \in Nat
        BY <3>1, <3>2 DEF x, y
      <4>2. QED
        BY <4>1, BatchNat
    <3>4. QED
      BY <2>1, <2>3, <3>2, <3>3 DEF Opens, Fits
  <2>4. QED
    BY <2>2, <2>3
<1>6. CASE Stays
  BY <1>1, <1>6, IdleFits DEF Stays
<1>7. QED
  BY <1>2, <1>3, <1>4, <1>5, <1>6, Moves

LEMMA OfferedStep ==
  ASSUME TypeInv, SizeInv, [Next]_vars, NEW d \in Conf
  PROVE  Offered(conf'[d])
<1> USE DEF TypeInv
<1>1. Offered(conf[d])
  BY DEF SizeInv
<1>2. CASE \E k \in Call : PrepareEnds(k)
  <2>1. PICK k \in Call : PrepareEnds(k)
    BY <1>2
  <2> DEFINE p == [status |-> "pending", batch |-> call[k].batch,
                   new |-> call[k].new, dups |-> call[k].dups]
  <2>2. Offered(p)
    <3>1. Len(call[k].todo) + Len(call[k].new) + Len(call[k].dups) <= MaxBatch
      BY DEF SizeInv, Fits
    <3>2. Len(call[k].todo) = 0
      BY <2>1, ListFacts DEF PrepareEnds
    <3>3. Len(call[k].new) \in Nat /\ Len(call[k].dups) \in Nat
      BY ListFacts DEF GoodCall
    <3> DEFINE x == Len(call[k].todo)  y == Len(call[k].new)  z == Len(call[k].dups)
    <3>4. y + z <= MaxBatch
      <4> HIDE DEF x, y, z
      <4>1. x = 0 /\ y \in Nat /\ z \in Nat /\ x + y + z <= MaxBatch
        BY <3>1, <3>2, <3>3 DEF x, y, z
      <4>2. QED
        BY <4>1, BatchNat
    <3>5. QED
      BY <3>4 DEF Offered
  <2>3. conf' = conf \/ \E b \in Conf : conf' = [conf EXCEPT ![b] = p]
    BY <2>1 DEF PrepareEnds, Unused
  <2> HIDE DEF p
  <2>4. QED
    BY <1>1, <2>2, <2>3
<1>3. CASE \E k \in Call, b \in Conf : Confirm(k, b)
  BY <1>1, <1>3, IdleFits DEF Confirm, Consume
<1>4. CASE \E b \in Conf : Expires(b)
  <2>1. conf'[d].new = conf[d].new /\ conf'[d].dups = conf[d].dups
    BY <1>4 DEF Expires, GoodPending
  <2>2. QED
    BY <1>1, <2>1 DEF Offered
<1>5. CASE \E batch \in BOOLEAN : Collect(batch)
  BY <1>1, <1>5, IdleFits DEF Collect
<1>6. CASE Restart
  BY <1>6, IdleFits DEF Restart
<1>7. CASE conf' = conf
  BY <1>1, <1>7
<1>8. QED
  BY <1>2, <1>3, <1>4, <1>5, <1>6, <1>7
  DEF Next, CallStep, Verify, RecordHash, RecordEnds, Prepare, Ages, FeeAges,
      Elsewhere, vars

LEMMA SizeStep ==
  ASSUME TypeInv, SizeInv, OneCallEach, [Next]_vars PROVE SizeInv'
BY FitsStep, OfferedStep DEF SizeInv, Fits, Offered

LEMMA OneCallStep ==
  ASSUME TypeInv, SizeInv, OneCallEach, FreshConf, [Next]_vars PROVE OneCallEach'
<1> USE DEF Busy, At
<1>1. CASE \E k \in Call : Turns(k)
  BY <1>1, McpAssumption DEF Turns, CallChanges, OneCallEach
<1>2. CASE \E k \in Call : Sends(k)
  BY <1>2 DEF Sends, CallChanges, Keeps, OneCallEach
<1>3. CASE \E k \in Call, good \in BOOLEAN : At(k, "reply") /\ Proceeds(k, good)
  BY <1>3 DEF Proceeds, CallChanges, OneCallEach
<1>4. CASE \E k \in Call, b \in Conf :
             Opens(k, b) /\ At(k, "idle") /\ conf[b].status = "pending"
  <2>1. PICK k \in Call, b \in Conf :
          Opens(k, b) /\ At(k, "idle") /\ conf[b].status = "pending"
    BY <1>4
  <2>2. ~Running(b)
    BY <2>1 DEF FreshConf
  <2>3. QED
    BY <2>1, <2>2 DEF Opens, Keeps, SameAnswer, OneCallEach, Running
<1>5. CASE Stays
  BY <1>5, IdleGood, IdleFits, McpAssumption DEF Stays, OneCallEach
<1>6. QED
  BY <1>1, <1>2, <1>3, <1>4, <1>5, Moves

(***************************************************************************)
(* Jobs and items. A step writes those of one confirmation: the one that   *)
(* is confirmed, or the one whose call takes an answer.                    *)
(***************************************************************************)
JobsTyped == /\ job \in [Conf -> Job]
             /\ item \in [Conf -> [Content -> Item]]

LEMMA MarkTyped ==
  ASSUME JobsTyped, NEW b \in Conf, NEW C, NEW s \in Item, Mark(b, C, s)
  PROVE  /\ item' \in [Conf -> [Content -> Item]]
         /\ \A d \in Conf \ {b} : item'[d] = item[d]
         /\ item'[b] = [c \in Content |-> IF c \in C THEN s ELSE item[b][c]]
BY DEF Mark, JobsTyped

LEMMA NewJobTyped ==
  ASSUME JobsTyped, TypeInv, SizeInv, NEW b \in Conf, NewJob(b)
  PROVE  /\ job' \in [Conf -> Job]
         /\ \A d \in Conf \ {b} : job'[d] = job[d]
         /\ job'[b] = [status |-> "processing", cost |-> 0,
                       total |-> Len(conf[b].new) + Len(conf[b].dups)]
<1> DEFINE t == Len(conf[b].new) + Len(conf[b].dups)
           j == [status |-> "processing", cost |-> 0, total |-> t]
<1>1. conf[b].new \in List /\ conf[b].dups \in List
  BY DEF TypeInv, GoodPending
<1>2. t \in Nat
  <2>1. Len(conf[b].new) \in Nat /\ Len(conf[b].dups) \in Nat
    BY <1>1, ListFacts, Zenon
  <2>2. \A x, y \in Nat : x + y \in Nat
    OBVIOUS
  <2>3. QED
    BY <2>1, <2>2, Zenon
<1>3. t <= MaxBatch
  BY DEF SizeInv, Offered
<1>4. job' = [job EXCEPT ![b] = j]
  BY DEF NewJob
<1> HIDE DEF t
<1>5. j \in Job
  BY <1>2, <1>3, BatchNat DEF Job
<1> HIDE DEF j
<1>6. job' \in [Conf -> Job] /\ job'[b] = j /\ \A d \in Conf \ {b} : job'[d] = job[d]
  BY <1>4, <1>5 DEF JobsTyped
<1>7. QED
  BY <1>6 DEF j, t

LEMMA FinishedTyped ==
  ASSUME JobsTyped, NEW b \in Conf, NEW ok \in 0 .. MaxBatch, NEW bad \in BOOLEAN,
         Finished(b, ok, bad)
  PROVE  /\ job' \in [Conf -> Job]
         /\ \A d \in Conf \ {b} : job'[d] = job[d]
         /\ job'[b].total = job[b].total /\ job'[b].cost = ok
         /\ job'[b].status = IF bad /\ ok = 0 THEN "failed" ELSE "completed"
<1> DEFINE s == IF bad /\ ok = 0 THEN "failed" ELSE "completed"
           j == [job[b] EXCEPT !.cost = ok, !.status = s]
<1>1. job' = [job EXCEPT ![b] = j]
  BY DEF Finished, JobsTyped, Job
<1>2. s \in {"failed", "completed"}
  OBVIOUS
<1> HIDE DEF s
<1>3. j \in Job /\ j.total = job[b].total /\ j.cost = ok /\ j.status = s
  BY <1>2 DEF JobsTyped, Job
<1> HIDE DEF j
<1>4. job' \in [Conf -> Job] /\ job'[b] = j /\ \A d \in Conf \ {b} : job'[d] = job[d]
  BY <1>1, <1>3 DEF JobsTyped
<1>5. QED
  BY <1>3, <1>4 DEF s

\* The count of those done well stays within the batch.
LEMMA DoneBound ==
  ASSUME TypeInv, SizeInv, WorkInv, NEW k \in Call, Busy(k), NEW good \in BOOLEAN
  PROVE  Done(k, good) \in 0 .. MaxBatch
<1> DEFINE x == Len(call[k].todo)  o == call[k].ok  o1 == Done(k, good)
<1>1. call[k].todo \in List /\ call[k].todo # <<>> /\ o \in Nat
  BY DEF TypeInv, GoodCall, WorkInv
<1>2. x \in Nat /\ x # 0
  <2>1. x = Len(Tail(call[k].todo)) + 1 /\ Len(Tail(call[k].todo)) \in Nat
    <3>1. /\ Len(Tail(call[k].todo)) = x - 1 /\ Tail(call[k].todo) \in List
          /\ x \in Nat
      BY <1>1, ListFacts
    <3>2. Len(Tail(call[k].todo)) \in Nat
      BY <3>1, ListFacts
    <3>3. QED
      BY <3>1, <3>2
  <2>2. QED
    BY <2>1
<1>3. o + x <= MaxBatch
  BY DEF SizeInv, Fits
<1>4. o1 = o \/ o1 = o + 1
  BY DEF Done
<1> HIDE DEF x, o, o1
<1>5. o1 \in 0 .. MaxBatch
  BY <1>1, <1>2, <1>3, <1>4, BatchNat
<1>6. QED
  BY <1>5 DEF o1
-----------------------------------------------------------------------------
(***************************************************************************)
(* The report of a batch: the cost of a job against the rows of its items. *)
(***************************************************************************)
Won(row)   == {c \in Content : row[c] = "success"}
Noted(row) == {c \in Content : row[c] # "none"}

\* ok items were done well and left are still to do. Each of the others has a
\* row of its own or has replaced one, which is where ok gets ahead of the rows.
Tally(row, total, ok, left) ==
  /\ Cardinality(Won(row)) <= ok
  /\ ok + Cardinality(Noted(row)) + left <= Cardinality(Won(row)) + total

RowsTrue ==
  \A b \in Conf, c \in Content :
    item[b][c] = "success" => c \in mine /\ log[c] # "none"

\* Success is only told of what was created.
Rightly ==
  \A k \in Call : At(k, "reply") /\ call[k].created => Head(call[k].todo) \in mine

RunTally ==
  \A k \in Call :
    Busy(k) /\ call[k].batch =>
      /\ job[call[k].conf].status = "processing"
      /\ Tally(item[call[k].conf], job[call[k].conf].total, call[k].ok, Len(call[k].todo))

EndTally ==
  \A b \in Conf :
    job[b].status \in {"completed", "failed"} =>
      /\ Tally(item[b], job[b].total, job[b].cost, 0)
      /\ job[b].status = "failed" => job[b].cost = 0

Base      == TypeInv /\ WorkInv /\ SizeInv /\ OneCallEach
ReportInv == JobsTyped /\ FreshConf /\ RowsTrue /\ Rightly /\ RunTally /\ EndTally

LEMMA RowCounts ==
  ASSUME NEW row
  PROVE  /\ IsFiniteSet(Won(row)) /\ Cardinality(Won(row)) \in Nat
         /\ IsFiniteSet(Noted(row)) /\ Cardinality(Noted(row)) \in Nat
<1>1. IsFiniteSet(Won(row)) /\ IsFiniteSet(Noted(row))
  BY McpAssumption, FS_Subset DEF Won, Noted
<1>2. QED
  BY <1>1, FS_CardinalityType

LEMMA RangeCount ==
  ASSUME NEW s \in List
  PROVE  IsFiniteSet(Range(s)) /\ Cardinality(Range(s)) <= Len(s)
<1>1. Len(s) \in Nat /\ s \in [1 .. Len(s) -> Content]
  BY DEF List
<1>2. Range(s) = {s[i] : i \in 1 .. Len(s)}
  BY <1>1 DEF Range
<1>3. s \in Surjection(1 .. Len(s), Range(s))
  BY <1>1, <1>2 DEF Surjection
<1>4. IsFiniteSet(1 .. Len(s)) /\ Cardinality(1 .. Len(s)) = Len(s)
  BY <1>1, FS_Interval, SMTT(30)
<1>5. QED
  BY <1>3, <1>4, FS_Surjection

LEMMA TallyStarts ==
  ASSUME NEW row \in [Content -> Item], \A c \in Content : row[c] = "none",
         NEW s \in List, NEW n \in Nat
  PROVE  Tally([c \in Content |-> IF c \in Range(s) THEN "duplicate" ELSE row[c]],
               n + Len(s), 0, n)
<1> DEFINE r == [c \in Content |-> IF c \in Range(s) THEN "duplicate" ELSE row[c]]
<1>1. Won(r) = {}
  BY DEF Won
<1>2. Noted(r) \subseteq Range(s)
  BY DEF Noted
<1>3. IsFiniteSet(Range(s)) /\ Cardinality(Range(s)) <= Len(s)
  BY RangeCount
<1>4. Cardinality(Noted(r)) <= Cardinality(Range(s))
  BY <1>2, <1>3, FS_Subset
<1> HIDE DEF r
<1>5. /\ Cardinality(Won(r)) = 0 /\ Cardinality(Noted(r)) \in Nat
      /\ Cardinality(Range(s)) \in Nat /\ Len(s) \in Nat
  BY <1>1, <1>3, RowCounts, FS_EmptySet, FS_CardinalityType, ListFacts
<1> DEFINE w == Cardinality(Won(r))  m == Cardinality(Noted(r))  l == Len(s)
<1>6. w = 0 /\ m \in Nat /\ l \in Nat /\ m <= l
  BY <1>3, <1>4, <1>5
<1> HIDE DEF w, m, l
<1>7. w <= 0 /\ 0 + m + n <= w + (n + l)
  BY <1>6
<1>8. QED
  BY <1>7 DEF Tally, w, m, l, r

LEMMA TallyMoves ==
  ASSUME NEW row \in [Content -> Item], NEW c \in Content, NEW good \in BOOLEAN,
         NEW total \in Nat, NEW ok \in Nat, NEW left \in Nat, NEW rest \in Nat,
         left = rest + 1, Tally(row, total, ok, left)
  PROVE  Tally([x \in Content |-> IF x \in {c} THEN IF good THEN "success" ELSE "failed"
                                  ELSE row[x]],
               total, IF good THEN ok + 1 ELSE ok, rest)
<1> DEFINE r == [x \in Content |-> IF x \in {c} THEN IF good THEN "success" ELSE "failed"
                                   ELSE row[x]]
           w == Cardinality(Won(row))    m == Cardinality(Noted(row))
           w1 == Cardinality(Won(r))     m1 == Cardinality(Noted(r))
<1>1. Noted(r) = Noted(row) \cup {c}
  BY DEF Noted
<1>2. Won(r) = IF good THEN Won(row) \cup {c} ELSE Won(row) \ {c}
  BY DEF Won
<1>3. c \in Won(row) => c \in Noted(row)
  BY DEF Won, Noted
<1> HIDE DEF r
<1>4. m1 = IF c \in Noted(row) THEN m ELSE m + 1
  BY <1>1, RowCounts, FS_AddElement
<1>5. w1 = IF good THEN IF c \in Won(row) THEN w ELSE w + 1
           ELSE IF c \in Won(row) THEN w - 1 ELSE w
  BY <1>2, RowCounts, FS_AddElement, FS_RemoveElement
<1>6. w \in Nat /\ m \in Nat /\ w1 \in Nat /\ m1 \in Nat
  BY RowCounts
<1>7. w <= ok /\ ok + m + left <= w + total
  BY DEF Tally
<1> HIDE DEF w, m, w1, m1
<1>8. CASE good
  <2>1. w1 <= ok + 1
    BY <1>5, <1>6, <1>7, <1>8
  <2>2. (ok + 1) + m1 + rest <= w1 + total
    BY <1>3, <1>4, <1>5, <1>6, <1>7, <1>8
  <2>3. QED
    BY <1>8, <2>1, <2>2 DEF Tally, w1, m1, r
<1>9. CASE ~good
  <2>1. w1 <= ok
    BY <1>5, <1>6, <1>7, <1>9
  <2>2. ok + m1 + rest <= w1 + total
    BY <1>3, <1>4, <1>5, <1>6, <1>7, <1>9
  <2>3. QED
    BY <1>9, <2>1, <2>2 DEF Tally, w1, m1, r
<1>10. QED
  BY <1>8, <1>9

(***************************************************************************)
(* Steps that leave jobs and items alone.                                  *)
(***************************************************************************)
Passive ==
  /\ job' = job /\ item' = item /\ mine \subseteq mine'
  /\ \A c \in Content : log[c] # "none" => log'[c] # "none"
  /\ \A j \in Call : Busy(j)' => Busy(j) /\ Keeps(j)
  /\ \A j \in Call : call'[j].conf \in Conf => call'[j].conf = call[j].conf
  /\ \A b \in Conf : conf'[b].status # "none" => conf[b].status # "none" \/ b \in Unused
  /\ Rightly'

LEMMA PassiveStep ==
  ASSUME ReportInv, Passive PROVE ReportInv'
<1> USE DEF ReportInv, Passive
<1>1. JobsTyped'
  BY DEF JobsTyped
<1>2. FreshConf'
  <2>1. \A b \in Conf : Running(b)' => Running(b)
    BY DEF Running
  <2>2. \A b \in Conf : conf'[b].status # "none" => job[b].status = "none" /\ ~Running(b)
    BY DEF FreshConf, Unused
  <2>3. QED
    BY <2>1, <2>2 DEF FreshConf
<1>3. RowsTrue'
  BY DEF RowsTrue
<1>4. RunTally'
  BY DEF RunTally, Keeps, Tally
<1>5. EndTally'
  BY DEF EndTally, Tally
<1>6. QED
  BY <1>1, <1>2, <1>3, <1>4, <1>5

LEMMA TurnsPassive ==
  ASSUME TypeInv, Rightly, NEW k \in Call, Turns(k),
         UNCHANGED <<job, item, mine, log>>,
         \A b \in Conf : conf'[b].status # "none" => conf[b].status # "none" \/ b \in Unused
  PROVE  Passive
<1>1. \A j \in Call : j = k \/ call'[j] = call[j]
  BY DEF Turns, CallChanges
<1>2. \A j \in Call : Busy(j)' => Busy(j) /\ Keeps(j)
  BY <1>1 DEF Turns, Busy, Keeps
<1>3. \A j \in Call : call'[j].conf \in Conf => call'[j].conf = call[j].conf
  BY <1>1, McpAssumption DEF Turns
<1>4. Rightly'
  BY <1>1 DEF Rightly, Turns, Busy, At
<1>5. QED
  BY <1>2, <1>3, <1>4 DEF Passive

LEMMA QuietPassive ==
  ASSUME Base, ReportInv, [Next]_vars,
         ~ \E k \in Call : RecordEnds(k),
         ~ \E k \in Call, b \in Conf : Confirm(k, b)
  PROVE  Passive
<1> USE DEF Base, ReportInv
<1>1. ASSUME NEW k \in Call, Verify(k) PROVE Passive
  <2>1. call[k].conf = NoConf
    <3>1. call[k] \in GoodCall /\ ~Busy(k)
      BY <1>1 DEF TypeInv, Verify, At, Busy
    <3>2. QED
      BY <3>1 DEF OneCallEach, GoodCall
  <2>2. Turns(k)
    BY <1>1, <2>1, VerifyTurns DEF SizeInv
  <2>3. QED
    BY <1>1, <2>2, TurnsPassive DEF Verify
<1>2. ASSUME NEW k \in Call, PrepareEnds(k) PROVE Passive
  <2>1. Turns(k)
    BY <1>2, ReturnTurns DEF PrepareEnds
  <2>2. \A b \in Conf : conf'[b].status # "none" => conf[b].status # "none" \/ b \in Unused
    BY <1>2 DEF PrepareEnds, TypeInv
  <2>3. QED
    BY <1>2, <2>1, <2>2, TurnsPassive DEF PrepareEnds
<1>3. ASSUME NEW k \in Call, RecordHash(k) PROVE Passive
  <2>1. Sends(k) /\ At(k, "record")
    BY <1>3, RecordHashSends DEF Sends
  <2>2. mine \subseteq mine' /\ UNCHANGED <<log, conf, job, item>>
    BY <1>3 DEF RecordHash
  <2>3. call'[k].created => Head(call'[k].todo) \in mine'
    <3>1. CASE mine' = mine \cup {Head(call[k].todo)}
      BY <2>1, <3>1 DEF Sends, Keeps
    <3>2. CASE call' = [call EXCEPT ![k].pc = "reply", ![k].created = FALSE]
      <4>1. call[k] \in GoodCall /\ call \in [Call -> GoodCall]
        BY DEF TypeInv
      <4>2. call'[k].created = FALSE
        BY <3>2, <4>1 DEF GoodCall
      <4>3. QED
        BY <4>2
    <3>3. QED
      BY <1>3, <3>1, <3>2 DEF RecordHash
  <2>4. Rightly'
    BY <2>1, <2>2, <2>3 DEF Rightly, Sends, CallChanges, At
  <2>5. \A j \in Call : j = k \/ call'[j] = call[j]
    BY <2>1 DEF Sends, CallChanges
  <2>6. \A j \in Call : Busy(j)' => Busy(j) /\ Keeps(j)
    BY <2>1, <2>5 DEF Sends, Keeps, Busy, At
  <2>7. \A j \in Call : call'[j].conf \in Conf => call'[j].conf = call[j].conf
    BY <2>1, <2>5 DEF Sends, Keeps
  <2>8. QED
    BY <2>2, <2>4, <2>6, <2>7 DEF Passive
<1>4. ASSUME NEW k \in Call, NEW batch \in BOOLEAN, NEW s \in Contents,
             Prepare(k, batch, s)
      PROVE  Passive
  <2>1. Turns(k)
    BY <1>4, PrepareTurns
  <2>2. QED
    BY <1>4, <2>1, TurnsPassive DEF Prepare
<1>5. ASSUME call' = call, mine' = mine, job' = job, item' = item,
             \A c \in Content : log[c] # "none" => log'[c] # "none",
             \A b \in Conf : conf'[b].status # "none" => conf[b].status # "none"
      PROVE  Passive
  BY <1>5 DEF Passive, Keeps, Busy, Rightly, At
<1>6. CASE \E b \in Conf : Expires(b)
  <2>1. \A b \in Conf : conf'[b].status # "none" => conf[b].status # "none"
    BY <1>6 DEF Expires, TypeInv, GoodPending
  <2>2. QED
    BY <1>5, <1>6, <2>1 DEF Expires
<1>7. CASE FeeAges \/ \E c \in Content : Ages(c) \/ Elsewhere(c)
  BY <1>5, <1>7 DEF Ages, FeeAges, Elsewhere, TypeInv
<1>8. CASE \E batch \in BOOLEAN : Collect(batch)
  <2>1. \A b \in Conf : conf'[b].status # "none" => conf[b].status # "none"
    BY <1>8 DEF Collect, NoPending
  <2>2. QED
    BY <1>5, <1>8, <2>1 DEF Collect
<1>9. CASE Restart
  <2>1. /\ call' = [k \in Call |-> Idle] /\ conf' = [b \in Conf |-> NoPending]
        /\ UNCHANGED <<mine, log, job, item>>
    BY <1>9 DEF Restart
  <2>2. \A b \in Conf : conf'[b].status = "none"
    BY <2>1 DEF NoPending
  <2>3. \A j \in Call : call'[j].pc = "idle" /\ call'[j].conf = NoConf
    BY <2>1, IdleGood, IdleFits
  <2>4. QED
    BY <2>1, <2>2, <2>3, McpAssumption DEF Passive, Busy, Rightly, At
<1>10. CASE UNCHANGED vars
  BY <1>5, <1>10 DEF vars
<1>11. QED
  BY <1>1, <1>2, <1>3, <1>4, <1>6, <1>7, <1>8, <1>9, <1>10 DEF Next, CallStep

(***************************************************************************)
(* A confirmation: it may open a job, which starts with the rows of the    *)
(* items left out.                                                         *)
(***************************************************************************)
\* What a confirmation does to the job and the rows of its id.
SetsUp(b) ==
  /\ NewJob(b)
  /\ \E D \in SUBSET Range(conf[b].dups) : Mark(b, D, "duplicate")

LEMMA ConfirmKinds ==
  ASSUME NEW k \in Call, NEW b \in Conf, Confirm(k, b)
  PROVE  /\ At(k, "idle") /\ conf[b].status # "none" /\ Consume(b)
         /\ UNCHANGED <<registry, mine, log, may>>
         /\ \/ Return(k) /\ UNCHANGED <<job, item>>
            \/ Return(k) /\ SetsUp(b)
            \/ /\ Starts(k, b) /\ conf[b].batch
               /\ NewJob(b) /\ Mark(b, Range(conf[b].dups), "duplicate")
            \/ Starts(k, b) /\ ~conf[b].batch /\ UNCHANGED <<job, item>>
BY DEF Confirm, SetsUp

\* Setting up a job leaves every other one as it is and reports nothing.
LEMMA SetsUpEffect ==
  ASSUME Base, ReportInv, NEW b \in Conf, conf[b].status # "none",
         NewJob(b), NEW D, D \subseteq Range(conf[b].dups), Mark(b, D, "duplicate")
  PROVE  /\ JobsTyped'
         /\ \A d \in Conf \ {b} : job'[d] = job[d] /\ item'[d] = item[d]
         /\ job'[b].status = "processing"
         /\ job'[b].total = Len(conf[b].new) + Len(conf[b].dups)
         /\ \A c \in Content : item'[b][c] # "success" /\ item[b][c] = "none"
         /\ item'[b] = [c \in Content |-> IF c \in D THEN "duplicate" ELSE item[b][c]]
<1>1. JobsTyped /\ TypeInv /\ SizeInv /\ job[b].status = "none"
  BY DEF Base, ReportInv, FreshConf
<1>2. \A c \in Content : item[b][c] = "none"
  BY <1>1 DEF ReportInv, FreshConf
<1>3. /\ job' \in [Conf -> Job]
      /\ \A d \in Conf \ {b} : job'[d] = job[d]
      /\ job'[b] = [status |-> "processing", cost |-> 0,
                    total |-> Len(conf[b].new) + Len(conf[b].dups)]
  BY <1>1, NewJobTyped
<1>4. /\ item' \in [Conf -> [Content -> Item]]
      /\ \A d \in Conf \ {b} : item'[d] = item[d]
      /\ item'[b] = [c \in Content |-> IF c \in D THEN "duplicate" ELSE item[b][c]]
  <2>1. "duplicate" \in Item
    BY DEF Item
  <2>2. QED
    BY <1>1, <2>1, MarkTyped
<1>5. job'[b].status = "processing"
      /\ job'[b].total = Len(conf[b].new) + Len(conf[b].dups)
  BY <1>3
<1>6. QED
  BY <1>2, <1>3, <1>4, <1>5 DEF JobsTyped

\* The ids a call does not hold yet are those of no call.
LEMMA ConfirmReport ==
  ASSUME Base, ReportInv, NEW k \in Call, NEW b \in Conf, Confirm(k, b)
  PROVE  ReportInv'
<1>1. /\ TypeInv /\ SizeInv /\ OneCallEach /\ JobsTyped /\ FreshConf /\ RowsTrue
      /\ Rightly /\ RunTally /\ EndTally
  BY DEF Base, ReportInv
<1>2. /\ At(k, "idle") /\ conf[b].status # "none" /\ Consume(b)
      /\ UNCHANGED <<registry, mine, log, may>>
  BY ConfirmKinds
<1>3. \A d \in Conf : conf'[d].status # "none" => d # b /\ conf'[d] = conf[d]
  BY <1>1, <1>2 DEF Consume, TypeInv, NoPending
<1>4. job[b].status = "none" /\ ~Running(b)
  BY <1>1, <1>2 DEF FreshConf
<1>5. CASE Return(k) /\ UNCHANGED <<job, item>>
  <2>1. Turns(k)
    BY <1>1, <1>5, ReturnTurns
  <2>2. Passive
    BY <1>1, <1>2, <1>3, <1>5, <2>1, TurnsPassive
  <2>3. QED
    BY <2>2, PassiveStep
<1>6. ASSUME NEW D, D \subseteq Range(conf[b].dups), NewJob(b), Mark(b, D, "duplicate"),
             Return(k) \/ (Starts(k, b) /\ conf[b].batch /\ D = Range(conf[b].dups))
      PROVE  ReportInv'
  <2>1. /\ JobsTyped'
        /\ \A d \in Conf \ {b} : job'[d] = job[d] /\ item'[d] = item[d]
        /\ job'[b].status = "processing"
        /\ job'[b].total = Len(conf[b].new) + Len(conf[b].dups)
        /\ \A c \in Content : item'[b][c] # "success" /\ item[b][c] = "none"
        /\ item'[b] = [c \in Content |-> IF c \in D THEN "duplicate" ELSE item[b][c]]
    BY <1>2, <1>6, SetsUpEffect
  <2>2. Turns(k) \/ (Opens(k, b) /\ conf[b].batch /\ D = Range(conf[b].dups))
    BY <1>1, <1>6, ReturnTurns, StartsOpens
  <2>3. \A j \in Call \ {k} : Keeps(j) /\ SameAnswer(j)
    BY <2>2 DEF Turns, CallChanges, Opens, Keeps, SameAnswer
  <2>4. \A j \in Call \ {k} : call[j].conf # b
    BY <1>4 DEF Running
  <2>5. RowsTrue'
    BY <1>1, <1>2, <2>1 DEF RowsTrue
  <2>6. EndTally'
    BY <1>1, <2>1 DEF EndTally, Tally
  <2>7. FreshConf'
    <3>1. \A d \in Conf \ {b} : Running(d)' => Running(d)
      BY <2>2, <2>3, McpAssumption DEF Running, Turns, Opens, Keeps
    <3>2. QED
      BY <1>1, <1>3, <2>1, <3>1 DEF FreshConf
  <2>8. Rightly'
    BY <1>1, <1>2, <2>2, <2>3 DEF Rightly, Turns, Opens, SameAnswer, Busy, At
  <2>9. RunTally'
    <3>1. ASSUME NEW j \in Call \ {k}, Busy(j)', call'[j].batch
          PROVE  /\ job'[call'[j].conf].status = "processing"
                 /\ Tally(item'[call'[j].conf], job'[call'[j].conf].total,
                          call'[j].ok, Len(call'[j].todo))
      <4>1. Busy(j) /\ Keeps(j) /\ call[j].batch /\ call[j].conf \in Conf \ {b}
        BY <1>1, <2>3, <2>4, <3>1 DEF Busy, SameAnswer, Keeps, OneCallEach
      <4>2. QED
        BY <1>1, <2>1, <4>1 DEF RunTally, Keeps
    <3>2. ASSUME Opens(k, b), D = Range(conf[b].dups)
          PROVE  /\ job'[call'[k].conf].status = "processing"
                 /\ Tally(item'[call'[k].conf], job'[call'[k].conf].total,
                          call'[k].ok, Len(call'[k].todo))
      <4>1. conf[b].new \in List /\ conf[b].dups \in List /\ Len(conf[b].new) \in Nat
        BY <1>1, ListFacts DEF TypeInv, GoodPending
      <4>2. item[b] \in [Content -> Item] /\ \A c \in Content : item[b][c] = "none"
        BY <1>1, <2>1 DEF JobsTyped
      <4>3. Tally([c \in Content |-> IF c \in Range(conf[b].dups) THEN "duplicate"
                                     ELSE item[b][c]],
                  Len(conf[b].new) + Len(conf[b].dups), 0, Len(conf[b].new))
        BY <4>1, <4>2, TallyStarts
      <4>4. Tally(item'[b], job'[b].total, 0, Len(conf[b].new))
        BY <2>1, <3>2, <4>3
      <4>5. QED
        BY <2>1, <3>2, <4>4 DEF Opens
    <3>3. Busy(k)' => Opens(k, b) /\ D = Range(conf[b].dups)
      BY <2>2 DEF Turns
    <3>4. QED
      BY <3>1, <3>2, <3>3 DEF RunTally
  <2>10. QED
    BY <2>1, <2>5, <2>6, <2>7, <2>8, <2>9 DEF ReportInv
<1>7. CASE Starts(k, b) /\ ~conf[b].batch /\ UNCHANGED <<job, item>>
  <2>1. Opens(k, b)
    BY <1>1, <1>7, StartsOpens
  <2>2. \A j \in Call \ {k} : Keeps(j) /\ SameAnswer(j)
    BY <2>1 DEF Opens
  <2>3. FreshConf'
    <3>1. \A d \in Conf \ {b} : Running(d)' => Running(d)
      BY <2>1, <2>2 DEF Running, Opens, Keeps
    <3>2. QED
      BY <1>1, <1>3, <1>7, <3>1 DEF FreshConf
  <2>4. RunTally'
    <3>1. \A j \in Call : Busy(j)' /\ call'[j].batch => j # k
      BY <1>7, <2>1 DEF Opens
    <3>2. QED
      BY <1>1, <1>7, <2>2, <3>1 DEF RunTally, Keeps, SameAnswer, Busy
  <2>5. Rightly'
    BY <1>1, <1>2, <2>1, <2>2 DEF Rightly, Opens, SameAnswer, At
  <2>6. QED
    BY <1>1, <1>2, <1>7, <2>3, <2>4, <2>5
    DEF ReportInv, JobsTyped, RowsTrue, EndTally, Tally
<1>8. QED
  BY <1>5, <1>6, <1>7, ConfirmKinds DEF SetsUp

(***************************************************************************)
(* An answer: the item's row, then the next item or the end of the job.    *)
(***************************************************************************)
Verdict(good) == IF good THEN "success" ELSE "failed"

\* One more item done, well or not: the tally still holds.
LEMMA SettledTally ==
  ASSUME Base, ReportInv, NEW k \in Call, At(k, "reply"), call[k].batch,
         NEW good \in BOOLEAN, NEW rest \in Nat, Len(call[k].todo) = rest + 1,
         NEW c, c = Head(call[k].todo),
         NEW row, row = [x \in Content |-> IF x \in {c} THEN Verdict(good)
                                           ELSE item[call[k].conf][x]]
  PROVE  Tally(row, job[call[k].conf].total, Done(k, good), rest)
<1> DEFINE b == call[k].conf
<1>1. TypeInv /\ OneCallEach /\ JobsTyped /\ RunTally /\ WorkInv /\ Busy(k)
  BY DEF Base, ReportInv, Busy, At
<1>2. b \in Conf
  BY <1>1 DEF OneCallEach
<1>3. item[b] \in [Content -> Item] /\ job[b].total \in Nat
  <2>1. job[b].total \in 0 .. MaxBatch
    BY <1>1, <1>2 DEF JobsTyped, Job
  <2>2. QED
    BY <1>1, <1>2, <2>1, BatchNat DEF JobsTyped
<1>4. c \in Content /\ call[k].ok \in Nat /\ call[k].todo \in List
  BY <1>1, ListFacts DEF TypeInv, GoodCall, WorkInv
<1>5. Tally(item[b], job[b].total, call[k].ok, Len(call[k].todo))
  BY <1>1 DEF RunTally
<1>6. Tally([x \in Content |-> IF x \in {c} THEN IF good THEN "success" ELSE "failed"
                               ELSE item[b][x]],
            job[b].total, IF good THEN call[k].ok + 1 ELSE call[k].ok, rest)
  <2> DEFINE left == Len(call[k].todo)
  <2>1. left \in Nat /\ left = rest + 1
    BY <1>4, ListFacts
  <2> HIDE DEF left, b
  <2>2. Tally(item[b], job[b].total, call[k].ok, left)
    BY <1>5 DEF left, b
  <2>3. QED
    BY <1>3, <1>4, <2>1, <2>2, TallyMoves
<1>7. QED
  BY <1>6, Zenon DEF Done, Verdict, b

\* What an answer leaves of the other calls and of their jobs.
LEMMA OthersStay ==
  ASSUME Base, ReportInv, NEW k \in Call, At(k, "reply"),
         Turns(k) \/ \E good \in BOOLEAN : Proceeds(k, good)
  PROVE  /\ \A j \in Call \ {k} : Keeps(j) /\ SameAnswer(j)
         /\ \A j \in Call \ {k} : Busy(j) => call[j].conf # call[k].conf
         /\ \A d \in Conf : Running(d)' => Running(d)
         /\ At(k, "reply")' = FALSE
<1>1. OneCallEach
  BY DEF Base
<1>2. \A j \in Call \ {k} : call'[j] = call[j]
  BY DEF Turns, Proceeds, CallChanges
<1>3. call'[k].conf = NoConf \/ call'[k].conf = call[k].conf
  BY DEF Turns, Proceeds
<1>4. \A d \in Conf : Running(d)' => Running(d)
  BY <1>2, <1>3, McpAssumption DEF Running
<1>5. \A j \in Call \ {k} : Busy(j) => call[j].conf # call[k].conf
  BY <1>1, McpAssumption DEF OneCallEach
<1>6. ~At(k, "reply")'
  BY DEF Turns, Proceeds, Busy, At
<1>7. QED
  BY <1>2, <1>4, <1>5, <1>6 DEF Keeps, SameAnswer

LEMMA AnswerReport ==
  ASSUME Base, ReportInv, NEW k \in Call, At(k, "reply"),
         NEW logged \in BOOLEAN, NEW good \in BOOLEAN,
         good => logged /\ call[k].created,
         Settled(k, logged, good), UNCHANGED <<mine, conf>>
  PROVE  ReportInv'
<1> DEFINE b == call[k].conf  c == Head(call[k].todo)
<1>1. /\ TypeInv /\ SizeInv /\ WorkInv /\ OneCallEach /\ JobsTyped /\ FreshConf
      /\ RowsTrue /\ Rightly /\ RunTally /\ EndTally /\ Busy(k) /\ mine' = mine
  BY DEF Base, ReportInv, Busy, At
<1>2. b \in Conf /\ c \in Content /\ call[k].batch \in BOOLEAN
  BY <1>1, ListFacts DEF OneCallEach, TypeInv, GoodCall, WorkInv
<1>3. Proceeds(k, good) \/ (~(Len(call[k].todo) > 1) /\ Return(k) /\ Turns(k))
  BY <1>1, SettledProceeds, ReturnTurns
<1>4. /\ \A j \in Call \ {k} : Keeps(j) /\ SameAnswer(j)
      /\ \A j \in Call \ {k} : Busy(j) => call[j].conf # b
      /\ \A d \in Conf : Running(d)' => Running(d)
      /\ At(k, "reply")' = FALSE
  BY <1>3, OthersStay
<1>5. /\ \A x \in Content : log[x] # "none" => log'[x] # "none"
      /\ good => log'[c] # "none" /\ c \in mine
  BY <1>1, <1>2 DEF Settled, TypeInv, Rightly
<1>6. Rightly'
  BY <1>1, <1>4 DEF Rightly, SameAnswer, At
<1>7. CASE ~call[k].batch
  <2>1. job' = job /\ item' = item
    BY <1>7 DEF Settled
  <2>2. RunTally'
    <3>1. \A j \in Call : Busy(j)' /\ call'[j].batch => j # k
      BY <1>3, <1>7 DEF Turns, Proceeds
    <3>2. QED
      BY <1>1, <1>4, <2>1, <3>1 DEF RunTally, Keeps, SameAnswer, Busy
  <2>3. FreshConf'
    BY <1>1, <1>4, <2>1 DEF FreshConf
  <2>4. QED
    BY <1>1, <1>5, <1>6, <2>1, <2>2, <2>3
    DEF ReportInv, JobsTyped, RowsTrue, EndTally, Tally
<1>8. CASE call[k].batch
  <2>1. Mark(b, {c}, Verdict(good))
    BY <1>8 DEF Settled, Verdict
  <2>2. /\ item' \in [Conf -> [Content -> Item]]
        /\ \A d \in Conf \ {b} : item'[d] = item[d]
        /\ item'[b] = [x \in Content |-> IF x \in {c} THEN Verdict(good) ELSE item[b][x]]
    <3>1. Verdict(good) \in Item
      BY DEF Verdict, Item
    <3> HIDE DEF b, c
    <3>2. QED
      BY <1>1, <1>2, <2>1, <3>1, MarkTyped
  <2>3. job[b].status = "processing"
    BY <1>1, <1>8 DEF RunTally
  <2>4. ASSUME NEW rest \in Nat, Len(call[k].todo) = rest + 1
        PROVE  Tally(item'[b], job[b].total, Done(k, good), rest)
    BY <1>8, <2>2, <2>4, SettledTally
  <2>5. RowsTrue'
    <3>1. ASSUME NEW d \in Conf, NEW x \in Content, item'[d][x] = "success"
          PROVE  x \in mine /\ log'[x] # "none"
      <4>1. CASE d = b /\ x = c
        <5>1. good
          BY <1>2, <2>2, <3>1, <4>1 DEF Verdict
        <5>2. QED
          BY <1>5, <4>1, <5>1
      <4>2. CASE ~(d = b /\ x = c)
        <5>1. item[d][x] = "success"
          BY <1>2, <2>2, <3>1, <4>2
        <5>2. QED
          BY <1>1, <1>5, <5>1 DEF RowsTrue
      <4>3. QED
        BY <4>1, <4>2
    <3>2. QED
      BY <1>1, <3>1 DEF RowsTrue
  <2>6. ASSUME job' \in [Conf -> Job], \A d \in Conf \ {b} : job'[d] = job[d],
               job'[b].status # "none",
               job'[b].status = "processing" \/ Turns(k)
        PROVE  /\ JobsTyped' /\ FreshConf'
               /\ \A d \in Conf \ {b} :
                    job'[d].status \in {"completed", "failed"} =>
                      /\ Tally(item'[d], job'[d].total, job'[d].cost, 0)
                      /\ job'[d].status = "failed" => job'[d].cost = 0
               /\ \A j \in Call \ {k} :
                    Busy(j)' /\ call'[j].batch =>
                      /\ job'[call'[j].conf].status = "processing"
                      /\ Tally(item'[call'[j].conf], job'[call'[j].conf].total,
                               call'[j].ok, Len(call'[j].todo))
    <3>1. JobsTyped'
      BY <2>2, <2>6 DEF JobsTyped
    <3>2. FreshConf'
      <4>1. conf' = conf
        OBVIOUS
      <4>2. conf[b].status = "none"
        BY <1>1, <1>2, <2>3 DEF FreshConf
      <4>3. QED
        BY <1>1, <1>4, <2>2, <2>6, <4>1, <4>2 DEF FreshConf
    <3>3. \A d \in Conf \ {b} :
            job'[d].status \in {"completed", "failed"} =>
              /\ Tally(item'[d], job'[d].total, job'[d].cost, 0)
              /\ job'[d].status = "failed" => job'[d].cost = 0
      BY <1>1, <2>2, <2>6 DEF EndTally
    <3>4. ASSUME NEW j \in Call \ {k}, Busy(j)', call'[j].batch
          PROVE  /\ job'[call'[j].conf].status = "processing"
                 /\ Tally(item'[call'[j].conf], job'[call'[j].conf].total,
                          call'[j].ok, Len(call'[j].todo))
      <4>1. Busy(j) /\ Keeps(j) /\ call[j].batch
        BY <1>4, <3>4 DEF Busy, SameAnswer, Keeps
      <4>2. call[j].conf \in Conf \ {b}
        BY <1>1, <1>4, <4>1 DEF OneCallEach
      <4>3. item'[call[j].conf] = item[call[j].conf] /\ job'[call[j].conf] = job[call[j].conf]
        BY <2>2, <2>6, <4>2
      <4>4. QED
        BY <1>1, <4>1, <4>3 DEF RunTally, Keeps
    <3>5. QED
      BY <3>1, <3>2, <3>3, <3>4
  <2>7. CASE Proceeds(k, good)
    <3>1. job' = job /\ Len(call[k].todo) > 1
      BY <2>7 DEF Settled, Proceeds
    <3>2. call[k].todo \in List
      BY <1>1 DEF TypeInv, GoodCall
    <3>3. /\ Len(Tail(call[k].todo)) \in Nat
          /\ Len(call[k].todo) = Len(Tail(call[k].todo)) + 1
      <4>1. \A s \in List : Len(s) > 1 => Len(Tail(s)) \in Nat /\ Len(s) = Len(Tail(s)) + 1
        BY LongTail, ListFacts
      <4>2. QED
        BY <3>1, <3>2, <4>1
    <3>4. Tally(item'[b], job[b].total, Done(k, good), Len(Tail(call[k].todo)))
      BY <2>4, <3>3
    <3>5. /\ job' \in [Conf -> Job] /\ \A d \in Conf \ {b} : job'[d] = job[d]
          /\ job'[b].status = "processing"
      BY <1>1, <2>3, <3>1 DEF JobsTyped
    <3>6. RunTally'
      <4>1. /\ job'[call'[k].conf].status = "processing"
            /\ Tally(item'[call'[k].conf], job'[call'[k].conf].total,
                     call'[k].ok, Len(call'[k].todo))
        BY <2>7, <3>1, <3>4, <3>5 DEF Proceeds
      <4>2. QED
        BY <2>6, <3>5, <4>1 DEF RunTally
    <3>7. EndTally'
      BY <2>6, <3>5 DEF EndTally
    <3>8. QED
      BY <1>6, <2>5, <2>6, <3>5, <3>6, <3>7 DEF ReportInv
  <2>8. CASE ~(Len(call[k].todo) > 1) /\ Return(k) /\ Turns(k)
    <3>1. Len(call[k].todo) = 0 + 1
      <4>1. call[k].todo \in List /\ call[k].todo # <<>>
        BY <1>1 DEF TypeInv, GoodCall, WorkInv
      <4>2. \A s \in List : s # <<>> /\ ~(Len(s) > 1) => Len(s) = 0 + 1
        <5>1. \A s \in List : s # <<>> => Len(s) \in Nat /\ Len(s) - 1 \in Nat
          <6>1. \A s \in List : s # <<>> => Tail(s) \in List /\ Len(Tail(s)) = Len(s) - 1
            BY ListFacts
          <6>2. QED
            BY <6>1, ListFacts
        <5>2. \A n \in Nat : n - 1 \in Nat /\ ~(n > 1) => n = 0 + 1
          OBVIOUS
        <5>3. QED
          BY <5>1, <5>2
      <4>3. QED
        BY <2>8, <4>1, <4>2
    <3>2. Tally(item'[b], job[b].total, Done(k, good), 0)
      BY <2>4, <3>1
    <3>3. Finished(b, Done(k, good), ~good) \/ job' = job
      BY <1>8, <2>8 DEF Settled, Done
    <3>4. RunTally' /\ EndTally' /\ JobsTyped' /\ FreshConf'
      <4>1. ~Busy(k)'
        BY <2>8 DEF Turns
      <4>2. CASE job' = job
        <5>1. /\ job' \in [Conf -> Job] /\ \A d \in Conf \ {b} : job'[d] = job[d]
              /\ job'[b].status = "processing"
          BY <1>1, <2>3, <4>2 DEF JobsTyped
        <5>2. QED
          BY <2>6, <4>1, <5>1 DEF RunTally, EndTally
      <4>3. CASE Finished(b, Done(k, good), ~good)
        <5>1. Done(k, good) \in 0 .. MaxBatch /\ (~good) \in BOOLEAN
          BY <1>1, DoneBound
        <5> HIDE DEF b
        <5>2. /\ job' \in [Conf -> Job]
              /\ \A d \in Conf \ {b} : job'[d] = job[d]
              /\ job'[b].total = job[b].total /\ job'[b].cost = Done(k, good)
              /\ job'[b].status = IF ~good /\ Done(k, good) = 0 THEN "failed"
                                  ELSE "completed"
          BY <1>1, <1>2, <4>3, <5>1, FinishedTyped
        <5>3. /\ Tally(item'[b], job'[b].total, job'[b].cost, 0)
              /\ job'[b].status = "failed" => job'[b].cost = 0
              /\ job'[b].status # "none"
          BY <3>2, <5>2 DEF b
        <5>4. QED
          BY <2>6, <2>8, <4>1, <5>2, <5>3 DEF RunTally, EndTally, b
      <4>4. QED
        BY <3>3, <4>2, <4>3
    <3>5. QED
      BY <1>6, <2>5, <3>4 DEF ReportInv
  <2>9. QED
    BY <1>3, <2>7, <2>8
<1>9. QED
  BY <1>2, <1>7, <1>8

LEMMA RecordEndsReport ==
  ASSUME Base, ReportInv, NEW k \in Call, RecordEnds(k) PROVE ReportInv'
<1>1. TypeInv /\ Rightly /\ RowsTrue /\ At(k, "reply")
  BY DEF Base, ReportInv, RecordEnds
<1>2. call[k].created \in BOOLEAN /\ call[k].batch \in BOOLEAN
  BY <1>1 DEF TypeInv, GoodCall
<1>3. UNCHANGED <<mine, conf>>
  BY DEF RecordEnds
<1>4. CASE \E logged, good \in BOOLEAN :
             (good => logged /\ call[k].created) /\ Settled(k, logged, good)
  BY <1>1, <1>3, <1>4, AnswerReport
<1>5. CASE \E logged \in BOOLEAN : LedgerGone(k, logged)
  <2>1. Turns(k) /\ job' = job /\ item' = item
    BY <1>1, <1>5, ReturnTurns DEF LedgerGone
  <2>2. \A c \in Content : log[c] # "none" => log'[c] # "none"
    BY <1>1, <1>5 DEF LedgerGone, TypeInv
  <2>3. /\ \A j \in Call : Busy(j)' => Busy(j) /\ Keeps(j)
        /\ \A j \in Call : call'[j].conf \in Conf => call'[j].conf = call[j].conf
        /\ Rightly'
    BY <1>1, <1>3, <2>1, McpAssumption
    DEF Turns, CallChanges, Busy, Keeps, Rightly, At
  <2>4. Passive
    BY <1>3, <2>1, <2>2, <2>3 DEF Passive
  <2>5. QED
    BY <2>4, PassiveStep
<1>6. QED
  BY <1>2, <1>4, <1>5 DEF RecordEnds

LEMMA ReportStep ==
  ASSUME Base, ReportInv, [Next]_vars PROVE ReportInv'
BY QuietPassive, PassiveStep, ConfirmReport, RecordEndsReport, Zenon

LEMMA BaseStep ==
  ASSUME Base, ReportInv, [Next]_vars PROVE Base'
BY TypeStep, WorkStep, SizeStep, OneCallStep DEF Base, ReportInv

LEMMA ReportInit == Init => Base /\ ReportInv
<1> SUFFICES ASSUME Init PROVE Base /\ ReportInv
  OBVIOUS
<1>1. TypeInv /\ WorkInv
  BY LedgerInit DEF LedgerIInv
<1>2. \A k \in Call : call[k] = Idle
  BY DEF Init
<1>3. SizeInv
  BY <1>2, IdleFits DEF Init, SizeInv
<1>4. OneCallEach
  BY <1>2, IdleGood, IdleFits, McpAssumption DEF OneCallEach, Busy
<1>5. JobsTyped
  <2>1. NoJob \in Job
    BY BatchNat DEF NoJob, Job
  <2>2. QED
    BY <2>1 DEF Init, JobsTyped, Item
<1>6. FreshConf
  BY DEF Init, FreshConf, NoPending
<1>7. RowsTrue /\ Rightly /\ RunTally /\ EndTally
  BY <1>2, IdleGood DEF Init, RowsTrue, Rightly, RunTally, EndTally, Busy, At, NoJob
<1>8. QED
  BY <1>1, <1>3, <1>4, <1>5, <1>6, <1>7 DEF Base, ReportInv

LEMMA ReportInvariant == Spec => [](Base /\ ReportInv)
<1>1. Base /\ ReportInv /\ [Next]_vars => (Base /\ ReportInv)'
  BY ReportStep, BaseStep
<1>2. QED
  BY ReportInit, <1>1, PTL DEF Spec

\* What a finished batch reports is so: each row marked success is of a record
\* this server created and has in its ledger, and the cost is the number of
\* those rows, or more when a content listed twice replaced a row of its own.
\* It holds through failing calls, lost answers, a failing ledger and restarts.
THEOREM BatchReports == Spec => []BatchReportIsTrue
<1>1. ASSUME Base, ReportInv, NEW b \in Conf, job[b].status \in {"completed", "failed"}
      PROVE  /\ \A c \in Rows(b, "success") : c \in mine /\ log[c] # "none"
             /\ job[b].cost >= Cardinality(Rows(b, "success"))
             /\ Cardinality(Content \ Rows(b, "none")) = job[b].total =>
                  job[b].cost = Cardinality(Rows(b, "success"))
             /\ job[b].status = "failed" => Rows(b, "success") = {}
  <2> DEFINE W == Won(item[b])  N == Noted(item[b])
             w == Cardinality(W)  n == Cardinality(N)
             cost == job[b].cost  total == job[b].total
  <2>1. Rows(b, "success") = W /\ Content \ Rows(b, "none") = N
    BY DEF Rows, Won, Noted
  <2>2. /\ Tally(item[b], total, cost, 0)
        /\ job[b].status = "failed" => cost = 0
    BY <1>1 DEF ReportInv, EndTally
  <2>3. cost \in 0 .. MaxBatch /\ total \in 0 .. MaxBatch
    BY <1>1 DEF ReportInv, JobsTyped, Job
  <2>4. w \in Nat /\ n \in Nat /\ (w = 0 => W = {})
    BY RowCounts, FS_EmptySet
  <2>5. \A c \in W : c \in mine /\ log[c] # "none"
    BY <1>1 DEF ReportInv, RowsTrue, Won
  <2>6. w <= cost /\ cost + n + 0 <= w + total
    BY <2>2 DEF Tally
  <2> HIDE DEF W, N, w, n, cost, total
  <2>7. cost >= w /\ (n = total => cost = w) /\ (cost = 0 => w = 0)
    BY <2>3, <2>4, <2>6, BatchNat
  <2>8. QED
    BY <2>1, <2>2, <2>4, <2>5, <2>7 DEF w, n, cost, total
<1>2. Base /\ ReportInv => BatchReportIsTrue
  BY <1>1 DEF BatchReportIsTrue
<1>3. QED
  BY ReportInvariant, <1>2, PTL
-----------------------------------------------------------------------------
(***************************************************************************)
(* Types.                                                                  *)
(***************************************************************************)
RegistryInv == /\ registry \subseteq Content /\ mine \subseteq registry
               /\ today \subseteq mine /\ dropped \in 0 .. MaxDropped
               /\ may \in FaultSets

LEMMA DroppedRange ==
  /\ 0 \in 0 .. MaxDropped
  /\ \A d \in 0 .. MaxDropped : /\ d < MaxDropped => d + 1 \in 0 .. MaxDropped
                                /\ d > 0 => d - 1 \in 0 .. MaxDropped
BY McpAssumption

LEMMA RegistryStep ==
  ASSUME TypeInv, WorkInv, RegistryInv, [Next]_vars PROVE RegistryInv'
<1>1. ASSUME NEW k \in Call, RecordHash(k) PROVE RegistryInv'
  <2>1. Head(call[k].todo) \in Content
    BY <1>1, ListFacts DEF RecordHash, At, Busy, WorkInv, TypeInv, GoodCall
  <2>2. dropped' \in 0 .. MaxDropped
    BY <1>1, DroppedRange DEF RecordHash, RegistryInv
  <2>3. UNCHANGED <<registry, mine, today>>
        \/ \E h \in Content : /\ registry' = registry \cup {h} /\ mine' = mine \cup {h}
                              /\ today' = today \cup {h}
    BY <1>1, <2>1 DEF RecordHash
  <2>4. may' = may
    BY <1>1 DEF RecordHash
  <2>5. QED
    BY <2>2, <2>3, <2>4 DEF RegistryInv
<1>2. CASE \E c \in Content : Elsewhere(c)
  BY <1>2 DEF Elsewhere, RegistryInv
<1>3. CASE \E c \in Content : Ages(c)
  BY <1>3 DEF Ages, RegistryInv
<1>4. CASE FeeAges
  BY <1>4, DroppedRange DEF FeeAges, RegistryInv
<1>5. CASE UNCHANGED <<registry, mine, today, dropped, may>>
  BY <1>5 DEF RegistryInv
<1>6. QED
  BY <1>1, <1>2, <1>3, <1>4, <1>5
  DEF Next, CallStep, Verify, PrepareEnds, RecordEnds, Prepare, Confirm, Expires,
      Collect, Restart, vars

LEMMA CallTyped ==
  ASSUME TypeInv, SizeInv, NEW k \in Call PROVE call[k] \in CallState
<1> DEFINE v == call[k]  x == Len(v.todo)  y == Len(v.new)  z == Len(v.dups)  o == v.ok
<1>1. v \in GoodCall
  BY DEF TypeInv
<1>2. v.todo \in List /\ v.new \in List /\ v.dups \in List /\ o \in Nat
  BY <1>1 DEF GoodCall
<1>3. x \in Nat /\ y \in Nat /\ z \in Nat
  BY <1>2, ListFacts
<1>4. x + y + z <= MaxBatch /\ o + x <= MaxBatch
  BY DEF SizeInv, Fits
<1>5. x <= MaxBatch /\ y <= MaxBatch /\ z <= MaxBatch /\ o \in 0 .. MaxBatch
  <2> HIDE DEF x, y, z, o
  <2>1. QED
    BY <1>2, <1>3, <1>4, BatchNat
<1>6. v.todo \in Items /\ v.new \in Items /\ v.dups \in Items
  BY <1>2, <1>5, ItemsOf
<1>7. QED
  BY <1>1, <1>5, <1>6 DEF GoodCall, CallState

LEMMA PendingTyped ==
  ASSUME TypeInv, SizeInv, NEW b \in Conf PROVE conf[b] \in Pending
<1> DEFINE p == conf[b]  y == Len(p.new)  z == Len(p.dups)
<1>1. p \in GoodPending
  BY DEF TypeInv
<1>2. p.new \in List /\ p.dups \in List
  BY <1>1 DEF GoodPending
<1>3. y \in Nat /\ z \in Nat
  BY <1>2, ListFacts
<1>4. y + z <= MaxBatch
  BY DEF SizeInv, Offered
<1>5. y <= MaxBatch /\ z <= MaxBatch
  <2> HIDE DEF y, z
  <2>1. QED
    BY <1>3, <1>4, BatchNat
<1>6. p.new \in Items /\ p.dups \in Items
  BY <1>2, <1>5, ItemsOf
<1>7. QED
  BY <1>1, <1>6 DEF GoodPending, Pending

\* Every variable keeps to its type: in particular no batch ever has more items
\* under way, offered, reported or paid for than the server takes in one.
THEOREM TypesHold == Spec => []TypeOK
<1>1. Base /\ ReportInv /\ RegistryInv => TypeOK
  BY CallTyped, PendingTyped
  DEF Base, ReportInv, RegistryInv, TypeOK, TypeInv, JobsTyped
<1>2. Init => RegistryInv
  BY DroppedRange DEF Init, RegistryInv
<1>3. Base /\ RegistryInv /\ [Next]_vars => RegistryInv'
  BY RegistryStep DEF Base
<1>4. QED
  BY ReportInvariant, <1>1, <1>2, <1>3, PTL DEF Spec
-----------------------------------------------------------------------------
(***************************************************************************)
(* The limits when calls overlap.                                          *)
(***************************************************************************)
\* The items under way, one by one.
Work   == {i \in Call \X (1 .. MaxBatch) : Busy(i[1]) /\ i[2] <= Len(call[i[1]].todo)}

\* Another call adds at most a batch to what the day already has.
Slack == (Cardinality(Call) - 1) * MaxBatch

LEMMA WorkFinite ==
  IsFiniteSet(Work) /\ Cardinality(Work) \in Nat
<1>1. IsFiniteSet(Call) /\ IsFiniteSet(1 .. MaxBatch)
  BY McpAssumption, FS_Interval
<1>2. IsFiniteSet(Call \X (1 .. MaxBatch))
  BY <1>1, FS_Product
<1>3. Work \subseteq Call \X (1 .. MaxBatch)
  BY DEF Work
<1>4. IsFiniteSet(Work)
  BY <1>2, <1>3, FS_Subset
<1>5. QED
  BY <1>4, FS_CardinalityType

\* A call at its records has its last item under way.
LEMMA LastItem ==
  ASSUME TypeInv, WorkInv, SizeInv, NEW k \in Call, Busy(k)
  PROVE  /\ <<k, Len(call[k].todo)>> \in Work
         /\ Len(call[k].todo) \in 1 .. MaxBatch
<1> DEFINE x == Len(call[k].todo)  o == call[k].ok
<1>1. call[k].todo \in List /\ call[k].todo # <<>> /\ o \in Nat
  BY DEF TypeInv, GoodCall, WorkInv
<1>2. x \in Nat /\ x - 1 \in Nat
  <2>1. \A s \in List : s # <<>> => Len(s) \in Nat /\ Len(s) - 1 \in Nat
    <3>1. \A s \in List : s # <<>> => Tail(s) \in List /\ Len(Tail(s)) = Len(s) - 1
      BY ListFacts
    <3>2. QED
      BY <3>1, ListFacts
  <2>2. QED
    BY <1>1, <2>1
<1>3. o + x <= MaxBatch
  BY DEF SizeInv, Fits
<1>4. x \in 1 .. MaxBatch
  <2> HIDE DEF x, o
  <2>1. QED
    BY <1>1, <1>2, <1>3, BatchNat
<1>5. QED
  BY <1>2, <1>4 DEF Work

LEMMA WorkShrinks ==
  ASSUME TypeInv, \/ Stays \/ \E k \in Call : Asks(k) \/ Rests(k)
  PROVE  Cardinality(Work') <= Cardinality(Work) /\ Cardinality(Work') \in Nat
<1>1. \A j \in Call : Busy(j)' => Busy(j) /\ call'[j].todo = call[j].todo
  BY IdleGood DEF Stays, Asks, Rests, CallChanges, Busy
<1>2. Work' \subseteq Work
  <2>1. ASSUME NEW i \in Call \X (1 .. MaxBatch), Busy(i[1])', i[2] <= Len(call'[i[1]].todo)
        PROVE  Busy(i[1]) /\ i[2] <= Len(call[i[1]].todo)
    <3>1. i[1] \in Call
      OBVIOUS
    <3>2. QED
      BY <1>1, <2>1, <3>1
  <2>2. QED
    BY <2>1 DEF Work, Busy
<1>3. QED
  BY <1>2, WorkFinite, FS_Subset, FS_CardinalityType

LEMMA WorkDone ==
  ASSUME TypeInv, WorkInv, SizeInv, NEW k \in Call, Busy(k), Rests(k) \/ GoesOn(k)
  PROVE  Cardinality(Work') + 1 <= Cardinality(Work) /\ Cardinality(Work') \in Nat
<1> DEFINE x == Len(call[k].todo)
<1>1. <<k, x>> \in Work /\ x \in 1 .. MaxBatch
  BY LastItem
<1>2. \A j \in Call \ {k} : call'[j] = call[j]
  BY DEF Rests, GoesOn, CallChanges
<1>3. Busy(k)' => Len(call'[k].todo) = x - 1
  <2>1. call[k].todo \in List
    BY DEF TypeInv, GoodCall
  <2>2. QED
    BY <2>1, LongTail DEF Rests, GoesOn, Busy
<1>4. Work' \subseteq Work \ {<<k, x>>}
  <2>1. ASSUME NEW i \in Call \X (1 .. MaxBatch), Busy(i[1])', i[2] <= Len(call'[i[1]].todo)
        PROVE  Busy(i[1]) /\ i[2] <= Len(call[i[1]].todo) /\ i # <<k, x>>
    <3>1. i[1] \in Call /\ i[2] \in Nat
      BY BatchNat
    <3>2. CASE i[1] = k
      <4>1. i[2] <= x - 1 /\ x \in Nat
        BY <1>1, <1>3, <2>1, <3>2, BatchNat, SMTT(30)
      <4>2. i[2] <= x /\ i[2] # x
        <5> HIDE DEF x
        <5>1. QED
          BY <3>1, <4>1
      <4>3. QED
        BY <3>2, <4>2
    <3>3. CASE i[1] # k
      <4>1. call'[i[1]] = call[i[1]]
        BY <1>2, <3>1, <3>3
      <4>2. QED
        BY <2>1, <3>3, <4>1 DEF Busy
    <3>4. QED
      BY <3>2, <3>3
  <2>2. QED
    BY <2>1 DEF Work, Busy
<1> DEFINE R == Work \ {<<k, x>>}
<1>5. /\ IsFiniteSet(Work) /\ Cardinality(Work) \in Nat
      /\ IsFiniteSet(R) /\ Cardinality(R) = Cardinality(Work) - 1
  BY <1>1, WorkFinite, FS_RemoveElement, ZenonT(40)
<1>6. IsFiniteSet(Work') /\ Cardinality(Work') <= Cardinality(R)
  BY <1>4, <1>5, FS_Subset
<1>7. Cardinality(Work') \in Nat
  BY <1>6, FS_CardinalityType
<1> HIDE DEF R
<1>8. QED
  BY <1>5, <1>6, <1>7

LEMMA WorkGrows ==
  ASSUME TypeInv, SizeInv, NEW k \in Call, Begins(k)
  PROVE  /\ Cardinality(Work) <= Slack
         /\ Cardinality(Work') <= Cardinality(Work) + Len(call'[k].todo)
         /\ Cardinality(Work') \in Nat /\ Len(call'[k].todo) \in Nat
<1> DEFINE n == Len(call'[k].todo)
           rest == Call \ {k}
           D == {k} \X (1 .. n)
<1>1. n \in Nat
  BY ListFacts DEF Begins, GoodCall
<1>2. ~Busy(k)
  BY DEF Begins, Busy, At
<1>3. \A j \in Call \ {k} : SameAnswer(j)
  BY DEF Begins
<1>4. /\ IsFiniteSet(Call) /\ Cardinality(Call) \in Nat
      /\ IsFiniteSet(rest) /\ Cardinality(rest) = Cardinality(Call) - 1
  BY McpAssumption, FS_RemoveElement, FS_CardinalityType
<1>5. IsFiniteSet(1 .. MaxBatch) /\ Cardinality(1 .. MaxBatch) = MaxBatch
  BY BatchNat, FS_Interval
<1>6. /\ IsFiniteSet(rest \X (1 .. MaxBatch))
      /\ Cardinality(rest \X (1 .. MaxBatch)) = Slack
  <2> HIDE DEF rest
  <2>1. /\ IsFiniteSet(rest \X (1 .. MaxBatch))
        /\ Cardinality(rest \X (1 .. MaxBatch)) = Cardinality(rest) * Cardinality(1 .. MaxBatch)
    BY <1>4, <1>5, FS_Product
  <2>2. QED
    BY <1>4, <1>5, <2>1, Zenon DEF Slack
<1>7. Work \subseteq rest \X (1 .. MaxBatch)
  <2>1. ASSUME NEW i \in Call \X (1 .. MaxBatch), Busy(i[1])
        PROVE  i \in rest \X (1 .. MaxBatch)
    <3>1. i[1] # k
      BY <1>2, <2>1
    <3>2. QED
      BY <2>1, <3>1
  <2>2. QED
    BY <2>1 DEF Work
<1>8. Cardinality(Work) <= Slack
  BY <1>6, <1>7, FS_Subset
<1>9. Work' \subseteq Work \cup D
  <2>1. ASSUME NEW i \in Call \X (1 .. MaxBatch), Busy(i[1])', i[2] <= Len(call'[i[1]].todo)
        PROVE  (Busy(i[1]) /\ i[2] <= Len(call[i[1]].todo)) \/ i \in D
    <3>1. i[1] \in Call /\ i[2] \in Nat /\ i[2] >= 1
      BY BatchNat
    <3>2. CASE i[1] = k
      <4>1. i[2] \in 1 .. n
        BY <1>1, <2>1, <3>1, <3>2
      <4>2. QED
        BY <3>2, <4>1
    <3>3. CASE i[1] # k
      BY <1>3, <2>1, <3>1, <3>3 DEF SameAnswer, Busy
    <3>4. QED
      BY <3>2, <3>3
  <2>2. QED
    BY <2>1 DEF Work, Busy
<1>10. IsFiniteSet(D) /\ Cardinality(D) = n
  <2>1. IsFiniteSet({k}) /\ Cardinality({k}) = 1
    BY FS_Singleton
  <2>2. IsFiniteSet(1 .. n) /\ Cardinality(1 .. n) = n
    BY <1>1, FS_Interval, SMTT(30)
  <2> HIDE DEF n
  <2>3. IsFiniteSet({k} \X (1 .. n)) /\ Cardinality({k} \X (1 .. n)) = 1 * n
    <3> DEFINE K == {k}  E == 1 .. n
    <3> HIDE DEF K, E
    <3>1. IsFiniteSet(K) /\ IsFiniteSet(E) /\ Cardinality(K) = 1 /\ Cardinality(E) = n
      BY <2>1, <2>2 DEF K, E
    <3>2. IsFiniteSet(K \X E) /\ Cardinality(K \X E) = Cardinality(K) * Cardinality(E)
      BY <3>1, FS_Product
    <3>3. QED
      BY <3>1, <3>2 DEF K, E
  <2>4. 1 * n = n
    BY <1>1 DEF n
  <2>5. QED
    BY <2>3, <2>4
<1> HIDE DEF D
<1>11. /\ IsFiniteSet(Work \cup D)
       /\ Cardinality(Work \cup D)
            = Cardinality(Work) + Cardinality(D) - Cardinality(Work \cap D)
  BY <1>10, WorkFinite, FS_Union
<1>12. Cardinality(Work \cap D) \in Nat /\ Cardinality(Work \cup D) \in Nat
  BY <1>11, WorkFinite, FS_Intersection, FS_CardinalityType
<1>13. IsFiniteSet(Work') /\ Cardinality(Work') <= Cardinality(Work \cup D)
  BY <1>9, <1>11, FS_Subset
<1>14. Cardinality(Work') \in Nat /\ Cardinality(Work) \in Nat
  BY <1>13, WorkFinite, FS_CardinalityType
<1> HIDE DEF n
<1>15. Cardinality(Work') <= Cardinality(Work) + n
  BY <1>1, <1>10, <1>11, <1>12, <1>13, <1>14
<1>16. QED
  BY <1>1, <1>8, <1>14, <1>15 DEF n

LEMMA WithinDown ==
  ASSUME NEW m \in Nat, NEW n \in Nat, NEW s \in Nat, m <= n, Within(n, s)
  PROVE  Within(m, s)
<1>1. Fee + Gas \in Nat /\ MaxRecords \in Nat /\ MaxSpend \in Nat
  BY McpAssumption
<1> DEFINE p == m * (Fee + Gas)  q == n * (Fee + Gas)  r == s * (Fee + Gas)
<1>2. \A a, c \in Nat : a * c \in Nat
  OBVIOUS
<1>3. p <= q /\ p \in Nat /\ q \in Nat /\ r \in Nat
  BY <1>1, <1>2, TimesMono
<1>4. n <= MaxRecords + s /\ q <= MaxSpend + r
  BY DEF Within
<1> HIDE DEF p, q, r
<1>5. m <= MaxRecords + s /\ p <= MaxSpend + r
  BY <1>1, <1>3, <1>4
<1>6. QED
  BY <1>5 DEF Within, p, r

\* What the limits allow, and as much again as the slack.
LEMMA WithinPlus ==
  ASSUME NEW n \in Nat, NEW w \in Nat, NEW s \in Nat, w <= s, Within(n, 0)
  PROVE  Within(n + w, s)
<1>1. Fee + Gas \in Nat /\ MaxRecords \in Nat /\ MaxSpend \in Nat
  BY McpAssumption
<1> DEFINE c == Fee + Gas
           p == n * c  q == w * c  r == s * c  t == (n + w) * c
<1>2. c \in Nat
  BY <1>1
<1> HIDE DEF c
<1>3. q <= r /\ q \in Nat /\ r \in Nat
  <2>1. \A a, b \in Nat : a * b \in Nat
    OBVIOUS
  <2>2. QED
    BY <1>2, <2>1, TimesMono
<1>4. t = p + q /\ p \in Nat
  <2>1. \A a, b, d \in Nat : (a + b) * d = a * d + b * d /\ a * d \in Nat
    BY SMT
  <2>2. QED
    BY <1>2, <2>1
<1>5. n <= MaxRecords /\ p <= MaxSpend
  BY WithinZero DEF c
<1> HIDE DEF p, q, r, t
<1>6. n + w <= MaxRecords + s /\ t <= MaxSpend + r
  BY <1>1, <1>3, <1>4, <1>5
<1>7. QED
  BY <1>6 DEF Within, t, r, c

OverlapLimit == Within(Fresh + Cardinality(Work), Slack)

LEMMA SlackNat == Slack \in Nat
<1>1. IsFiniteSet(Call) /\ Cardinality(Call) \in Nat /\ Cardinality(Call) # 0
  BY McpAssumption, FS_CardinalityType, FS_EmptySet
<1>2. \A a, b \in Nat : a * b \in Nat
  OBVIOUS
<1>3. Cardinality(Call) - 1 \in Nat
  BY <1>1
<1>4. QED
  BY <1>2, <1>3, BatchNat DEF Slack

LEMMA OverlapStep ==
  ASSUME Base, OverlapLimit, [Next]_vars PROVE OverlapLimit'
<1> DEFINE f == Fresh  w == Cardinality(Work)  f1 == Fresh'  w1 == Cardinality(Work')
<1>1. TypeInv /\ WorkInv /\ SizeInv
  BY DEF Base
<1>2. f \in Nat /\ w \in Nat /\ Slack \in Nat
  BY FreshNat, WorkFinite, SlackNat
<1>3. SUFFICES Within(f1 + w1, Slack)
  BY DEF OverlapLimit, Within, Slack
<1>4. Within(f + w, Slack)
  BY DEF OverlapLimit
<1>5. ASSUME f1 \in Nat, w1 \in Nat, f1 + w1 <= f + w PROVE Within(f1 + w1, Slack)
  <2> HIDE DEF f, w, f1, w1
  <2>1. f1 + w1 \in Nat /\ f + w \in Nat
    BY <1>2, <1>5
  <2>2. QED
    BY <1>2, <1>4, <1>5, <2>1, WithinDown
<1>6. CASE Stays /\ AgesOr
  <2>1. f1 \in Nat /\ f1 <= f /\ w1 \in Nat /\ w1 <= w
    BY <1>1, <1>6, FreshFalls, WorkShrinks
  <2>2. f1 + w1 <= f + w
    <3> HIDE DEF f, w, f1, w1
    <3>1. QED
      BY <1>2, <2>1
  <2>3. QED
    BY <1>5, <2>1, <2>2
<1>7. CASE \E k \in Call : log' = log /\ (Rests(k) \/ Asks(k))
  <2>1. f1 = f /\ w1 \in Nat /\ w1 <= w
    BY <1>1, <1>7, WorkShrinks DEF Fresh
  <2>2. f1 + w1 <= f + w
    <3> HIDE DEF f, w, f1, w1
    <3>1. QED
      BY <1>2, <2>1
  <2>3. QED
    BY <1>2, <1>5, <2>1, <2>2
<1>8. CASE \E k \in Call : MayLog /\ Busy(k) /\ (Rests(k) \/ GoesOn(k))
  <2>1. f1 \in Nat /\ f1 <= f + 1 /\ w1 \in Nat /\ w1 + 1 <= w
    BY <1>1, <1>8, FreshGrows, WorkDone
  <2>2. f1 + w1 <= f + w
    <3> HIDE DEF f, w, f1, w1
    <3>1. QED
      BY <1>2, <2>1
  <2>3. QED
    BY <1>5, <2>1, <2>2
<1>9. CASE \E k \in Call : log' = log /\ Begins(k)
  <2>1. PICK k \in Call : log' = log /\ Begins(k)
    BY <1>9
  <2> DEFINE n == Len(call'[k].todo)
  <2>2. w <= Slack /\ w1 <= w + n /\ w1 \in Nat /\ n \in Nat
    BY <1>1, <2>1, WorkGrows
  <2>3. f1 = f /\ Within(f + n, 0)
    BY <2>1 DEF Begins, Fresh
  <2> HIDE DEF f, w, f1, w1, n
  <2>4. f + n \in Nat /\ f1 + w1 \in Nat /\ (f + n) + w \in Nat /\ f1 + w1 <= (f + n) + w
    BY <1>2, <2>2, <2>3
  <2>5. Within((f + n) + w, Slack)
    BY <1>2, <2>2, <2>3, <2>4, WithinPlus
  <2>6. QED
    BY <1>2, <2>4, <2>5, WithinDown
<1>10. QED
  BY <1>1, <1>6, <1>7, <1>8, <1>9, StepKinds

LEMMA OverlapInit == Init => OverlapLimit
<1> SUFFICES ASSUME Init PROVE OverlapLimit
  OBVIOUS
<1>1. Fresh = 0
  <2>1. {c \in Content : log[c] = "fresh"} = {}
    BY DEF Init
  <2>2. QED
    BY <2>1, FS_EmptySet DEF Fresh
<1>2. Cardinality(Work) = 0
  <2>1. Work = {}
    BY IdleGood DEF Init, Work, Busy
  <2>2. QED
    BY <2>1, FS_EmptySet
<1>3. Within(0, 0)
  <2>1. 0 * (Fee + Gas) = 0 /\ MaxRecords >= 0 /\ MaxSpend >= 0
    BY McpAssumption
  <2>2. QED
    BY <2>1, WithinZero
<1>4. Within(0 + 0, Slack)
  <2>1. 0 <= Slack
    BY SlackNat
  <2>2. QED
    BY <1>3, <2>1, SlackNat, WithinPlus
<1>5. QED
  BY <1>1, <1>2, <1>4 DEF OverlapLimit
-----------------------------------------------------------------------------
(***************************************************************************)
(* What is really spent. A record of today is in the ledger, or is about   *)
(* to be logged, and then its item is still under way; or the guardrails   *)
(* never see it.                                                           *)
(***************************************************************************)
Hidden    == {c \in today : log[c] # "fresh" /\ ~Logging(c)}
Seen      == today \ Hidden
Answered  == {<<k, Len(call[k].todo)>> : k \in {j \in Call : At(j, "reply")}}
Unpaid    == {i \in Call \X (1 .. MaxBatch) : i[2] <= ToPay(i[1])}

Sound == TypeInv /\ WorkInv /\ SizeInv /\ RegistryInv

LEMMA SpentParts ==
  ASSUME RegistryInv
  PROVE  /\ Cardinality(Seen) \in Nat /\ Unnoted \in Nat
         /\ Spent = Cardinality(Seen) + Unnoted
<1>1. today \subseteq Content /\ dropped \in Nat
  BY McpAssumption DEF RegistryInv
<1>2. IsFiniteSet(today)
  BY <1>1, McpAssumption, FS_Subset
<1>3. today \cap Hidden = Hidden /\ Hidden \subseteq today
  BY DEF Hidden
<1>4. /\ IsFiniteSet(Hidden)
      /\ IsFiniteSet(Seen) /\ Cardinality(Seen) = Cardinality(today) - Cardinality(Hidden)
  <2>1. IsFiniteSet(Hidden)
    BY <1>2, <1>3, FS_Subset
  <2>2. /\ IsFiniteSet(today \ Hidden)
        /\ Cardinality(today \ Hidden) = Cardinality(today) - Cardinality(today \cap Hidden)
    BY <1>2, FS_Difference
  <2>3. QED
    BY <1>3, <2>1, <2>2 DEF Seen
<1>5. /\ Cardinality(today) \in Nat /\ Cardinality(Hidden) \in Nat
      /\ Cardinality(Seen) \in Nat
  BY <1>2, <1>4, FS_CardinalityType
<1>6. Unnoted = dropped + Cardinality(Hidden) /\ Spent = Cardinality(today) + dropped
  BY DEF Unnoted, Hidden, Spent
<1>7. QED
  BY <1>1, <1>4, <1>5, <1>6

\* The records seen are in the ledger's day, or one to each answered call.
LEMMA SeenBound ==
  ASSUME Sound
  PROVE  /\ Answered \subseteq Work /\ IsFiniteSet(Answered)
         /\ Cardinality(Answered) \in Nat
         /\ Cardinality(Seen) <= Fresh + Cardinality(Answered)
<1> DEFINE F == {c \in Content : log[c] = "fresh"}
           f == [i \in Answered |-> Head(call[i[1]].todo)]
           H == {f[i] : i \in Answered}
<1>1. TypeInv /\ WorkInv /\ SizeInv /\ RegistryInv /\ today \subseteq Content
  BY DEF Sound, RegistryInv
<1>2. Answered \subseteq Work
  <2>1. ASSUME NEW k \in Call, At(k, "reply") PROVE <<k, Len(call[k].todo)>> \in Work
    BY <1>1, <2>1, LastItem DEF Busy, At
  <2>2. QED
    BY <2>1 DEF Answered
<1>3. IsFiniteSet(Answered) /\ Cardinality(Answered) \in Nat
  BY <1>2, WorkFinite, FS_Subset, FS_CardinalityType
<1>4. f \in Surjection(Answered, H)
  BY DEF Surjection
<1>5. IsFiniteSet(H) /\ Cardinality(H) <= Cardinality(Answered)
  BY <1>3, <1>4, FS_Surjection
<1>6. ASSUME NEW c \in Seen PROVE c \in F \cup H
  <2>1. c \in Content /\ (log[c] = "fresh" \/ Logging(c))
    BY <1>1 DEF Seen, Hidden
  <2>2. CASE Logging(c)
    <3>1. PICK k \in Call : At(k, "reply") /\ Head(call[k].todo) = c
      BY <2>2 DEF Logging
    <3> DEFINE i == <<k, Len(call[k].todo)>>
    <3>2. i \in Answered /\ i[1] = k
      BY <3>1 DEF Answered
    <3>3. f[i] = c
      BY <3>1, <3>2
    <3> HIDE DEF i, f
    <3>4. QED
      BY <3>2, <3>3
  <2>3. QED
    BY <2>1, <2>2
<1> HIDE DEF f, H
<1>7. IsFiniteSet(F) /\ Cardinality(F) = Fresh /\ Fresh \in Nat
  BY FreshNat DEF Fresh
<1> HIDE DEF F
<1>8. /\ IsFiniteSet(F \cup H)
      /\ Cardinality(F \cup H) = Fresh + Cardinality(H) - Cardinality(F \cap H)
  BY <1>5, <1>7, FS_Union
<1>9. /\ Cardinality(H) \in Nat /\ Cardinality(F \cap H) \in Nat
      /\ Cardinality(F \cup H) \in Nat
  BY <1>5, <1>7, <1>8, FS_Intersection, FS_CardinalityType
<1>10. IsFiniteSet(Seen) /\ Cardinality(Seen) <= Cardinality(F \cup H)
  BY <1>6, <1>8, FS_Subset
<1>11. Cardinality(Seen) \in Nat
  BY <1>10, FS_CardinalityType
<1>12. QED
  BY <1>2, <1>3, <1>5, <1>7, <1>8, <1>9, <1>10, <1>11

\* An item still to be paid for is under way and is not its call's answered one.
LEMMA UnpaidBound ==
  ASSUME Sound
  PROVE  AllToPay \in Nat /\ AllToPay + Cardinality(Answered) <= Cardinality(Work)
<1>1. TypeInv /\ WorkInv /\ SizeInv
  BY DEF Sound
<1>2. ASSUME NEW i \in Call \X (1 .. MaxBatch), i[2] <= ToPay(i[1])
      PROVE  Busy(i[1]) /\ i[2] <= Len(call[i[1]].todo) /\ i \notin Answered
  <2> DEFINE k == i[1]  n == i[2]  x == Len(call[k].todo)
  <2>1. k \in Call /\ n \in Nat /\ n >= 1 /\ x \in Nat
    <3>1. i[1] \in Call /\ i[2] \in 1 .. MaxBatch
      OBVIOUS
    <3>2. call[k].todo \in List
      BY <1>1, <3>1 DEF TypeInv, GoodCall
    <3>3. x \in Nat
      BY <3>2, ListFacts
    <3> HIDE DEF x
    <3>4. QED
      BY <3>1, <3>3, BatchNat
  <2>2. Busy(k)
    <3>1. ~Busy(k) => ToPay(k) = 0
      BY DEF ToPay, Busy, At
    <3>2. QED
      BY <1>2, <2>1, <3>1
  <2>3. ToPay(k) <= x /\ (At(k, "reply") => ToPay(k) = x - 1)
        /\ ToPay(k) \in Int
    <3> HIDE DEF x
    <3>1. ToPay(k) = (IF At(k, "reply") THEN x - 1 ELSE IF At(k, "record") THEN x ELSE 0)
      BY DEF ToPay, x
    <3>2. QED
      BY <2>1, <3>1
  <2>4. n <= x /\ (At(k, "reply") => n # x)
    <3>1. n <= ToPay(k)
      BY <1>2
    <3> HIDE DEF x, n, k
    <3>2. QED
      BY <2>1, <2>3, <3>1
  <2>5. i \notin Answered
    <3>1. SUFFICES ASSUME NEW j \in Call, At(j, "reply"), i = <<j, Len(call[j].todo)>>
                   PROVE  FALSE
      BY DEF Answered
    <3>2. k = j /\ n = x
      BY <3>1
    <3>3. QED
      BY <2>4, <3>1, <3>2
  <2>6. QED
    BY <2>2, <2>4, <2>5
<1>3. Unpaid \subseteq Work /\ Unpaid \cap Answered = {}
  BY <1>2 DEF Unpaid, Work
<1>4. /\ Answered \subseteq Work /\ IsFiniteSet(Answered)
      /\ Cardinality(Answered) \in Nat
  BY SeenBound
<1>5. IsFiniteSet(Unpaid) /\ Cardinality(Unpaid) \in Nat /\ Cardinality({}) = 0
  BY <1>3, WorkFinite, FS_Subset, FS_CardinalityType, FS_EmptySet
<1>6. /\ IsFiniteSet(Unpaid \cup Answered)
      /\ Cardinality(Unpaid \cup Answered)
           = Cardinality(Unpaid) + Cardinality(Answered) - Cardinality(Unpaid \cap Answered)
  BY <1>4, <1>5, FS_Union
<1>7. Cardinality(Unpaid \cup Answered) <= Cardinality(Work)
  BY <1>3, <1>4, WorkFinite, FS_Subset
<1>8. Cardinality(Unpaid \cap Answered) = 0
  BY <1>3, <1>5
<1>9. AllToPay = Cardinality(Unpaid)
  BY DEF AllToPay, Unpaid
<1>10. QED
  BY <1>4, <1>5, <1>6, <1>7, <1>8, <1>9

\* The one call at its records: what it has answered is its own.
LEMMA AloneBound ==
  ASSUME Sound, AloneInv, NEW k \in Call, call[k].alone
  PROVE  /\ Cardinality(Seen) + ToPay(k) \in Nat
         /\ Cardinality(Seen) + ToPay(k) <= Fresh + Len(call[k].todo)
         /\ Fresh + Len(call[k].todo) \in Nat
<1> DEFINE x == Len(call[k].todo)  s == Cardinality(Seen)  a == Cardinality(Answered)
           f == Fresh  p == ToPay(k)
<1>1. /\ TypeInv /\ WorkInv /\ SizeInv /\ RegistryInv
      /\ At(k, "record") \/ At(k, "reply")
  BY DEF Sound, TypeInv, GoodCall, At
<1>2. x \in Nat /\ x >= 1 /\ f \in Nat
  <2>1. x \in 1 .. MaxBatch
    BY <1>1, LastItem DEF Busy, At
  <2> HIDE DEF x
  <2>2. QED
    BY <2>1, BatchNat, FreshNat
<1>3. s \in Nat /\ a \in Nat /\ s <= f + a
  BY <1>1, SpentParts, SeenBound
<1>4. \A j \in Call : At(j, "reply") => j = k
  BY DEF AloneInv, Busy, At
<1>5. CASE At(k, "reply")
  <2>1. p = x - 1
    BY <1>5 DEF ToPay
  <2>2. Answered \subseteq {<<k, x>>}
    BY <1>4 DEF Answered
  <2>3. a <= 1
    <3> DEFINE O == {<<k, x>>}
    <3>1. IsFiniteSet(O) /\ Cardinality(O) = 1 /\ Answered \subseteq O
      BY <2>2, FS_Singleton
    <3> HIDE DEF O
    <3>2. QED
      BY <3>1, FS_Subset
  <2> HIDE DEF x, s, a, f, p
  <2>4. s + p \in Nat /\ s + p <= f + x /\ f + x \in Nat
    BY <1>2, <1>3, <2>1, <2>3
  <2>5. QED
    BY <2>4 DEF x, s, f, p
<1>6. CASE ~At(k, "reply")
  <2>1. p = x
    BY <1>1, <1>6 DEF ToPay
  <2>2. Answered = {}
    BY <1>4, <1>6 DEF Answered
  <2>3. a = 0
    BY <2>2, FS_EmptySet
  <2> HIDE DEF x, s, a, f, p
  <2>4. s + p \in Nat /\ s + p <= f + x /\ f + x \in Nat
    BY <1>2, <1>3, <2>1, <2>3
  <2>5. QED
    BY <2>4 DEF x, s, f, p
<1>7. QED
  BY <1>5, <1>6

\* What the limits allow with a slack they allow with more of both.
LEMMA WithinMore ==
  ASSUME NEW n \in Nat, NEW s \in Nat, NEW u \in Nat, Within(n, s)
  PROVE  Within(n + u, s + u)
<1>1. Fee + Gas \in Nat /\ MaxRecords \in Nat /\ MaxSpend \in Nat
  BY McpAssumption
<1> DEFINE c == Fee + Gas
           p == n * c  q == u * c  r == s * c  t == (n + u) * c  v == (s + u) * c
<1>2. c \in Nat
  BY <1>1
<1>3. n <= MaxRecords + s /\ p <= MaxSpend + r
  BY DEF Within
<1> HIDE DEF c
<1>4. /\ t = p + q /\ v = r + q
      /\ p \in Nat /\ q \in Nat /\ r \in Nat
  <2>1. \A a, b, d \in Nat : (a + b) * d = a * d + b * d /\ a * d \in Nat
    BY SMT
  <2>2. QED
    BY <1>2, <2>1
<1> HIDE DEF p, q, r, t, v
<1>5. n + u <= MaxRecords + (s + u) /\ t <= MaxSpend + v
  BY <1>1, <1>3, <1>4
<1>6. QED
  BY <1>5 DEF Within, t, v, c

LEMMA AloneFromParts ==
  ASSUME Sound, AloneInv, LedgerAlone, TodayInv PROVE LimitWhenAlone
<1>1. RegistryInv
  BY DEF Sound
<1>2. ASSUME NEW k \in Call, call[k].alone PROVE Within(Spent + ToPay(k), Unnoted)
  <2> DEFINE n == Cardinality(Seen) + ToPay(k)  m == Fresh + Len(call[k].todo)
             s == Cardinality(Seen)  p == ToPay(k)
  <2>1. n \in Nat /\ m \in Nat /\ n <= m
    BY <1>2, AloneBound
  <2>2. Within(m, 0)
    BY <1>2 DEF LedgerAlone
  <2>3. Within(n, 0)
    <3> HIDE DEF n, m
    <3>1. QED
      BY <2>1, <2>2, WithinMono
  <2>4. s \in Nat /\ Unnoted \in Nat /\ Spent = s + Unnoted
    BY <1>1, SpentParts
  <2>5. p \in Int
    <3>1. Len(call[k].todo) \in Nat
      BY ListFacts DEF Sound, TypeInv, GoodCall
    <3>2. QED
      BY <3>1 DEF ToPay
  <2>6. Within(n + Unnoted, 0 + Unnoted)
    <3> HIDE DEF n, m
    <3>1. QED
      BY <2>1, <2>3, <2>4, WithinMore
  <2>7. Spent + p = n + Unnoted /\ 0 + Unnoted = Unnoted
    <3>1. n = s + p
      OBVIOUS
    <3> HIDE DEF n, m, s, p
    <3>2. QED
      BY <2>4, <2>5, <3>1
  <2>8. QED
    BY <2>6, <2>7
<1>3. ASSUME Without({"lost", "fee", "ledger", "crash"}) PROVE Unnoted = 0
  <2>1. dropped = 0 /\ {c \in today : log[c] # "fresh" /\ ~Logging(c)} = {}
    BY <1>3 DEF TodayInv, Without
  <2>2. QED
    BY <2>1, FS_EmptySet DEF Unnoted
<1>4. QED
  BY <1>2, <1>3 DEF LimitWhenAlone

LEMMA DayFromParts ==
  ASSUME Sound, OverlapLimit PROVE Within(Spent + AllToPay, Slack + Unnoted)
<1> DEFINE s == Cardinality(Seen)  a == Cardinality(Answered)  w == Cardinality(Work)
           f == Fresh  p == AllToPay  u == Unnoted
<1>1. s \in Nat /\ u \in Nat /\ Spent = s + u
  BY SpentParts DEF Sound
<1>2. a \in Nat /\ s <= f + a /\ p \in Nat /\ p + a <= w
  BY SeenBound, UnpaidBound
<1>3. f \in Nat /\ w \in Nat /\ Slack \in Nat
  BY FreshNat, WorkFinite, SlackNat
<1>4. Within(f + w, Slack)
  BY DEF OverlapLimit
<1> HIDE DEF s, a, w, f, p, u
<1>5. s + p \in Nat /\ f + w \in Nat /\ s + p <= f + w
  BY <1>1, <1>2, <1>3
<1>6. Within(s + p, Slack)
  BY <1>3, <1>4, <1>5, WithinDown
<1>7. Within((s + p) + u, Slack + u)
  BY <1>1, <1>3, <1>5, <1>6, WithinMore
<1>8. Spent + p = (s + p) + u
  BY <1>1, <1>2
<1>9. QED
  BY <1>7, <1>8 DEF p, u

LEMMA SoundAlways == Spec => []Sound
<1>1. Init => RegistryInv
  BY DroppedRange DEF Init, RegistryInv
<1>2. Base /\ RegistryInv /\ [Next]_vars => RegistryInv'
  BY RegistryStep DEF Base
<1>3. Base /\ RegistryInv => Sound
  BY DEF Base, Sound
<1>4. QED
  BY ReportInvariant, <1>1, <1>2, <1>3, PTL DEF Spec

\* A call that runs alone takes what is really spent in a day no further than
\* the day's limits, but for what the ledger was never told of: fees paid to no
\* avail, and records whose answer was lost, whose entry failed or whose call
\* died. Without lost answers, dropped fees, a failing ledger and crashes there
\* is nothing of the kind, whatever other calls did before it and however often
\* the registry and the SDK failed without effect.
THEOREM AloneWithinLimits == Spec => []LimitWhenAlone
<1>1. Sound /\ LimitIInv /\ LedgerIInv => LimitWhenAlone
  BY AloneFromParts DEF LimitIInv, LedgerIInv
<1>2. QED
  BY SoundAlways, LimitAlways, LedgerAlways, <1>1, PTL

\* However calls overlap, what is really spent in a day and what the confirmed
\* calls have still to pay exceed the day's limits by no more than a batch for
\* every other call and what the ledger was never told of.
THEOREM DailyLimit == Spec => []DailyLimitHolds
<1>1. OverlapLimit /\ Sound /\ LimitWhenAlone => DailyLimitHolds
  BY DayFromParts DEF DailyLimitHolds, Slack
<1>2. Base /\ OverlapLimit /\ [Next]_vars => OverlapLimit'
  BY OverlapStep
<1>3. QED
  BY AloneWithinLimits, SoundAlways, ReportInvariant, OverlapInit, <1>1, <1>2, PTL
  DEF Spec
=============================================================================
