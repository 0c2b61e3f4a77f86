-------------------------- MODULE RecordsV1Proofs --------------------------
(***************************************************************************)
(* Proofs about RecordsV1, for any contents, nonces, payments, requests    *)
(* and faults, and about SdkV1 against it, for any number of attempts.     *)
(***************************************************************************)
EXTENDS SdkV1, TLAPS

\* A request owns the payment whose attempt it has inserted.
Owning == {"verify", "settle", "insert", "enqueue", "link", "undo"}

\* Some request that is at one of these awaits with p.
OwnedAt(p, pcs) == \E r \in Req : req[r].pc \in pcs /\ req[r].pay = p

GoodReq(r) ==
  LET q == req[r] IN
  /\ q.pc # "idle" => q.content \in Content /\ q.nonce \in Nonce
  /\ q.pc \in Owning \cup {"attempt"} => q.pay \in Pay
  /\ q.pc \in Owning => /\ attempts[q.pay].status # "none"
                        /\ attempts[q.pay].content = q.content
                        /\ attempts[q.pay].nonce = q.nonce
                        /\ attempts[q.pay].batch = q.batch
  /\ q.pc \in {"verify", "settle", "insert"} => ~Recorded(q.pay)
  /\ q.pc \in {"settle", "insert", "enqueue", "link"} => q.pay \in paid
  /\ q.pc = "verify" /\ q.pay \in Usdc => q.pay \notin paid
  /\ q.pc \in {"insert", "enqueue", "link"} => attempts[q.pay].status = "settled"
  /\ q.pc \in {"enqueue", "link"} =>
       [content |-> q.content, nonce |-> q.nonce, pay |-> q.pay] \in records
  /\ q.pc = "undo" /\ Without({"db", "lostReply"}) => ~Recorded(q.pay)

Conflict(p) ==
  \E e \in records : e.content = attempts[p].content \/ e.nonce = attempts[p].nonce

GoodPay(p) ==
  /\ attempts[p].status = "none" => ~Recorded(p) /\ (p \in Usdc => p \notin paid)
  /\ Without({"db", "lostReply"}) /\ attempts[p].status = "failed" => ~Recorded(p)
  /\ Without({"crash", "db", "lostReply"}) =>
       /\ attempts[p].status = "settled" /\ ~attempts[p].batch
            => Recorded(p) \/ OwnedAt(p, Owning)
       /\ p \in Usdc \cap paid =>
            Recorded(p) \/ Conflict(p) \/ OwnedAt(p, {"settle", "insert"})

GoodRecord(e) ==
  /\ e.pay \in paid /\ attempts[e.pay].status \in {"settled", "failed"}
  /\ attempts[e.pay].content = e.content

AllDiffer ==
  \A e, f \in records :
    e.pay = f.pay \/ e.content = f.content \/ e.nonce = f.nonce => e = f

OneOwner ==
  \A r, s \in Req : /\ req[r].pc \in Owning /\ req[s].pc \in Owning
                    /\ req[r].pay = req[s].pay
                    => r = s

RecordInv ==
  /\ TypeOK
  /\ \A r \in Req : GoodReq(r)
  /\ \A p \in Pay : GoodPay(p)
  /\ \A e \in records : GoodRecord(e)
  /\ AllDiffer /\ OneOwner
-----------------------------------------------------------------------------
LEMMA RecordInit == Init => RecordInv
<1> SUFFICES ASSUME Init PROVE RecordInv
  OBVIOUS
<1>1. Blank \in Request /\ Blank.pc = "idle" /\ NoAttempt \in Attempt
      /\ NoAttempt.status = "none"
  BY DEF Blank, Request, PC, Answer, NoAttempt, Attempt, Status
<1>2. TypeOK
  BY <1>1 DEF Init, TypeOK
<1>3. \A r \in Req : req[r].pc = "idle"
  BY <1>1 DEF Init
<1>4. \A p \in Pay : attempts[p].status = "none"
  BY <1>1 DEF Init
<1>5. records = {} /\ paid = {}
  BY DEF Init
<1>6. \A r \in Req : GoodReq(r)
  BY <1>3 DEF GoodReq, Owning
<1>7. \A p \in Pay : GoodPay(p)
  BY <1>4, <1>5 DEF GoodPay, Recorded
<1>8. QED
  BY <1>2, <1>3, <1>5, <1>6, <1>7 DEF RecordInv, AllDiffer, OneOwner, Owning

\* What concerns other payments than p stays good.
LEMMA KeepReq ==
  ASSUME NEW s \in Req, GoodReq(s), req'[s] = req[s], UNCHANGED may,
         records \subseteq records',
         req[s].pc \in Owning =>
           /\ attempts'[req[s].pay] = attempts[req[s].pay]
           /\ req[s].pay \in paid' <=> req[s].pay \in paid
           /\ Recorded(req[s].pay)' => Recorded(req[s].pay)
  PROVE  GoodReq(s)'
BY DEF GoodReq, Owning, Without, Recorded

LEMMA KeepPay ==
  ASSUME NEW p \in Pay, GoodPay(p), UNCHANGED may, records \subseteq records',
         attempts'[p] = attempts[p], p \in paid' <=> p \in paid,
         Recorded(p)' <=> Recorded(p),
         OwnedAt(p, Owning) => OwnedAt(p, Owning)',
         OwnedAt(p, {"settle", "insert"}) => OwnedAt(p, {"settle", "insert"})'
  PROVE  GoodPay(p)'
<1>1. Conflict(p) => Conflict(p)'
  BY DEF Conflict
<1>2. QED
  BY <1>1 DEF GoodPay, Without

\* A request that has no payment of its own moves to v, and nothing else does.
LEMMA Outside ==
  ASSUME RecordInv, NEW r \in Req, NEW v \in Request,
         req' = [req EXCEPT ![r] = v],
         UNCHANGED <<records, attempts, paid, jobs, may>>,
         req[r].pc \notin Owning, v.pc \notin Owning,
         v.pc # "idle" => v.content \in Content /\ v.nonce \in Nonce,
         v.pc = "attempt" => v.pay \in Pay
  PROVE  RecordInv'
<1>1. req' \in [Req -> Request] /\ req'[r] = v
      /\ \A s \in Req : s # r => req'[s] = req[s]
  BY DEF RecordInv, TypeOK
<1>2. TypeOK'
  BY <1>1 DEF RecordInv, TypeOK
<1>3. ASSUME NEW s \in Req PROVE GoodReq(s)'
  <2>1. CASE s = r
    BY <1>1, <2>1 DEF GoodReq, Owning
  <2>2. CASE s # r
    BY <1>1, <2>2, KeepReq DEF RecordInv, Recorded
  <2>3. QED
    BY <2>1, <2>2
<1>4. ASSUME NEW p \in Pay PROVE GoodPay(p)'
  <2>1. OwnedAt(p, Owning) => OwnedAt(p, Owning)'
    BY <1>1 DEF OwnedAt
  <2>2. OwnedAt(p, {"settle", "insert"}) => OwnedAt(p, {"settle", "insert"})'
    BY <1>1 DEF OwnedAt, Owning
  <2>3. QED
    BY <2>1, <2>2, KeepPay DEF RecordInv, Recorded
<1>5. AllDiffer' /\ \A e \in records : GoodRecord(e)'
  BY DEF RecordInv, AllDiffer, GoodRecord
<1>6. OneOwner'
  BY <1>1 DEF RecordInv, OneOwner
<1>7. QED
  BY <1>2, <1>3, <1>4, <1>5, <1>6 DEF RecordInv

\* The owner of p moves to v, and nothing of other payments changes.
LEMMA Inside ==
  ASSUME RecordInv, NEW r \in Req, NEW v \in Request, NEW p \in Pay,
         req[r].pay = p, req' = [req EXCEPT ![r] = v], UNCHANGED may, TypeOK',
         records \subseteq records',
         \A c \in Pay : c # p => /\ attempts'[c] = attempts[c]
                                 /\ c \in paid' <=> c \in paid
                                 /\ Recorded(c)' <=> Recorded(c),
         v.pc \in Owning => v.pay = p,
         \A s \in Req : s # r /\ req[s].pc \in Owning => req[s].pay # p,
         GoodReq(r)', GoodPay(p)',
         \A e \in records' : GoodRecord(e)', AllDiffer'
  PROVE  RecordInv'
<1>1. req'[r] = v /\ \A s \in Req : s # r => req'[s] = req[s]
  BY DEF RecordInv, TypeOK
<1>2. ASSUME NEW s \in Req PROVE GoodReq(s)'
  <2>1. CASE s = r
    BY <2>1
  <2>2. CASE s # r
    <3>1. GoodReq(s) /\ req'[s] = req[s]
      BY <1>1, <2>2 DEF RecordInv
    <3>2. req[s].pc \in Owning => req[s].pay \in Pay /\ req[s].pay # p
      BY <2>2, <3>1 DEF GoodReq
    <3>3. QED
      BY <3>1, <3>2, KeepReq
  <2>3. QED
    BY <2>1, <2>2
<1>3. ASSUME NEW c \in Pay PROVE GoodPay(c)'
  <2>1. CASE c = p
    BY <2>1
  <2>2. CASE c # p
    <3>1. \A s \in Req : req[s].pay = c => req'[s] = req[s]
      BY <1>1, <2>2
    <3>2. /\ OwnedAt(c, Owning) => OwnedAt(c, Owning)'
          /\ OwnedAt(c, {"settle", "insert"}) => OwnedAt(c, {"settle", "insert"})'
      BY <3>1 DEF OwnedAt
    <3>3. QED
      BY <2>2, <3>2, KeepPay DEF RecordInv
  <2>3. QED
    BY <2>1, <2>2
<1>4. OneOwner'
  BY <1>1 DEF RecordInv, OneOwner
<1>5. QED
  BY <1>2, <1>3, <1>4 DEF RecordInv
-----------------------------------------------------------------------------
(***************************************************************************)
(* How a request moves.                                                    *)
(***************************************************************************)
Same(v, q) == v.content = q.content /\ v.nonce = q.nonce /\ v.pay = q.pay
              /\ v.batch = q.batch

LEMMA GotoIs ==
  ASSUME RecordInv, NEW r \in Req, NEW pc \in PC, Goto(r, pc)
  PROVE  \E v \in Request : /\ req' = [req EXCEPT ![r] = v] /\ req'[r] = v
                            /\ v.pc = pc /\ Same(v, req[r])
<1> DEFINE v == [req[r] EXCEPT !.pc = pc]
<1>1. req \in [Req -> Request] /\ req[r] \in Request
  BY DEF RecordInv, TypeOK
<1>2. req' = [req EXCEPT ![r] = v]
  BY <1>1 DEF Goto
<1>3. v \in Request /\ v.pc = pc /\ Same(v, req[r])
  BY <1>1 DEF Request, Same
<1> HIDE DEF v
<1>4. QED
  BY <1>1, <1>2, <1>3

LEMMA ReplyIs ==
  ASSUME RecordInv, NEW r \in Req, NEW a \in Answer, Reply(r, a)
  PROVE  \E v \in Request : /\ req' = [req EXCEPT ![r] = v] /\ req'[r] = v
                            /\ v.pc = "idle" /\ v.answer = a
<1> DEFINE v == [Blank EXCEPT !.answer = a]
<1>1. req \in [Req -> Request]
  BY DEF RecordInv, TypeOK
<1>2. req' = [req EXCEPT ![r] = v]
  BY DEF Reply
<1>3. v \in Request /\ v.pc = "idle" /\ v.answer = a
  BY DEF Blank, Request, PC, Answer
<1> HIDE DEF v
<1>4. QED
  BY <1>1, <1>2, <1>3

\* The awaits with a catch that undoes the attempt.
Caught(q) == \/ q.pc \in {"verify", "settle"}
             \/ q.pc \in {"insert", "link"} /\ ~q.batch

LEMMA ThrowsIs ==
  ASSUME RecordInv, NEW r \in Req, NEW a \in Answer, Throws(r, a)
  PROVE  \E v \in Request : /\ req' = [req EXCEPT ![r] = v] /\ req'[r] = v
                            /\ v.answer = a
                            /\ \/ v.pc = "undo" /\ Same(v, req[r]) /\ Caught(req[r])
                               \/ v.pc = "idle" /\ ~Caught(req[r])
<1>1. CASE Caught(req[r])
  <2> DEFINE v == [req[r] EXCEPT !.pc = "undo", !.answer = a]
  <2>1. req \in [Req -> Request] /\ req[r] \in Request
    BY DEF RecordInv, TypeOK
  <2>2. req' = [req EXCEPT ![r] = v]
    BY <1>1 DEF Throws, Caught
  <2>3. v \in Request /\ v.pc = "undo" /\ Same(v, req[r]) /\ v.answer = a
    BY <2>1 DEF Request, Same, PC
  <2> HIDE DEF v
  <2>4. QED
    BY <1>1, <2>1, <2>2, <2>3
<1>2. CASE ~Caught(req[r])
  <2>1. Reply(r, a)
    BY <1>2 DEF Throws, Caught
  <2>2. QED
    BY <1>2, <2>1, ReplyIs
<1>3. QED
  BY <1>1, <1>2

\* What is known of a request that owns p.
Owner(r, p) ==
  /\ req[r].pay = p /\ attempts[p] \in Attempt /\ attempts[p].status # "none"
  /\ attempts[p].content = req[r].content /\ attempts[p].nonce = req[r].nonce
  /\ attempts[p].batch = req[r].batch
  /\ req[r].content \in Content /\ req[r].nonce \in Nonce
  /\ GoodReq(r) /\ GoodPay(p)
  /\ Recorded(p) => attempts[p].status \in {"settled", "failed"}
  /\ \A s \in Req : s # r /\ req[s].pc \in Owning => req[s].pay # p

LEMMA OwnerFacts ==
  ASSUME RecordInv, NEW r \in Req, req[r].pc \in Owning
  PROVE  \E p \in Pay : Owner(r, p)
<1>1. GoodReq(r) /\ req[r].pc # "idle"
  BY DEF RecordInv, Owning
<1>2. PICK p \in Pay : req[r].pay = p
  BY <1>1 DEF GoodReq
<1>3. attempts[p] \in Attempt /\ GoodPay(p)
  BY DEF RecordInv, TypeOK
<1>4. Recorded(p) => attempts[p].status \in {"settled", "failed"}
  BY DEF Recorded, RecordInv, GoodRecord
<1>5. \A s \in Req : s # r /\ req[s].pc \in Owning => req[s].pay # p
  BY <1>2 DEF RecordInv, OneOwner
<1>6. QED
  BY <1>1, <1>2, <1>3, <1>4, <1>5 DEF Owner, GoodReq

\* It moves to v, its attempt becomes a, and its payment may arrive.
LEMMA OwnerMoves ==
  ASSUME RecordInv, NEW r \in Req, NEW p \in Pay, Owner(r, p), req[r].pc \in Owning,
         NEW v \in Request, req' = [req EXCEPT ![r] = v],
         NEW a \in Attempt, attempts' = [attempts EXCEPT ![p] = a],
         a.content = attempts[p].content, a.nonce = attempts[p].nonce,
         a.batch = attempts[p].batch,
         Recorded(p) => a.status \in {"settled", "failed"},
         paid' = paid \/ paid' = paid \cup {p},
         jobs' \subseteq {e.content : e \in records}, UNCHANGED <<records, may>>,
         v.pc \in Owning => Same(v, req[r]),
         GoodReq(r)', GoodPay(p)'
  PROVE  RecordInv'
<1>1. attempts \in [Pay -> Attempt] /\ req \in [Req -> Request]
  BY DEF RecordInv, TypeOK
<1>2. /\ attempts' \in [Pay -> Attempt] /\ attempts'[p] = a
      /\ \A c \in Pay : c # p => attempts'[c] = attempts[c]
  BY <1>1
<1>3. req' \in [Req -> Request]
  BY <1>1
<1>4. TypeOK'
  BY <1>2, <1>3 DEF RecordInv, TypeOK
<1>5. ASSUME NEW e \in records PROVE GoodRecord(e)'
  <2>1. GoodRecord(e) /\ e.pay \in Pay
    BY DEF RecordInv, TypeOK, Record
  <2>2. CASE e.pay = p
    BY <1>2, <2>1, <2>2 DEF GoodRecord, Recorded
  <2>3. CASE e.pay # p
    BY <1>2, <2>1, <2>3 DEF GoodRecord
  <2>4. QED
    BY <2>2, <2>3
<1>6. AllDiffer'
  BY DEF RecordInv, AllDiffer
<1>7. \A c \in Pay : c # p => /\ attempts'[c] = attempts[c]
                              /\ c \in paid' <=> c \in paid
                              /\ Recorded(c)' <=> Recorded(c)
  BY <1>2 DEF Recorded
<1>8. v.pc \in Owning => v.pay = p
  BY DEF Same, Owner
<1>9. QED
  BY <1>4, <1>5, <1>6, <1>7, <1>8, Inside DEF Owner

\* The same without a change of the attempt.
LEMMA OwnerGoes ==
  ASSUME RecordInv, NEW r \in Req, NEW p \in Pay, Owner(r, p), req[r].pc \in Owning,
         NEW v \in Request, req' = [req EXCEPT ![r] = v], UNCHANGED attempts,
         paid' = paid \/ paid' = paid \cup {p},
         jobs' \subseteq {e.content : e \in records}, UNCHANGED <<records, may>>,
         v.pc \in Owning => Same(v, req[r]),
         GoodReq(r)', GoodPay(p)'
  PROVE  RecordInv'
<1>1. attempts[p] \in Attempt /\ attempts' = [attempts EXCEPT ![p] = attempts[p]]
  BY DEF RecordInv, TypeOK
<1>2. Recorded(p) => attempts[p].status \in {"settled", "failed"}
  BY DEF Owner
<1>3. QED
  BY <1>1, <1>2, OwnerMoves
-----------------------------------------------------------------------------
(***************************************************************************)
(* The steps.                                                              *)
(***************************************************************************)
LEMMA SubmitInv ==
  ASSUME RecordInv, NEW r \in Req, NEW c \in Content, NEW n \in Nonce,
         NEW p \in Pay \cup {NoPay}, NEW batch \in BOOLEAN, Submit(r, c, n, p, batch)
  PROVE  RecordInv'
<1> DEFINE v == [pc |-> "precheck", content |-> c, nonce |-> n, pay |-> p,
                 batch |-> batch, answer |-> "none"]
<1>1. v \in Request /\ v.pc = "precheck" /\ v.content = c /\ v.nonce = n
  BY DEF Request, PC, Answer
<1>2. req' = [req EXCEPT ![r] = v] /\ req[r].pc = "idle"
      /\ UNCHANGED <<records, attempts, paid, jobs, may>>
  BY DEF Submit, At
<1> HIDE DEF v
<1>3. QED
  BY <1>1, <1>2, Outside DEF Owning

\* Requests that have no payment yet.
LEMMA EarlyInv ==
  ASSUME RecordInv, NEW r \in Req, req[r].pc \in {"precheck", "dups", "attempt"},
         UNCHANGED <<records, attempts, paid, jobs, may>>,
         \/ \E a \in Answer : Reply(r, a)
         \/ Goto(r, "dups") \/ (Goto(r, "attempt") /\ req[r].pay # NoPay)
  PROVE  RecordInv'
<1>1. GoodReq(r) /\ req[r] \in Request
  BY DEF RecordInv, TypeOK
<1>2. ASSUME NEW a \in Answer, Reply(r, a) PROVE RecordInv'
  <2>1. PICK v \in Request : req' = [req EXCEPT ![r] = v] /\ v.pc = "idle"
    BY <1>2, ReplyIs
  <2>2. QED
    BY <2>1, Outside DEF Owning
<1>3. ASSUME NEW pc \in {"dups", "attempt"}, Goto(r, pc),
             pc = "attempt" => req[r].pay # NoPay
      PROVE  RecordInv'
  <2>1. PICK v \in Request : req' = [req EXCEPT ![r] = v] /\ v.pc = pc
                             /\ Same(v, req[r])
    BY <1>3, GotoIs DEF PC
  <2>2. v.content \in Content /\ v.nonce \in Nonce
        /\ (v.pc = "attempt" => v.pay \in Pay)
    BY <1>1, <1>3, <2>1 DEF GoodReq, Same, Request
  <2>3. QED
    BY <1>3, <2>1, <2>2, Outside DEF Owning
<1>4. QED
  BY <1>2, <1>3

LEMMA InsertAttemptInv ==
  ASSUME RecordInv, NEW r \in Req, InsertAttempt(r)
  PROVE  RecordInv'
<1>1. req[r].pc = "attempt" /\ UNCHANGED <<records, paid, jobs, may>>
  BY DEF InsertAttempt, At
<1>2. GoodReq(r) /\ req[r] \in Request /\ jobs \subseteq {e.content : e \in records}
      /\ attempts \in [Pay -> Attempt] /\ req \in [Req -> Request]
  BY DEF RecordInv, TypeOK
<1>3. PICK p \in Pay : req[r].pay = p
  BY <1>1, <1>2 DEF GoodReq
<1>4. req[r].content \in Content /\ req[r].nonce \in Nonce /\ req[r].batch \in BOOLEAN
  BY <1>1, <1>2 DEF GoodReq, Request
<1> DEFINE a == [status |-> "pending", content |-> req[r].content,
                 nonce |-> req[r].nonce, linked |-> FALSE, batch |-> req[r].batch]
<1>5. /\ a \in Attempt /\ a.status = "pending" /\ a.content = req[r].content
      /\ a.nonce = req[r].nonce /\ a.batch = req[r].batch
  BY <1>4 DEF Attempt, Status
<1>6. CASE UNCHANGED attempts /\ \E x \in Answer : Reply(r, x)
  BY <1>1, <1>6, EarlyInv
<1>7. ASSUME attempts[p].status = "none", attempts' = [attempts EXCEPT ![p] = a],
             \/ Goto(r, "verify")
             \/ Reply(r, "error") /\ "lostReply" \in may
      PROVE  RecordInv'
  <2> HIDE DEF a
  <2>1. PICK v \in Request : /\ req' = [req EXCEPT ![r] = v] /\ req'[r] = v
                             /\ \/ v.pc = "verify" /\ Same(v, req[r])
                                \/ v.pc = "idle" /\ "lostReply" \in may
    <3>1. CASE Goto(r, "verify")
      BY <3>1, GotoIs DEF PC
    <3>2. CASE Reply(r, "error") /\ "lostReply" \in may
      BY <3>2, ReplyIs DEF Answer
    <3>3. QED
      BY <1>7, <3>1, <3>2
  <2>2. ~Recorded(p) /\ (p \in Usdc => p \notin paid)
    BY <1>7 DEF RecordInv, GoodPay
  <2>3. \A s \in Req : s # r /\ req[s].pc \in Owning => req[s].pay # p
    BY <1>7 DEF RecordInv, GoodReq
  <2>4. /\ attempts'[p] = a /\ attempts' \in [Pay -> Attempt]
        /\ \A c \in Pay : c # p => attempts'[c] = attempts[c]
    BY <1>2, <1>5, <1>7
  <2>5. Recorded(p)' <=> Recorded(p)
    BY <1>1 DEF Recorded
  <2>6. GoodReq(r)'
    BY <1>1, <1>3, <1>4, <1>5, <2>1, <2>2, <2>4, <2>5 DEF GoodReq, Same, Owning
  <2>7. GoodPay(p)'
    BY <1>1, <1>5, <2>2, <2>4, <2>5 DEF GoodPay
  <2>8. TypeOK'
    BY <1>1, <1>2, <2>1, <2>4 DEF RecordInv, TypeOK
  <2>9. \A e \in records' : GoodRecord(e)'
    <3> SUFFICES ASSUME NEW e \in records PROVE GoodRecord(e)'
      BY <1>1
    <3>1. GoodRecord(e) /\ e.pay \in Pay /\ e.pay # p
      BY <2>2 DEF RecordInv, TypeOK, Record, Recorded
    <3>2. QED
      BY <1>1, <2>4, <3>1 DEF GoodRecord
  <2>10. AllDiffer'
    BY <1>1 DEF RecordInv, AllDiffer
  <2>11. \A c \in Pay : c # p => /\ attempts'[c] = attempts[c]
                                 /\ c \in paid' <=> c \in paid
                                 /\ Recorded(c)' <=> Recorded(c)
    BY <1>1, <2>4 DEF Recorded
  <2>12. v.pc \in Owning => v.pay = p
    BY <1>3, <2>1 DEF Same, Owning
  <2>13. records \subseteq records' /\ UNCHANGED may
    BY <1>1
  <2>14. QED
    BY <1>3, <2>1, <2>3, <2>6, <2>7, <2>8, <2>9, <2>10, <2>11, <2>12, <2>13, Inside
<1>8. Throws(r, "error") => Reply(r, "error")
  BY <1>1 DEF Throws
<1> HIDE DEF a
<1>9. \/ UNCHANGED attempts /\ (Reply(r, "reused") \/ Reply(r, "error"))
      \/ /\ attempts[p].status = "none" /\ attempts' = [attempts EXCEPT ![p] = a]
         /\ Goto(r, "verify") \/ (Reply(r, "error") /\ "lostReply" \in may)
  BY <1>3, <1>8 DEF InsertAttempt, Statement, a
<1>10. QED
  BY <1>6, <1>7, <1>9 DEF Answer

\* What an owner that throws, or dies, comes to: nothing else changes.
LEMMA ThrowInv ==
  ASSUME RecordInv, NEW r \in Req, NEW p \in Pay, Owner(r, p), req[r].pc \in Owning,
         NEW x \in Answer, Throws(r, x) \/ Reply(r, x),
         UNCHANGED <<records, attempts, paid, jobs, may>>,
         \/ ~Without({"crash", "db", "lostReply"})
         \/ req[r].pc = "verify" /\ Throws(r, x) /\ (p \in Usdc => p \notin paid)
         \/ req[r].pc = "insert" /\ Throws(r, x) /\ (p \in Usdc => Conflict(p)),
         req[r].pc = "link" => \/ Reply(r, x)
                               \/ ~Without({"db", "lostReply"})
  PROVE  RecordInv'
<1>1. PICK v \in Request :
        /\ req' = [req EXCEPT ![r] = v] /\ req'[r] = v
        /\ \/ v.pc = "undo" /\ Same(v, req[r]) /\ Caught(req[r]) /\ Throws(r, x)
           \/ v.pc = "idle" /\ (Throws(r, x) => ~Caught(req[r]))
  <2>1. CASE Throws(r, x)
    BY <2>1, ThrowsIs
  <2>2. CASE ~Throws(r, x)
    BY <2>2, ReplyIs
  <2>3. QED
    BY <2>1, <2>2
<1>2. Recorded(p)' = Recorded(p) /\ Conflict(p)' = Conflict(p)
  BY DEF Recorded, Conflict
<1>3. req[r].pc \in {"verify", "settle", "insert"} => ~Recorded(p)
  BY DEF Owner, GoodReq
<1>4. GoodReq(r)'
  <2>1. CASE v.pc = "idle"
    BY <1>1, <2>1 DEF GoodReq, Owning
  <2>2. CASE v.pc = "undo" /\ Same(v, req[r]) /\ Caught(req[r]) /\ Throws(r, x)
    <3>1. Without({"db", "lostReply"})' => ~Recorded(p)'
      <4>1. Reply(r, x) => req'[r].pc = "idle"
        BY ReplyIs
      <4>2. QED
        BY <1>1, <1>2, <1>3, <2>2, <4>1 DEF Caught, Without
    <3>2. req'[r] = v /\ v.pay = p /\ v.content = req[r].content
          /\ v.nonce = req[r].nonce /\ v.batch = req[r].batch
      BY <1>1, <2>2 DEF Same, Owner
    <3>3. QED
      BY <2>2, <3>1, <3>2 DEF GoodReq, Owner, Owning
  <2>3. QED
    BY <1>1, <2>1, <2>2
<1>5. GoodPay(p)'
  <2>1. attempts[p].status # "none"
        /\ (Without({"db", "lostReply"}) /\ attempts[p].status = "failed" => ~Recorded(p))
    BY DEF Owner, GoodPay
  <2>2. CASE ~Without({"crash", "db", "lostReply"})
    BY <1>2, <2>1, <2>2 DEF GoodPay, Without
  <2>3. CASE req[r].pc \in {"verify", "insert"} /\ Throws(r, x)
             /\ (p \in Usdc => p \notin paid \/ Conflict(p))
    <3>1. (req'[r].pay = p /\ req'[r].pc = "undo") \/ attempts[p].batch
      BY <1>1, <2>3 DEF Caught, Same, Owner
    <3>2. attempts[p].batch \/ OwnedAt(p, Owning)'
      BY <3>1 DEF OwnedAt, Owning
    <3>3. QED
      BY <1>2, <2>1, <2>3, <3>2 DEF GoodPay, Without
  <2>4. QED
    BY <2>2, <2>3
<1>6. jobs' \subseteq {e.content : e \in records}
  BY DEF RecordInv, TypeOK
<1>7. v.pc \in Owning => Same(v, req[r])
  BY <1>1 DEF Owning
<1>8. QED
  BY <1>1, <1>4, <1>5, <1>6, <1>7, OwnerGoes

\* A statement of an owner that throws, with or without its effect.
LEMMA BrokenInv ==
  ASSUME RecordInv, NEW r \in Req, NEW p \in Pay, Owner(r, p), req[r].pc \in Owning,
         NEW x \in Answer, Throws(r, x), ~Without({"db", "lostReply"}),
         NEW a \in Attempt, attempts' = [attempts EXCEPT ![p] = a],
         a.content = attempts[p].content, a.nonce = attempts[p].nonce,
         a.batch = attempts[p].batch, a.status # "none",
         Recorded(p) => a.status \in {"settled", "failed"},
         paid' = paid \/ paid' = paid \cup {p}, UNCHANGED <<records, jobs, may>>
  PROVE  RecordInv'
<1>1. PICK v \in Request : /\ req' = [req EXCEPT ![r] = v] /\ req'[r] = v
                           /\ \/ v.pc = "undo" /\ Same(v, req[r])
                              \/ v.pc = "idle"
  BY ThrowsIs
<1>2. attempts'[p] = a /\ jobs' \subseteq {e.content : e \in records}
  BY DEF RecordInv, TypeOK
<1>3. ~Without({"db", "lostReply"})' /\ ~Without({"crash", "db", "lostReply"})'
  BY DEF Without
<1>4. GoodReq(r)'
  <2>1. CASE v.pc = "idle"
    BY <1>1, <2>1 DEF GoodReq, Owning
  <2>2. CASE v.pc = "undo" /\ Same(v, req[r])
    <3>1. req'[r] = v /\ v.pay = p /\ v.content = req[r].content
          /\ v.nonce = req[r].nonce /\ v.batch = req[r].batch
      BY <1>1, <2>2 DEF Same, Owner
    <3>2. QED
      BY <1>2, <1>3, <2>2, <3>1 DEF GoodReq, Owner, Owning
  <2>3. QED
    BY <1>1, <2>1, <2>2
<1>5. GoodPay(p)'
  BY <1>2, <1>3 DEF GoodPay
<1>6. v.pc \in Owning => Same(v, req[r])
  BY <1>1 DEF Owning
<1>7. QED
  BY <1>1, <1>2, <1>4, <1>5, <1>6, OwnerMoves

LEMMA EarlyStepsInv ==
  ASSUME RecordInv, NEW r \in Req, preCheck(r) \/ checkDuplicates(r)
  PROVE  RecordInv'
<1>1. /\ req[r].pc \in {"precheck", "dups", "attempt"}
      /\ UNCHANGED <<records, attempts, paid, jobs, may>>
  BY DEF preCheck, checkDuplicates, At
<1>2. CASE preCheck(r)
  <2>1. \/ Reply(r, "cached") \/ Reply(r, "duplicate") \/ Reply(r, "refused")
        \/ Reply(r, "error") \/ Goto(r, "dups")
    BY <1>2 DEF preCheck
  <2>2. QED
    BY <1>1, <2>1, EarlyInv DEF Answer
<1>3. CASE checkDuplicates(r)
  <2>1. \/ Reply(r, "duplicate") \/ Reply(r, "reused") \/ Reply(r, "refused")
        \/ Reply(r, "error") \/ (Goto(r, "attempt") /\ req[r].pay # NoPay)
    BY <1>3 DEF checkDuplicates
  <2>2. QED
    BY <1>1, <2>1, EarlyInv DEF Answer
<1>4. QED
  BY <1>2, <1>3

\* The payment of r is evidenced, and r goes on to mark its attempt settled.
LEMMA VerifiedInv ==
  ASSUME RecordInv, NEW r \in Req, NEW p \in Pay, Owner(r, p), req[r].pc = "verify",
         Goto(r, "settle"), paid' = paid \/ paid' = paid \cup {p}, p \in paid',
         UNCHANGED <<records, attempts, jobs, may>>
  PROVE  RecordInv'
<1>1. PICK v \in Request : /\ req' = [req EXCEPT ![r] = v] /\ req'[r] = v
                           /\ v.pc = "settle" /\ Same(v, req[r])
  BY GotoIs DEF PC
<1>2. v.pay = p /\ v.content = req[r].content /\ v.nonce = req[r].nonce
      /\ v.batch = req[r].batch /\ ~Recorded(p)
  BY <1>1 DEF Same, Owner, GoodReq
<1>3. ~Recorded(p)' /\ jobs' \subseteq {e.content : e \in records}
  BY <1>2 DEF Recorded, RecordInv, TypeOK
<1>4. GoodReq(r)'
  BY <1>1, <1>2, <1>3 DEF GoodReq, Owner, Owning
<1>5. OwnedAt(p, Owning)' /\ OwnedAt(p, {"settle", "insert"})'
  BY <1>1, <1>2 DEF OwnedAt, Owning
<1>6. GoodPay(p)'
  BY <1>3, <1>5 DEF GoodPay, Owner
<1>7. QED
  BY <1>1, <1>3, <1>4, <1>6, OwnerGoes DEF Owning

LEMMA VerifyFeeInv ==
  ASSUME RecordInv, NEW r \in Req, verifyFee(r)
  PROVE  RecordInv'
<1>1. req[r].pc = "verify" /\ req[r].pay \in Fee
      /\ UNCHANGED <<records, attempts, paid, jobs, may>>
  BY DEF verifyFee, At
<1>2. PICK p \in Pay : Owner(r, p)
  BY <1>1, OwnerFacts DEF Owning
<1>3. p = req[r].pay /\ p \notin Usdc
  BY <1>1, <1>2, RecordsAssumption DEF Owner
<1>4. CASE p \in paid /\ Goto(r, "settle")
  BY <1>1, <1>2, <1>4, VerifiedInv
<1>5. ASSUME NEW x \in Answer, Throws(r, x) PROVE RecordInv'
  BY <1>1, <1>2, <1>3, <1>5, ThrowInv DEF Owning
<1>6. (p \in paid /\ Goto(r, "settle")) \/ Throws(r, "refused") \/ Throws(r, "error")
  BY <1>3 DEF verifyFee
<1>7. QED
  BY <1>4, <1>5, <1>6 DEF Answer

LEMMA SettlePaymentInv ==
  ASSUME RecordInv, NEW r \in Req, SettlePayment(r)
  PROVE  RecordInv'
<1>1. req[r].pc = "verify" /\ req[r].pay \in Usdc
      /\ UNCHANGED <<records, attempts, jobs, may>>
  BY DEF SettlePayment, At
<1>2. PICK p \in Pay : Owner(r, p)
  BY <1>1, OwnerFacts DEF Owning
<1>3. p = req[r].pay /\ p \notin paid
  BY <1>1, <1>2 DEF Owner, GoodReq
<1>4. CASE paid' = paid \cup {p} /\ Goto(r, "settle")
  BY <1>1, <1>2, <1>4, VerifiedInv
<1>5. CASE paid' = paid \cup {p} /\ "lostReply" \in may /\ Throws(r, "error")
  <2>1. attempts[p] \in Attempt /\ attempts' = [attempts EXCEPT ![p] = attempts[p]]
        /\ attempts[p].status # "none"
        /\ (Recorded(p) => attempts[p].status \in {"settled", "failed"})
    BY <1>1, <1>2 DEF Owner, RecordInv, TypeOK
  <2>2. ~Without({"db", "lostReply"})
    BY <1>5 DEF Without
  <2>3. QED
    BY <1>1, <1>2, <1>5, <2>1, <2>2, BrokenInv DEF Owning, Answer
<1>6. ASSUME UNCHANGED paid, NEW x \in Answer, Throws(r, x) PROVE RecordInv'
  BY <1>1, <1>2, <1>3, <1>6, ThrowInv DEF Owning
<1>7. \/ paid' = paid \cup {p} /\ Goto(r, "settle")
      \/ paid' = paid \cup {p} /\ "lostReply" \in may /\ Throws(r, "error")
      \/ UNCHANGED paid /\ (Throws(r, "refused") \/ Throws(r, "error"))
  BY <1>3 DEF SettlePayment
<1>8. QED
  BY <1>4, <1>5, <1>6, <1>7 DEF Answer

\* An UPDATE of the attempt of p.
LEMMA MarkIs ==
  ASSUME RecordInv, NEW p \in Pay, NEW s \in Status, SetAttempt(p, s)
  PROVE  \E a \in Attempt :
           /\ attempts' = [attempts EXCEPT ![p] = a] /\ attempts'[p] = a
           /\ a.status = s /\ a.content = attempts[p].content
           /\ a.nonce = attempts[p].nonce /\ a.batch = attempts[p].batch
<1> DEFINE a == [attempts[p] EXCEPT !.status = s]
<1>1. attempts \in [Pay -> Attempt] /\ attempts[p] \in Attempt
  BY DEF RecordInv, TypeOK
<1>2. attempts' = [attempts EXCEPT ![p] = a]
  BY <1>1 DEF SetAttempt
<1>3. /\ a \in Attempt /\ a.status = s /\ a.content = attempts[p].content
      /\ a.nonce = attempts[p].nonce /\ a.batch = attempts[p].batch
  BY <1>1 DEF Attempt
<1> HIDE DEF a
<1>4. QED
  BY <1>1, <1>2, <1>3

LEMMA MarkSettledInv ==
  ASSUME RecordInv, NEW r \in Req, MarkSettled(r)
  PROVE  RecordInv'
<1>1. req[r].pc = "settle" /\ UNCHANGED <<records, paid, jobs, may>>
  BY DEF MarkSettled, At
<1>2. PICK p \in Pay : Owner(r, p)
  BY <1>1, OwnerFacts DEF Owning
<1>3. p = req[r].pay /\ p \in paid /\ ~Recorded(p)
  BY <1>1, <1>2 DEF Owner, GoodReq
<1>4. CASE SetAttempt(p, "settled") /\ (Goto(r, "insert") \/ ("lostReply" \in may /\ Throws(r, "error")))
  <2>1. PICK a \in Attempt :
          /\ attempts' = [attempts EXCEPT ![p] = a] /\ attempts'[p] = a
          /\ a.status = "settled" /\ a.content = attempts[p].content
          /\ a.nonce = attempts[p].nonce /\ a.batch = attempts[p].batch
    BY <1>4, MarkIs DEF Status
  <2>2. CASE "lostReply" \in may /\ Throws(r, "error")
    <3>1. ~Without({"db", "lostReply"})
      BY <2>2 DEF Without
    <3>2. QED
      BY <1>1, <1>2, <2>1, <2>2, <3>1, BrokenInv DEF Owning, Answer
  <2>3. CASE Goto(r, "insert")
    <3>1. PICK v \in Request : /\ req' = [req EXCEPT ![r] = v] /\ req'[r] = v
                               /\ v.pc = "insert" /\ Same(v, req[r])
      BY <2>3, GotoIs DEF PC
    <3>2. v.pay = p /\ v.content = req[r].content /\ v.nonce = req[r].nonce
          /\ v.batch = req[r].batch
      BY <1>3, <3>1 DEF Same
    <3>3. ~Recorded(p)' /\ p \in paid' /\ jobs' \subseteq {e.content : e \in records}
      BY <1>1, <1>3 DEF Recorded, RecordInv, TypeOK
    <3>4. GoodReq(r)'
      BY <1>2, <2>1, <3>1, <3>2, <3>3 DEF GoodReq, Owner, Owning
    <3>5. OwnedAt(p, Owning)' /\ OwnedAt(p, {"settle", "insert"})'
      BY <3>1, <3>2 DEF OwnedAt, Owning
    <3>6. GoodPay(p)'
      BY <2>1, <3>3, <3>5 DEF GoodPay
    <3>7. QED
      BY <1>1, <1>2, <2>1, <3>1, <3>3, <3>4, <3>6, OwnerMoves DEF Owning
  <2>4. QED
    BY <1>4, <2>2, <2>3
<1>5. CASE "db" \in may /\ UNCHANGED attempts /\ Throws(r, "error")
  <2>1. ~Without({"crash", "db", "lostReply"})
    BY <1>5 DEF Without
  <2>2. QED
    BY <1>1, <1>2, <1>5, <2>1, ThrowInv DEF Owning, Answer
<1>6. QED
  BY <1>3, <1>4, <1>5 DEF MarkSettled, Statement

LEMMA MarkFailedInv ==
  ASSUME RecordInv, NEW r \in Req, MarkFailed(r)
  PROVE  RecordInv'
<1>1. req[r].pc = "undo" /\ UNCHANGED <<records, paid, jobs, may>>
  BY DEF MarkFailed, At
<1>2. PICK p \in Pay : Owner(r, p)
  BY <1>1, OwnerFacts DEF Owning
<1>3. /\ p = req[r].pay /\ GoodPay(p) /\ req[r].answer \in Answer
      /\ (Without({"db", "lostReply"}) => ~Recorded(p))
  BY <1>1, <1>2 DEF Owner, GoodReq, RecordInv, TypeOK, Request
<1>4. CASE SetAttempt(p, "failed") /\ (Reply(r, req[r].answer) \/ ("lostReply" \in may /\ Throws(r, "error")))
  <2>1. PICK a \in Attempt :
          /\ attempts' = [attempts EXCEPT ![p] = a] /\ attempts'[p] = a
          /\ a.status = "failed" /\ a.content = attempts[p].content
          /\ a.nonce = attempts[p].nonce /\ a.batch = attempts[p].batch
    BY <1>4, MarkIs DEF Status
  <2>2. CASE "lostReply" \in may /\ Throws(r, "error")
    <3>1. ~Without({"db", "lostReply"})
      BY <2>2 DEF Without
    <3>2. QED
      BY <1>1, <1>2, <2>1, <2>2, <3>1, BrokenInv DEF Owning, Answer
  <2>3. CASE Reply(r, req[r].answer)
    <3>1. PICK v \in Request : /\ req' = [req EXCEPT ![r] = v] /\ req'[r] = v
                               /\ v.pc = "idle"
      BY <1>3, <2>3, ReplyIs
    <3>2. GoodReq(r)'
      BY <3>1 DEF GoodReq, Owning
    <3>3. (Recorded(p)' <=> Recorded(p)) /\ (Conflict(p) => Conflict(p)')
      BY <1>1, <2>1 DEF Recorded, Conflict
    <3>4. ~OwnedAt(p, {"settle", "insert"})
      BY <1>1, <1>2 DEF OwnedAt, Owner, Owning
    <3>5. GoodPay(p)'
      BY <1>1, <1>2, <1>3, <2>1, <3>3, <3>4 DEF GoodPay, Without, Owner
    <3>6. jobs' \subseteq {e.content : e \in records}
      BY <1>1 DEF RecordInv, TypeOK
    <3>7. QED
      BY <1>1, <1>2, <2>1, <3>1, <3>2, <3>5, <3>6, OwnerMoves DEF Owning
  <2>4. QED
    BY <1>4, <2>2, <2>3
<1>5. CASE "db" \in may /\ UNCHANGED attempts /\ Throws(r, "error")
  <2>1. ~Without({"crash", "db", "lostReply"})
    BY <1>5 DEF Without
  <2>2. QED
    BY <1>1, <1>2, <1>5, <2>1, ThrowInv DEF Owning, Answer
<1>6. QED
  BY <1>3, <1>4, <1>5 DEF MarkFailed, Statement

\* The record is there with its payment, and who made it goes on.
LEMMA RecordMade ==
  ASSUME RecordInv, NEW r \in Req, NEW p \in Pay, Owner(r, p), req[r].pc = "insert",
         RecordOf(req[r].content) = {}, ~UsesNonce(req[r].nonce),
         records' = records \cup {[content |-> req[r].content,
                                   nonce |-> req[r].nonce, pay |-> p]},
         \/ Goto(r, "enqueue")
         \/ "lostReply" \in may /\ Throws(r, "error"),
         UNCHANGED <<attempts, paid, jobs, may>>
  PROVE  RecordInv'
<1> DEFINE e == [content |-> req[r].content, nonce |-> req[r].nonce, pay |-> p]
<1>1. req \in [Req -> Request] /\ records \subseteq Record
      /\ jobs \subseteq {f.content : f \in records}
  BY DEF RecordInv, TypeOK
<1>2. e \in Record /\ e.content = req[r].content /\ e.nonce = req[r].nonce /\ e.pay = p
  BY DEF Record, Owner
<1>3. ~Recorded(p) /\ p \in paid /\ attempts[p].status = "settled"
      /\ attempts[p].content = req[r].content
  BY DEF Owner, GoodReq
<1>4. \A f \in records : /\ f.pay # p /\ f.content # req[r].content
                         /\ f.nonce # req[r].nonce /\ f.pay \in Pay
  BY <1>1, <1>3 DEF RecordOf, UsesNonce, Recorded, Record
<1>5. records' = records \cup {e}
  OBVIOUS
<1> HIDE DEF e
<1>6. PICK v \in Request :
        /\ req' = [req EXCEPT ![r] = v] /\ req'[r] = v
        /\ \/ v.pc = "enqueue" /\ Same(v, req[r])
           \/ /\ "lostReply" \in may
              /\ v.pc = "idle" \/ (v.pc = "undo" /\ Same(v, req[r]))
  <2>1. CASE Goto(r, "enqueue")
    BY <2>1, GotoIs DEF PC
  <2>2. CASE "lostReply" \in may /\ Throws(r, "error")
    BY <2>2, ThrowsIs DEF Answer
  <2>3. QED
    BY <2>1, <2>2
<1>7. AllDiffer'
  BY <1>2, <1>4, <1>5 DEF RecordInv, AllDiffer
<1>8. ASSUME NEW f \in records' PROVE GoodRecord(f)'
  <2>1. CASE f \in records
    BY <2>1 DEF RecordInv, GoodRecord
  <2>2. CASE f = e
    BY <1>2, <1>3, <2>2 DEF GoodRecord
  <2>3. QED
    BY <1>5, <2>1, <2>2
<1>9. TypeOK'
  <2>1. req' \in [Req -> Request]
    BY <1>1, <1>6
  <2>2. jobs' \subseteq {f.content : f \in records'}
    BY <1>1, <1>5
  <2>3. records' \subseteq Record
    BY <1>1, <1>2, <1>5
  <2>4. QED
    BY <2>1, <2>2, <2>3 DEF RecordInv, TypeOK
<1>10. \A c \in Pay : c # p => (Recorded(c)' <=> Recorded(c))
  BY <1>2, <1>5 DEF Recorded
<1>11. Recorded(p)'
  BY <1>2, <1>5 DEF Recorded
<1>12. GoodReq(r)'
  <2>1. CASE v.pc = "idle"
    BY <1>6, <2>1 DEF GoodReq, Owning
  <2>2. CASE Same(v, req[r])
    <3>1. v.pay = p /\ v.content = req[r].content /\ v.nonce = req[r].nonce
          /\ v.batch = req[r].batch
      BY <2>2 DEF Same, Owner
    <3>2. [content |-> v.content, nonce |-> v.nonce, pay |-> v.pay] \in records'
      BY <1>5, <3>1 DEF e
    <3>3. CASE v.pc = "enqueue"
      BY <1>3, <1>6, <3>1, <3>2, <3>3 DEF GoodReq, Owner, Owning
    <3>4. CASE v.pc = "undo" /\ "lostReply" \in may
      <4>1. ~Without({"db", "lostReply"})'
        BY <3>4 DEF Without
      <4>2. QED
        BY <1>3, <1>6, <3>1, <3>4, <4>1 DEF GoodReq, Owner, Owning
    <3>5. QED
      BY <1>6, <2>1, <3>3, <3>4
  <2>3. QED
    BY <1>6, <2>1, <2>2
<1>13. GoodPay(p)'
  BY <1>3, <1>11 DEF GoodPay
<1>14. \A s \in Req : s # r /\ req[s].pc \in Owning => req[s].pay # p
  BY DEF Owner
<1>15. v.pc \in Owning => v.pay = p
  BY <1>6 DEF Same, Owner, Owning
<1>16. records \subseteq records' /\ req[r].pay = p
  BY <1>5 DEF Owner
<1>17. QED
  BY <1>6, <1>7, <1>8, <1>9, <1>10, <1>12, <1>13, <1>14, <1>15, <1>16, Inside

LEMMA InsertRecordInv ==
  ASSUME RecordInv, NEW r \in Req, InsertRecord(r)
  PROVE  RecordInv'
<1>1. req[r].pc = "insert" /\ UNCHANGED <<attempts, paid, jobs, may>>
  BY DEF InsertRecord, At
<1>2. PICK p \in Pay : Owner(r, p)
  BY <1>1, OwnerFacts DEF Owning
<1>3. p = req[r].pay /\ ~UsesFee(p)
      /\ attempts[p].content = req[r].content /\ attempts[p].nonce = req[r].nonce
  BY <1>1, <1>2 DEF Owner, GoodReq, UsesFee
<1>4. CASE /\ RecordOf(req[r].content) # {} \/ UsesNonce(req[r].nonce)
           /\ Throws(r, "error") /\ UNCHANGED records
  <2>1. Conflict(p)
    BY <1>3, <1>4 DEF Conflict, RecordOf, UsesNonce
  <2>2. UNCHANGED records /\ \E x \in Answer : Throws(r, x)
    BY <1>4 DEF Answer
  <2>3. QED
    BY <1>1, <1>2, <2>1, <2>2, ThrowInv DEF Owning
<1>5. CASE "db" \in may /\ UNCHANGED records /\ Throws(r, "error")
  <2>1. ~Without({"crash", "db", "lostReply"})
    BY <1>5 DEF Without
  <2>2. QED
    BY <1>1, <1>2, <1>5, <2>1, ThrowInv DEF Owning, Answer
<1>6. CASE /\ RecordOf(req[r].content) = {} /\ ~UsesNonce(req[r].nonce)
           /\ records' = records \cup {[content |-> req[r].content,
                                        nonce |-> req[r].nonce, pay |-> p]}
           /\ Goto(r, "enqueue") \/ ("lostReply" \in may /\ Throws(r, "error"))
  BY <1>1, <1>2, <1>6, RecordMade
<1>7. QED
  BY <1>3, <1>4, <1>5, <1>6 DEF InsertRecord, Statement

LEMMA EnqueueInv ==
  ASSUME RecordInv, NEW r \in Req, EnqueueAnchorJob(r)
  PROVE  RecordInv'
<1>1. /\ req[r].pc = "enqueue" /\ UNCHANGED <<records, attempts, paid, may>>
      /\ Goto(r, "link") /\ jobs' \subseteq jobs \cup {req[r].content}
  BY DEF EnqueueAnchorJob, At
<1>2. PICK p \in Pay : Owner(r, p)
  BY <1>1, OwnerFacts DEF Owning
<1> DEFINE e == [content |-> req[r].content, nonce |-> req[r].nonce, pay |-> p]
<1>3. /\ p = req[r].pay /\ p \in paid /\ attempts[p].status = "settled" /\ e \in records
      /\ e.pay = p /\ e.content = req[r].content
  BY <1>1, <1>2 DEF Owner, GoodReq
<1> HIDE DEF e
<1>4. jobs' \subseteq {f.content : f \in records} /\ Recorded(p)'
  BY <1>1, <1>3 DEF RecordInv, TypeOK, Recorded
<1>5. PICK v \in Request : /\ req' = [req EXCEPT ![r] = v] /\ req'[r] = v
                           /\ v.pc = "link" /\ Same(v, req[r])
  BY <1>1, GotoIs DEF PC
<1>6. v.pay = p /\ v.content = req[r].content /\ v.nonce = req[r].nonce
      /\ v.batch = req[r].batch
  BY <1>3, <1>5 DEF Same
<1>7. [content |-> v.content, nonce |-> v.nonce, pay |-> v.pay] \in records'
  BY <1>1, <1>3, <1>6 DEF e
<1>8. GoodReq(r)'
  BY <1>1, <1>2, <1>3, <1>5, <1>6, <1>7 DEF GoodReq, Owner, Owning
<1>9. GoodPay(p)'
  BY <1>1, <1>3, <1>4 DEF GoodPay
<1>10. QED
  BY <1>1, <1>2, <1>4, <1>5, <1>8, <1>9, OwnerGoes DEF Owning

LEMMA LinkInv ==
  ASSUME RecordInv, NEW r \in Req, linkRecord(r)
  PROVE  RecordInv'
<1>1. req[r].pc = "link" /\ UNCHANGED <<records, paid, jobs, may>>
  BY DEF linkRecord, At
<1>2. PICK p \in Pay : Owner(r, p)
  BY <1>1, OwnerFacts DEF Owning
<1>3. p = req[r].pay /\ p \in paid /\ attempts[p].status = "settled"
  BY <1>1, <1>2 DEF Owner, GoodReq
<1>4. Recorded(p)
  BY <1>1, <1>3 DEF Recorded, RecordInv, GoodReq
<1> DEFINE a == [attempts[p] EXCEPT !.linked = TRUE]
<1>5. attempts \in [Pay -> Attempt] /\ attempts[p] \in Attempt
  BY DEF RecordInv, TypeOK
<1>6. /\ a \in Attempt /\ a.status = "settled" /\ a.content = attempts[p].content
      /\ a.nonce = attempts[p].nonce /\ a.batch = attempts[p].batch
  BY <1>3, <1>5 DEF Attempt
<1>7. CASE attempts' = [attempts EXCEPT ![p].linked = TRUE]
           /\ (Reply(r, "created") \/ ("lostReply" \in may /\ Throws(r, "error")))
  <2>1. attempts' = [attempts EXCEPT ![p] = a] /\ attempts'[p] = a
    BY <1>5, <1>7
  <2> HIDE DEF a
  <2>2. CASE "lostReply" \in may /\ Throws(r, "error")
    <3>1. ~Without({"db", "lostReply"})
      BY <2>2 DEF Without
    <3>2. QED
      BY <1>1, <1>2, <1>6, <2>1, <2>2, <3>1, BrokenInv DEF Owning, Answer
  <2>3. CASE Reply(r, "created")
    <3>1. PICK v \in Request : /\ req' = [req EXCEPT ![r] = v] /\ req'[r] = v
                               /\ v.pc = "idle"
      BY <2>3, ReplyIs DEF Answer
    <3>2. GoodReq(r)'
      BY <3>1 DEF GoodReq, Owning
    <3>3. Recorded(p)' /\ jobs' \subseteq {f.content : f \in records}
      BY <1>1, <1>4 DEF Recorded, RecordInv, TypeOK
    <3>4. GoodPay(p)'
      BY <1>6, <2>1, <3>3 DEF GoodPay
    <3>5. QED
      BY <1>1, <1>2, <1>6, <2>1, <3>1, <3>2, <3>3, <3>4, OwnerMoves DEF Owning
  <2>4. QED
    BY <1>7, <2>2, <2>3
<1>8. CASE "db" \in may /\ UNCHANGED attempts /\ Throws(r, "error")
  <2>1. ~Without({"crash", "db", "lostReply"}) /\ ~Without({"db", "lostReply"})
    BY <1>8 DEF Without
  <2>2. QED
    BY <1>1, <1>2, <1>8, <2>1, ThrowInv DEF Owning, Answer
<1> HIDE DEF a
<1>9. QED
  BY <1>3, <1>7, <1>8 DEF linkRecord, Statement

LEMMA CrashInv ==
  ASSUME RecordInv, NEW r \in Req, Crash(r)
  PROVE  RecordInv'
<1>1. /\ req[r].pc # "idle" /\ Reply(r, "error") /\ "error" \in Answer
      /\ UNCHANGED <<records, attempts, paid, jobs, may>> /\ "crash" \in may
  BY DEF Crash, InFlight, At, Answer
<1>2. CASE req[r].pc \in Owning
  <2>1. PICK p \in Pay : Owner(r, p)
    BY <1>2, OwnerFacts
  <2>2. ~Without({"crash", "db", "lostReply"})
    BY <1>1 DEF Without
  <2>3. QED
    BY <1>1, <1>2, <2>1, <2>2, ThrowInv
<1>3. CASE req[r].pc \notin Owning
  <2>1. req[r].pc \in {"precheck", "dups", "attempt"}
    BY <1>1, <1>3 DEF RecordInv, TypeOK, Request, PC, Owning
  <2>2. QED
    BY <1>1, <2>1, EarlyInv
<1>4. QED
  BY <1>2, <1>3

LEMMA ConfirmedInv ==
  ASSUME RecordInv, NEW p \in Fee, Confirmed(p)
  PROVE  RecordInv'
<1>1. /\ paid' = paid \cup SameTransfer(p) /\ UNCHANGED <<records, attempts, jobs, req, may>>
      /\ SameTransfer(p) \subseteq Pay /\ SameTransfer(p) \cap Usdc = {}
  BY RecordsAssumption DEF Confirmed, SameTransfer, Pay
<1>2. TypeOK'
  BY <1>1 DEF RecordInv, TypeOK
<1>3. ASSUME NEW r \in Req PROVE GoodReq(r)'
  BY <1>1 DEF RecordInv, GoodReq, Recorded, Without
<1>4. ASSUME NEW c \in Pay PROVE GoodPay(c)'
  BY <1>1 DEF RecordInv, GoodPay, Recorded, Conflict, OwnedAt, Without
<1>5. (\A e \in records : GoodRecord(e)') /\ AllDiffer' /\ OneOwner'
  BY <1>1 DEF RecordInv, GoodRecord, AllDiffer, OneOwner
<1>6. QED
  BY <1>1, <1>2, <1>3, <1>4, <1>5 DEF RecordInv

LEMMA RecordStep == RecordInv /\ [Next]_vars => RecordInv'
<1> SUFFICES ASSUME RecordInv, [Next]_vars PROVE RecordInv'
  OBVIOUS
<1>1. ASSUME NEW r \in Req, RequestStep(r) PROVE RecordInv'
  BY <1>1, EarlyStepsInv, InsertAttemptInv, VerifyFeeInv, SettlePaymentInv,
     MarkSettledInv, MarkFailedInv, InsertRecordInv, EnqueueInv, LinkInv, CrashInv
     DEF RequestStep
<1>2. ASSUME NEW r \in Req, NEW c \in Content, NEW n \in Nonce,
             NEW p \in Pay \cup {NoPay}, NEW batch \in BOOLEAN,
             Submit(r, c, n, p, batch)
      PROVE  RecordInv'
  BY <1>2, SubmitInv
<1>3. ASSUME NEW p \in Fee, Confirmed(p) PROVE RecordInv'
  BY <1>3, ConfirmedInv
<1>4. CASE UNCHANGED vars
  BY <1>4 DEF vars, RecordInv, TypeOK, GoodReq, GoodPay, GoodRecord, AllDiffer,
              OneOwner, Recorded, Conflict, OwnedAt, Without
<1>5. QED
  BY <1>1, <1>2, <1>3, <1>4 DEF Next
-----------------------------------------------------------------------------
(***************************************************************************)
(* The theorems.                                                           *)
(***************************************************************************)
LEMMA RecordAlways == Spec => []RecordInv
<1>1. Init => RecordInv
  BY RecordInit
<1>2. RecordInv /\ [Next]_vars => RecordInv'
  BY RecordStep
<1>3. QED
  BY <1>1, <1>2, PTL DEF Spec

\* Rows, attempts and requests have the forms the schema gives them, and an
\* anchoring job is only ever added for a record that is in the table.
THEOREM RecordTypes == Spec => []TypeOK
<1>1. RecordInv => TypeOK
  BY DEF RecordInv
<1>2. QED
  BY <1>1, RecordAlways, PTL

\* The invariant tells of payments and records what the theorems below say.
LEMMA RecordMeans ==
  ASSUME RecordInv
  PROVE  RecordsArePaid /\ AttemptsAreTrue /\ MoneyLostOnlyToConflict
<1>1. RecordsArePaid
  BY DEF RecordInv, RecordsArePaid, GoodRecord, AllDiffer
<1>2. AttemptsAreTrue
  <2>1. \A p \in Pay : OwnedAt(p, Owning) => Held(p)
    BY DEF OwnedAt, Owning, Held, InFlight, At
  <2>2. QED
    BY <2>1 DEF RecordInv, GoodPay, AttemptsAreTrue
<1>3. MoneyLostOnlyToConflict
  <2>1. \A p \in Pay : OwnedAt(p, {"settle", "insert"}) => Held(p)
    BY DEF OwnedAt, Held, InFlight, At
  <2>2. \A p \in Usdc : p \in Pay
    BY DEF Pay
  <2>3. QED
    BY <2>1, <2>2 DEF RecordInv, GoodPay, Conflict, MoneyLostOnlyToConflict
<1>4. QED
  BY <1>1, <1>2, <1>3

\* "No record without accepted payment evidence" (INV-012, schema.ts:221),
\* however requests interleave, statements fail and the process dies: every
\* record's money has arrived and was taken for its content, and no identifier
\* of a payment, content or nonce serves two records. Of a transfer presented
\* under two spellings of its hash, two identifiers, it says nothing: the code
\* takes both (OneRecordPerTransfer).
THEOREM RecordsPaid == Spec => []RecordsArePaid
<1>1. QED
  BY RecordMeans, RecordAlways, PTL

\* What a payment attempt says is true as long as the catch blocks of
\* verifyAndSettle and of the route can run: settled means a record, or a
\* request on its way to one; failed means no record.
THEOREM AttemptsTrue == Spec => []AttemptsAreTrue
<1>1. QED
  BY RecordMeans, RecordAlways, PTL

\* Without crashes and failing statements, money that the facilitator has
\* settled is lost only to a record that has taken the content or the nonce
\* since they were checked.
THEOREM MoneyLost == Spec => []MoneyLostOnlyToConflict
<1>1. QED
  BY RecordMeans, RecordAlways, PTL
-----------------------------------------------------------------------------
(***************************************************************************)
(* What a step of the server does, as the calls of the SDK see it.         *)
(***************************************************************************)
\* What makes a request a duplicate.
Duplicates(q) == RecordOf(q.content) # {} \/ UsesNonce(q.nonce)

\* Requests that may have made their record.
Past(q) == \/ q.pc \in {"enqueue", "link"}
           \/ q.pc = "undo" /\ q.answer = "error"
           \/ q.pc = "idle" /\ q.answer \in {"created", "error"}

Undone(r) ==
  At(r, "undo") =>
    /\ req[r].answer \in {"duplicate", "reused", "refused", "error"}
    /\ req[r].answer = "duplicate" => Duplicates(req[r])

\* What the statements of the step have written.
Wrote(r, v) ==
  /\ may' = may /\ paid \subseteq paid' /\ paid' \subseteq paid \cup Usdc
  /\ \/ records' = records
     \/ /\ records' = records \cup {[content |-> req[r].content,
                                     nonce |-> req[r].nonce, pay |-> req[r].pay]}
        /\ req[r].pc = "insert" /\ Past(v)
  /\ \A p \in Pay :
       \/ /\ (attempts'[p].status = "none") <=> (attempts[p].status = "none")
          /\ attempts'[p].content = attempts[p].content
          /\ attempts'[p].nonce = attempts[p].nonce
          /\ attempts'[p].batch = attempts[p].batch
       \/ /\ p = req[r].pay /\ attempts'[p].content = req[r].content
          /\ attempts'[p].nonce = req[r].nonce /\ attempts'[p].batch = req[r].batch

\* What the answer says.
Told(r, v) ==
  /\ v.pc = "idle" => v.answer # "none"
  /\ v.pc = "idle" /\ v.answer = "created" => req[r].pc = "link"
  /\ v.pc = "idle" /\ v.answer = "cached" =>
       /\ req[r].pc = "precheck" /\ req[r].pay \in Usdc
       /\ \E e \in RecordOf(req[r].content) : e.pay = req[r].pay
  /\ v.pc = "undo" => v.answer \in {"duplicate", "reused", "refused", "error"}
  /\ v.pc \in {"idle", "undo"} /\ v.answer = "duplicate" => Duplicates(req[r])
  /\ Past(req[r]) => Past(v)

Served(r, v) ==
  /\ v \in Request /\ req' = [req EXCEPT ![r] = v] /\ req'[r] = v
  /\ InFlight(r) /\ (v.pc = "idle" \/ Same(v, req[r]))
  /\ Wrote(r, v) /\ Told(r, v)

\* Nothing written: the answers that may be given.
LEMMA QuietServe ==
  ASSUME RecordInv, NEW r \in Req, InFlight(r),
         UNCHANGED <<records, attempts, may>>,
         paid \subseteq paid', paid' \subseteq paid \cup Usdc,
         \/ \E pc \in PC \ {"idle", "undo"} : Goto(r, pc) /\ ~Past(req[r])
         \/ Goto(r, "link")
         \/ Throws(r, "error") \/ Reply(r, "error")
         \/ Throws(r, "refused") /\ ~Past(req[r])
         \/ Reply(r, "refused") /\ ~Past(req[r])
         \/ Reply(r, "reused") /\ ~Past(req[r])
         \/ Reply(r, "duplicate") /\ ~Past(req[r]) /\ Duplicates(req[r])
  PROVE  \E v : Served(r, v)
<1>1. \A v : Wrote(r, v)
  BY DEF Wrote
<1>2. \A pc \in {"idle", "undo", "link"} : pc \in PC
  BY DEF PC
<1>3. \A a \in {"error", "refused", "reused", "duplicate"} : a \in Answer
  BY DEF Answer
<1>4. ASSUME NEW pc \in PC \ {"idle", "undo"}, Goto(r, pc),
             ~Past(req[r]) \/ pc = "link"
      PROVE  \E v : Served(r, v)
  <2>1. PICK v \in Request : /\ req' = [req EXCEPT ![r] = v] /\ req'[r] = v
                             /\ v.pc = pc /\ Same(v, req[r])
    BY <1>4, GotoIs
  <2>2. Told(r, v)
    BY <1>4, <2>1 DEF Told, Past
  <2>3. QED
    BY <1>1, <2>1, <2>2 DEF Served
<1>5. ASSUME NEW a \in {"error", "refused", "reused", "duplicate"},
             Throws(r, a) \/ Reply(r, a),
             ~Past(req[r]) \/ a = "error", a = "duplicate" => Duplicates(req[r])
      PROVE  \E v : Served(r, v)
  <2>1. PICK v \in Request : /\ req' = [req EXCEPT ![r] = v] /\ req'[r] = v
                             /\ v.answer = a
                             /\ v.pc = "idle" \/ (v.pc = "undo" /\ Same(v, req[r]))
    BY <1>3, <1>5, ThrowsIs, ReplyIs
  <2>2. Told(r, v)
    BY <1>5, <2>1 DEF Told, Past
  <2>3. QED
    BY <1>1, <2>1, <2>2 DEF Served
<1>6. QED
  BY <1>2, <1>4, <1>5

LEMMA ReadServes ==
  ASSUME RecordInv, NEW r \in Req, preCheck(r) \/ checkDuplicates(r)
  PROVE  \E v : Served(r, v)
<1>1. InFlight(r) /\ ~Past(req[r]) /\ UNCHANGED <<records, attempts, paid, may>>
  BY DEF preCheck, checkDuplicates, InFlight, At, Past
<1>2. "dups" \in PC \ {"idle", "undo"} /\ "attempt" \in PC \ {"idle", "undo"}
  BY DEF PC
<1>3. CASE /\ preCheck(r) /\ Reply(r, "cached") /\ req[r].pay \in Usdc
           /\ \E e \in RecordOf(req[r].content) : e.pay = req[r].pay
  <2>1. PICK v \in Request : /\ req' = [req EXCEPT ![r] = v] /\ req'[r] = v
                             /\ v.pc = "idle" /\ v.answer = "cached"
    BY <1>3, ReplyIs DEF Answer
  <2>2. Told(r, v)
    BY <1>1, <1>3, <2>1 DEF Told, preCheck, At
  <2>3. Wrote(r, v)
    BY <1>1 DEF Wrote
  <2>4. QED
    BY <1>1, <2>1, <2>2, <2>3 DEF Served
<1>4. CASE preCheck(r)
  <2>1. \/ Reply(r, "cached") /\ req[r].pay \in Usdc
           /\ \E e \in RecordOf(req[r].content) : e.pay = req[r].pay
        \/ Reply(r, "duplicate") /\ Duplicates(req[r])
        \/ Reply(r, "refused") \/ Goto(r, "dups") \/ Reply(r, "error")
    BY <1>4 DEF preCheck, Duplicates
  <2>2. QED
    BY <1>1, <1>2, <1>3, <1>4, <2>1, QuietServe
<1>5. CASE checkDuplicates(r)
  <2>1. \/ Reply(r, "duplicate") /\ Duplicates(req[r])
        \/ Reply(r, "reused") \/ Reply(r, "refused") \/ Goto(r, "attempt")
        \/ Reply(r, "error")
    BY <1>5 DEF checkDuplicates, Duplicates
  <2>2. QED
    BY <1>1, <1>2, <2>1, QuietServe
<1>6. QED
  BY <1>4, <1>5

LEMMA AttemptServes ==
  ASSUME RecordInv, NEW r \in Req, InsertAttempt(r)
  PROVE  \E v : Served(r, v)
<1>1. /\ InFlight(r) /\ ~Past(req[r]) /\ UNCHANGED <<records, paid, may>>
      /\ req[r].pc = "attempt" /\ ~Caught(req[r])
  BY DEF InsertAttempt, InFlight, At, Past, Caught
<1>2. CASE UNCHANGED attempts
  <2>1. \/ Reply(r, "reused") \/ Throws(r, "error")
        \/ /\ attempts' = [attempts EXCEPT ![req[r].pay] =
                 [status |-> "pending", content |-> req[r].content,
                  nonce |-> req[r].nonce, linked |-> FALSE, batch |-> req[r].batch]]
           /\ Goto(r, "verify")
    BY DEF InsertAttempt, Statement
  <2>2. "verify" \in PC \ {"idle", "undo"}
    BY DEF PC
  <2>3. QED
    BY <1>1, <1>2, <2>1, <2>2, QuietServe
<1>3. CASE /\ attempts' = [attempts EXCEPT ![req[r].pay] =
                 [status |-> "pending", content |-> req[r].content,
                  nonce |-> req[r].nonce, linked |-> FALSE, batch |-> req[r].batch]]
           /\ Goto(r, "verify") \/ Throws(r, "error")
  <2>1. ASSUME NEW p \in Pay
        PROVE  \/ attempts'[p] = attempts[p]
               \/ /\ p = req[r].pay /\ attempts'[p].content = req[r].content
                  /\ attempts'[p].nonce = req[r].nonce
                  /\ attempts'[p].batch = req[r].batch
    BY <1>3 DEF RecordInv, TypeOK
  <2>2. \A v : Wrote(r, v)
    BY <1>1, <2>1 DEF Wrote
  <2>3. PICK v \in Request : /\ req' = [req EXCEPT ![r] = v] /\ req'[r] = v
                             /\ \/ v.pc = "verify" /\ Same(v, req[r])
                                \/ v.pc = "idle" /\ v.answer = "error"
    <3>1. CASE Goto(r, "verify")
      BY <3>1, GotoIs DEF PC
    <3>2. CASE Throws(r, "error")
      BY <1>1, <3>2, ThrowsIs DEF Answer
    <3>3. QED
      BY <1>3, <3>1, <3>2
  <2>4. Told(r, v)
    BY <1>1, <2>3 DEF Told
  <2>5. QED
    BY <1>1, <2>2, <2>3, <2>4 DEF Served
<1>4. QED
  BY <1>2, <1>3 DEF InsertAttempt, Statement

LEMMA VerifyServes ==
  ASSUME RecordInv, NEW r \in Req, verifyFee(r) \/ SettlePayment(r)
  PROVE  \E v : Served(r, v)
<1>1. /\ InFlight(r) /\ ~Past(req[r]) /\ UNCHANGED <<records, attempts, may>>
      /\ paid \subseteq paid' /\ paid' \subseteq paid \cup Usdc
  BY DEF verifyFee, SettlePayment, InFlight, At, Past
<1>2. "settle" \in PC \ {"idle", "undo"}
  BY DEF PC
<1>3. Goto(r, "settle") \/ Throws(r, "refused") \/ Throws(r, "error")
  BY DEF verifyFee, SettlePayment
<1>4. QED
  BY <1>1, <1>2, <1>3, QuietServe

\* An UPDATE of the attempt.
LEMMA UpdateWrites ==
  ASSUME RecordInv, NEW r \in Req, req[r].pc \in Owning,
         UNCHANGED <<records, paid, may>>,
         \/ UNCHANGED attempts
         \/ SetAttempt(req[r].pay, "settled") \/ SetAttempt(req[r].pay, "failed")
         \/ attempts' = [attempts EXCEPT ![req[r].pay].linked = TRUE],
         NEW v
  PROVE  Wrote(r, v)
<1>1. /\ attempts \in [Pay -> Attempt] /\ req[r].pay \in Pay
      /\ attempts[req[r].pay].status # "none"
  BY DEF RecordInv, TypeOK, GoodReq, Owning
<1>2. ASSUME NEW p \in Pay
      PROVE  /\ (attempts'[p].status = "none") <=> (attempts[p].status = "none")
             /\ attempts'[p].content = attempts[p].content
             /\ attempts'[p].nonce = attempts[p].nonce
             /\ attempts'[p].batch = attempts[p].batch
  <2>1. attempts[p] \in Attempt
    BY <1>1
  <2>2. QED
    BY <1>1, <2>1 DEF SetAttempt, Attempt
<1>3. QED
  BY <1>2 DEF Wrote

LEMMA UpdateServes ==
  ASSUME RecordInv, NEW r \in Req, Undone(r),
         MarkSettled(r) \/ MarkFailed(r) \/ linkRecord(r)
  PROVE  \E v : Served(r, v)
<1>1. /\ InFlight(r) /\ UNCHANGED <<records, paid, may>>
      /\ req[r].pc \in {"settle", "undo", "link"} /\ req[r].pc \in Owning
  BY DEF MarkSettled, MarkFailed, linkRecord, InFlight, At, Owning
<1>2. /\ \/ UNCHANGED attempts
         \/ SetAttempt(req[r].pay, "settled") \/ SetAttempt(req[r].pay, "failed")
         \/ attempts' = [attempts EXCEPT ![req[r].pay].linked = TRUE]
      /\ \/ req[r].pc = "settle" /\ Goto(r, "insert")
         \/ req[r].pc = "undo" /\ Reply(r, req[r].answer)
         \/ req[r].pc = "link" /\ Reply(r, "created")
         \/ Throws(r, "error")
  BY DEF MarkSettled, MarkFailed, linkRecord, Statement, At
<1>3. \A v : Wrote(r, v)
  BY <1>1, <1>2, UpdateWrites
<1>4. CASE req[r].pc = "settle" /\ Goto(r, "insert")
  <2>1. PICK v \in Request : /\ req' = [req EXCEPT ![r] = v] /\ req'[r] = v
                             /\ v.pc = "insert" /\ Same(v, req[r])
    BY <1>4, GotoIs DEF PC
  <2>2. Told(r, v)
    BY <1>4, <2>1 DEF Told, Past
  <2>3. QED
    BY <1>1, <1>3, <2>1, <2>2 DEF Served
<1>5. CASE req[r].pc = "undo" /\ Reply(r, req[r].answer)
  <2>1. /\ req[r].answer \in {"duplicate", "reused", "refused", "error"}
        /\ req[r].answer = "duplicate" => Duplicates(req[r])
    BY <1>5 DEF Undone, At
  <2>2. PICK v \in Request : /\ req' = [req EXCEPT ![r] = v] /\ req'[r] = v
                             /\ v.pc = "idle" /\ v.answer = req[r].answer
    BY <1>5, <2>1, ReplyIs DEF Answer
  <2>3. Told(r, v)
    BY <1>5, <2>1, <2>2 DEF Told, Past
  <2>4. QED
    BY <1>1, <1>3, <2>2, <2>3 DEF Served
<1>6. CASE req[r].pc = "link" /\ Reply(r, "created")
  <2>1. PICK v \in Request : /\ req' = [req EXCEPT ![r] = v] /\ req'[r] = v
                             /\ v.pc = "idle" /\ v.answer = "created"
    BY <1>6, ReplyIs DEF Answer
  <2>2. Told(r, v)
    BY <1>6, <2>1 DEF Told, Past
  <2>3. QED
    BY <1>1, <1>3, <2>1, <2>2 DEF Served
<1>7. CASE Throws(r, "error")
  <2>1. PICK v \in Request : /\ req' = [req EXCEPT ![r] = v] /\ req'[r] = v
                             /\ v.answer = "error"
                             /\ v.pc = "idle" \/ (v.pc = "undo" /\ Same(v, req[r]))
    BY <1>7, ThrowsIs DEF Answer
  <2>2. Told(r, v)
    BY <2>1 DEF Told, Past
  <2>3. QED
    BY <1>1, <1>3, <2>1, <2>2 DEF Served
<1>8. QED
  BY <1>2, <1>4, <1>5, <1>6, <1>7

LEMMA InsertServes ==
  ASSUME RecordInv, NEW r \in Req, InsertRecord(r)
  PROVE  \E v : Served(r, v)
<1>1. /\ req[r].pc = "insert" /\ InFlight(r) /\ ~Past(req[r])
      /\ UNCHANGED <<attempts, paid, may>>
  BY DEF InsertRecord, At, InFlight, Past
<1>2. PICK v \in Request :
        /\ req' = [req EXCEPT ![r] = v] /\ req'[r] = v
        /\ v.pc = "idle" \/ Same(v, req[r])
        /\ \/ /\ UNCHANGED records
              /\ v.pc \in {"idle", "undo"} /\ v.answer \in {"duplicate", "reused", "error"}
              /\ v.answer = "duplicate" => Duplicates(req[r])
           \/ /\ records' = records \cup {[content |-> req[r].content,
                                     nonce |-> req[r].nonce, pay |-> req[r].pay]}
              /\ v.pc = "enqueue" \/ (v.pc \in {"idle", "undo"} /\ v.answer = "error")
  <2>1. ASSUME NEW a \in {"duplicate", "reused", "error"}, Throws(r, a)
        PROVE  \E v \in Request : /\ req' = [req EXCEPT ![r] = v] /\ req'[r] = v
                                  /\ v.pc = "idle" \/ Same(v, req[r])
                                  /\ v.pc \in {"idle", "undo"} /\ v.answer = a
    <3>1. a \in Answer
      BY DEF Answer
    <3>2. QED
      BY <2>1, <3>1, ThrowsIs
  <2>2. CASE Goto(r, "enqueue")
    <3>1. PICK v \in Request : /\ req' = [req EXCEPT ![r] = v] /\ req'[r] = v
                               /\ v.pc = "enqueue" /\ Same(v, req[r])
      BY <2>2, GotoIs DEF PC
    <3>2. records' = records \cup {[content |-> req[r].content,
                                    nonce |-> req[r].nonce, pay |-> req[r].pay]}
      <4>1. CASE \E a \in {"duplicate", "reused", "error"} : Throws(r, a)
        <5>1. PICK w \in Request : /\ req'[r] = w /\ w.pc \in {"idle", "undo"}
          BY <2>1, <4>1
        <5>2. QED
          BY <3>1, <5>1
      <4>2. QED
        BY <4>1 DEF InsertRecord, Statement
    <3>3. QED
      BY <3>1, <3>2
  <2>3. CASE /\ UNCHANGED records /\ Duplicates(req[r])
             /\ Throws(r, "duplicate")
    BY <2>1, <2>3
  <2>4. CASE UNCHANGED records /\ (Throws(r, "reused") \/ Throws(r, "error"))
    BY <2>1, <2>4
  <2>5. CASE /\ records' = records \cup {[content |-> req[r].content,
                                     nonce |-> req[r].nonce, pay |-> req[r].pay]}
             /\ Throws(r, "error")
    BY <2>1, <2>5
  <2>6. QED
    BY <2>2, <2>3, <2>4, <2>5 DEF InsertRecord, Statement, Duplicates
<1>3. Told(r, v)
  BY <1>1, <1>2 DEF Told, Same
<1>4. Wrote(r, v)
  BY <1>1, <1>2 DEF Wrote, Past
<1>5. QED
  BY <1>1, <1>2, <1>3, <1>4 DEF Served

LEMMA ServeIs ==
  ASSUME RecordInv, NEW r \in Req, Undone(r), RequestStep(r)
  PROVE  \E v : Served(r, v)
<1>1. CASE EnqueueAnchorJob(r)
  <2>1. Goto(r, "link") /\ InFlight(r) /\ UNCHANGED <<records, attempts, paid, may>>
    BY <1>1 DEF EnqueueAnchorJob, InFlight, At
  <2>2. QED
    BY <2>1, QuietServe
<1>2. CASE Crash(r)
  <2>1. Reply(r, "error") /\ InFlight(r) /\ UNCHANGED <<records, attempts, paid, may>>
    BY <1>2 DEF Crash
  <2>2. QED
    BY <2>1, QuietServe
<1>3. QED
  BY <1>1, <1>2, ReadServes, AttemptServes, VerifyServes, UpdateServes, InsertServes
     DEF RequestStep
-----------------------------------------------------------------------------
(***************************************************************************)
(* The calls of the SDK: what they have asked for.                         *)
(***************************************************************************)
\* A call that has its payment, if it needs one before its POST.
Begun == {"post", "sent", "sign", "done"}

\* A request of call n may be of content c with payment p.
Asked(n, c, p, batch) ==
  /\ n \in Nonce /\ call[n].pc \in Begun /\ call[n].content = c
  /\ p = call[n].fee \/ (call[n].signed /\ p = call[n].usdc)
  /\ batch = (call[n].mode = "batch")

AskedReq(r) ==
  InFlight(r) => Asked(req[r].nonce, req[r].content, req[r].pay, req[r].batch)
AskedPay(p) ==
  attempts[p].status # "none" =>
    Asked(attempts[p].nonce, attempts[p].content, p, attempts[p].batch)
AskedRow(e) == \E batch \in BOOLEAN : Asked(e.nonce, e.content, e.pay, batch)

Formed(c) ==
  /\ c.pc = "idle" => c.mode = "none" /\ c.fee = NoPay /\ c.try = 0
  /\ c.pc # "idle" => c.mode # "none" /\ c.content \in Content
  /\ c.mode = "x402" => c.usdc \in Usdc /\ c.fee = NoPay
  /\ c.mode # "x402" => c.usdc = NoPay /\ ~c.signed
  /\ c.pc \in {"pay", "confirm"} => c.mode = "fee" /\ c.try = 0
  /\ c.pc = "pay" => c.fee = NoPay
  /\ c.pc = "sign" => c.mode = "x402" /\ ~c.signed /\ c.try = 0
  /\ (c.pc = "done") <=> (c.out # "none")
  /\ (c.pc = "sent") <=> (c.slot # NoReq)

SlotsDiffer ==
  \A j, k \in Nonce : call[j].slot = call[k].slot /\ call[k].slot # NoReq => j = k
UsdcDiffer ==
  \A j, k \in Nonce : call[j].usdc = call[k].usdc /\ call[k].usdc # NoPay => j = k

\* A request that has ended has an answer for the call that waits for it.
Answered(c) == c.pc = "sent" /\ At(c.slot, "idle") => req[c.slot].answer # "none"

CallsTyped ==
  /\ call \in [Nonce -> Call] /\ reverted \subseteq Fee \ paid
  /\ netMay \in NetFaultSets

CallInv ==
  /\ RecordInv /\ CallsTyped /\ SlotsDiffer /\ UsdcDiffer
  /\ \A k \in Nonce : Formed(call[k]) /\ Answered(call[k])
  /\ \A r \in Req : AskedReq(r) /\ Undone(r)
  /\ \A p \in Pay : AskedPay(p)
  /\ \A e \in records : AskedRow(e)

LEMMA CallInit == SdkInit => CallInv
<1> SUFFICES ASSUME SdkInit PROVE CallInv
  OBVIOUS
<1>1. RecordInv
  BY RecordInit DEF SdkInit
<1>2. /\ \A r \in Req : req[r].pc = "idle"
      /\ \A p \in Pay : attempts[p].status = "none"
      /\ records = {} /\ paid = {}
  BY DEF SdkInit, Init, Blank, NoAttempt
<1> DEFINE c == [pc |-> "idle", mode |-> "none", content |-> NoContent, fee |-> NoPay,
                 usdc |-> NoPay, signed |-> FALSE, try |-> 0, slot |-> NoReq,
                 out |-> "none"]
<1>3. \A k \in Nonce : call[k] = c
  BY DEF SdkInit
<1>4. c \in Call
  BY SdkAssumption DEF Call, Outcome
<1>5. CallsTyped
  BY <1>2, <1>4 DEF SdkInit, CallsTyped
<1>6. \A k \in Nonce : Formed(call[k]) /\ Answered(call[k])
  BY <1>3 DEF Formed, Answered
<1>7. SlotsDiffer /\ UsdcDiffer
  BY <1>3 DEF SlotsDiffer, UsdcDiffer
<1>8. \A r \in Req : AskedReq(r) /\ Undone(r)
  BY <1>2 DEF AskedReq, Undone, InFlight, At
<1>9. \A p \in Pay : AskedPay(p)
  BY <1>2 DEF AskedPay
<1>10. QED
  BY <1>1, <1>2, <1>5, <1>6, <1>7, <1>8, <1>9 DEF CallInv

\* The calls stand still: the server or the chain moves.
LEMMA ServeAsked ==
  ASSUME CallInv, NEW r \in Req, NEW v, Served(r, v), RecordInv',
         UNCHANGED <<call, reverted, netMay>>
  PROVE  CallInv'
<1>1. \A n, c, p, b : Asked(n, c, p, b) => Asked(n, c, p, b)'
  BY DEF Asked
<1>2. /\ req' = [req EXCEPT ![r] = v] /\ req'[r] = v /\ req \in [Req -> Request]
      /\ \A s \in Req : s # r => req'[s] = req[s]
  BY DEF Served, CallInv, RecordInv, TypeOK
<1>3. Asked(req[r].nonce, req[r].content, req[r].pay, req[r].batch)
  BY DEF Served, CallInv, AskedReq
<1>4. req[r].batch \in BOOLEAN
  BY <1>2 DEF Request
<1>5. ASSUME NEW s \in Req PROVE AskedReq(s)'
  <2>1. CASE s = r
    <3>1. CASE v.pc = "idle"
      BY <1>2, <2>1, <3>1 DEF AskedReq, InFlight, At
    <3>2. CASE Same(v, req[r])
      BY <1>1, <1>2, <1>3, <2>1, <3>2 DEF AskedReq, Same
    <3>3. QED
      BY <3>1, <3>2 DEF Served
  <2>2. CASE s # r
    <3>1. AskedReq(s) /\ req'[s] = req[s]
      BY <1>2, <2>2 DEF CallInv
    <3>2. QED
      BY <1>1, <3>1 DEF AskedReq, InFlight, At
  <2>3. QED
    BY <2>1, <2>2
<1>6. records \subseteq records'
  BY DEF Served, Wrote
<1>7. ASSUME NEW s \in Req PROVE Undone(s)'
  <2>1. CASE s = r
    <3>1. CASE v.pc = "undo"
      <4>1. Same(v, req[r])
        BY <3>1 DEF Served
      <4>2. /\ v.answer \in {"duplicate", "reused", "refused", "error"}
            /\ v.answer = "duplicate" => Duplicates(req[r])
        BY <3>1 DEF Served, Told
      <4>3. Duplicates(req[r]) =>
              \E e \in records' : e.content = v.content \/ e.nonce = v.nonce
        BY <1>6, <4>1 DEF Duplicates, RecordOf, UsesNonce, Same
      <4>4. QED
        BY <1>2, <2>1, <4>2, <4>3 DEF Undone, At, Duplicates, RecordOf, UsesNonce
    <3>2. CASE v.pc # "undo"
      BY <1>2, <2>1, <3>2 DEF Undone, At
    <3>3. QED
      BY <3>1, <3>2
  <2>2. CASE s # r
    <3>1. Undone(s) /\ req'[s] = req[s]
      BY <1>2, <2>2 DEF CallInv
    <3>2. QED
      BY <1>6, <3>1 DEF Undone, At, Duplicates, RecordOf, UsesNonce
  <2>3. QED
    BY <2>1, <2>2
<1>8. ASSUME NEW p \in Pay PROVE AskedPay(p)'
  <2>1. CASE /\ (attempts'[p].status = "none") <=> (attempts[p].status = "none")
             /\ attempts'[p].content = attempts[p].content
             /\ attempts'[p].nonce = attempts[p].nonce
             /\ attempts'[p].batch = attempts[p].batch
    <3>1. AskedPay(p)
      BY DEF CallInv
    <3>2. QED
      BY <1>1, <2>1, <3>1 DEF AskedPay
  <2>2. CASE /\ p = req[r].pay /\ attempts'[p].content = req[r].content
             /\ attempts'[p].nonce = req[r].nonce /\ attempts'[p].batch = req[r].batch
    BY <1>1, <1>3, <2>2 DEF AskedPay
  <2>3. QED
    BY <2>1, <2>2 DEF Served, Wrote
<1>9. ASSUME NEW e \in records' PROVE AskedRow(e)'
  <2>1. CASE e \in records
    BY <1>1, <2>1 DEF CallInv, AskedRow
  <2>2. CASE e = [content |-> req[r].content, nonce |-> req[r].nonce, pay |-> req[r].pay]
    <3>1. e.content = req[r].content /\ e.nonce = req[r].nonce /\ e.pay = req[r].pay
      BY <2>2
    <3>2. QED
      BY <1>1, <1>3, <1>4, <3>1 DEF AskedRow
  <2>3. QED
    BY <2>1, <2>2 DEF Served, Wrote
<1>10. CallsTyped'
  BY RecordsAssumption DEF CallInv, CallsTyped, Served, Wrote
<1>11. SlotsDiffer' /\ UsdcDiffer' /\ \A k \in Nonce : Formed(call[k])'
  BY DEF CallInv, SlotsDiffer, UsdcDiffer, Formed
<1>12. ASSUME NEW k \in Nonce PROVE Answered(call[k])'
  <2>1. call[k].pc = "sent" => call[k].slot \in Req
    BY DEF CallInv, Formed, CallsTyped, Call
  <2>2. Answered(call[k])
    BY DEF CallInv
  <2>3. v.pc = "idle" => v.answer # "none"
    BY DEF Served, Told
  <2>4. QED
    BY <1>2, <2>1, <2>2, <2>3 DEF Answered, At
<1>13. QED
  BY <1>5, <1>7, <1>8, <1>9, <1>10, <1>11, <1>12 DEF CallInv

LEMMA SettleAsked ==
  ASSUME CallInv, NEW p \in Fee, Settle(p), RecordInv'
  PROVE  CallInv'
<1>1. /\ UNCHANGED <<records, attempts, req, may, call, netMay>>
      /\ SameTransfer(p) \subseteq Fee /\ SameTransfer(p) \cap (paid \cup reverted) = {}
      /\ \/ paid' = paid \cup SameTransfer(p) /\ reverted' = reverted
         \/ reverted' = reverted \cup SameTransfer(p) /\ paid' = paid
  BY DEF Settle, Confirmed, SameTransfer, vars
<1>2. CallsTyped'
  BY <1>1 DEF CallInv, CallsTyped
<1>3. \A n, c, q, b : Asked(n, c, q, b)' <=> Asked(n, c, q, b)
  BY <1>1 DEF Asked
<1>4. SlotsDiffer' /\ UsdcDiffer' /\ \A k \in Nonce : Formed(call[k])' /\ Answered(call[k])'
  BY <1>1 DEF CallInv, SlotsDiffer, UsdcDiffer, Formed, Answered, At
<1>5. \A r \in Req : AskedReq(r)' /\ Undone(r)'
  BY <1>1, <1>3 DEF CallInv, AskedReq, Undone, InFlight, At, Duplicates, RecordOf, UsesNonce
<1>6. (\A q \in Pay : AskedPay(q)') /\ \A e \in records' : AskedRow(e)'
  BY <1>1, <1>3 DEF CallInv, AskedPay, AskedRow
<1>7. QED
  BY <1>2, <1>4, <1>5, <1>6 DEF CallInv

\* One call moves, to w.
Moves(k, w) ==
  /\ w \in Call /\ call' = [call EXCEPT ![k] = w] /\ call'[k] = w
  /\ \A j \in Nonce : j # k => call'[j] = call[j]

SameCall(w, c) == /\ w.mode = c.mode /\ w.content = c.content /\ w.fee = c.fee
                  /\ w.usdc = c.usdc

LEMMA MovesIs ==
  ASSUME CallInv, NEW k \in Nonce, NEW w \in Call, call' = [call EXCEPT ![k] = w]
  PROVE  Moves(k, w)
BY DEF Moves, CallInv, CallsTyped

LEMMA MoveAsked ==
  ASSUME CallInv, NEW k \in Nonce, NEW w, Moves(k, w), RecordInv',
         UNCHANGED <<records, attempts, paid, may, reverted, netMay>>,
         Formed(w),
         call[k].pc \in Begun =>
           /\ w.pc \in Begun /\ SameCall(w, call[k])
           /\ call[k].signed => w.signed,
         w.slot # NoReq => req'[w.slot].pc = "precheck",
         w.usdc # NoPay => \/ w.usdc = call[k].usdc
                           \/ \A j \in Nonce : call[j].usdc # w.usdc,
         \A r \in Req :
           \/ req'[r] = req[r] /\ r # w.slot
           \/ /\ \A j \in Nonce : j # k => call[j].slot # r
              /\ \/ req'[r].pc = "idle"
                 \/ /\ req'[r].pc = "precheck"
                    /\ Asked(req[r].nonce, req[r].content, req[r].pay, req[r].batch)'
  PROVE  CallInv'
<1>1. call'[k] = w /\ \A j \in Nonce : j # k => call'[j] = call[j]
  BY DEF Moves
<1>2. ASSUME NEW n, NEW c, NEW p, NEW b, Asked(n, c, p, b) PROVE Asked(n, c, p, b)'
  <2>1. CASE n = k
    BY <1>1, <1>2, <2>1 DEF Asked, SameCall
  <2>2. CASE n # k
    BY <1>1, <1>2, <2>2 DEF Asked
  <2>3. QED
    BY <2>1, <2>2
<1>3. CallsTyped'
  BY DEF CallInv, CallsTyped, Moves
<1>4. SlotsDiffer'
  <2>1. w.slot # NoReq => w.slot \in Req /\ \A j \in Nonce : j # k => call[j].slot # w.slot
    BY DEF Moves, Call
  <2>2. QED
    BY <1>1, <2>1 DEF CallInv, SlotsDiffer
<1>5. UsdcDiffer'
  BY <1>1 DEF CallInv, UsdcDiffer
<1>6. ASSUME NEW j \in Nonce PROVE Formed(call[j])'
  <2>1. CASE j # k
    BY <1>1, <2>1 DEF CallInv, Formed
  <2>2. QED
    BY <1>1, <2>1
<1>7. ASSUME NEW r \in Req PROVE AskedReq(r)' /\ Undone(r)'
  <2>1. CASE req'[r] = req[r]
    <3>1. AskedReq(r) /\ Undone(r)
      BY DEF CallInv
    <3>2. QED
      BY <1>2, <2>1, <3>1 DEF AskedReq, Undone, InFlight, At, Duplicates, RecordOf, UsesNonce
  <2>2. CASE req'[r].pc = "idle"
    BY <2>2 DEF AskedReq, Undone, InFlight, At
  <2>3. CASE /\ req'[r].pc = "precheck"
             /\ Asked(req[r].nonce, req[r].content, req[r].pay, req[r].batch)'
    BY <2>3 DEF AskedReq, Undone, At
  <2>4. QED
    BY <2>1, <2>2, <2>3
<1>8. ASSUME NEW p \in Pay PROVE AskedPay(p)'
  BY <1>2 DEF CallInv, AskedPay
<1>9. ASSUME NEW e \in records PROVE AskedRow(e)'
  BY <1>2 DEF CallInv, AskedRow
<1>10. ASSUME NEW j \in Nonce PROVE Answered(call[j])'
  <2>1. CASE j = k
    BY <1>1, <2>1 DEF Answered, At, Formed
  <2>2. CASE j # k
    <3>1. call[j].pc = "sent" => call[j].slot \in Req
      BY DEF CallInv, Formed, CallsTyped, Call
    <3>2. call[j].pc = "sent" => req'[call[j].slot] = req[call[j].slot]
      BY <2>2, <3>1
    <3>3. Answered(call[j])
      BY DEF CallInv
    <3>4. QED
      BY <1>1, <2>2, <3>2, <3>3 DEF Answered, At
  <2>3. QED
    BY <2>1, <2>2
<1>11. QED
  BY <1>3, <1>4, <1>5, <1>6, <1>7, <1>8, <1>9, <1>10 DEF CallInv

\* How a call moves on after an attempt. a is what it was answered, if it was.
Retries(k, w) ==
  /\ Moves(k, w) /\ SameCall(w, call[k]) /\ w.signed = call[k].signed /\ w.slot = NoReq
  /\ \/ w.pc = "post" /\ w.try = call[k].try + 1 /\ w.out = call[k].out
     \/ w.pc = "done" /\ w.try = call[k].try /\ w.out = "failed"
Reacts(k, w, a) ==
  /\ Moves(k, w) /\ SameCall(w, call[k]) /\ w.signed = call[k].signed /\ w.slot = NoReq
  /\ \/ w.pc = "post" /\ w.try = call[k].try + 1 /\ w.out = call[k].out
     \/ /\ w.pc = "sign" /\ w.try = 0 /\ w.out = call[k].out
        /\ w.mode = "x402" /\ ~w.signed
     \/ /\ w.pc = "done" /\ w.try = call[k].try
        /\ \/ w.out = "failed"
           \/ w.out = a /\ a \in {"cached", "refused", "duplicate", "reused"}
           \/ w.out = "receipt" /\ a = "created"

LEMMA FinishIs ==
  ASSUME CallInv, NEW k \in Nonce, NEW out \in Outcome, Finish(k, out)
  PROVE  \E w : /\ Moves(k, w) /\ SameCall(w, call[k]) /\ w.signed = call[k].signed
                /\ w.slot = NoReq /\ w.pc = "done" /\ w.try = call[k].try /\ w.out = out
<1> DEFINE w == [call[k] EXCEPT !.pc = "done", !.out = out, !.slot = NoReq]
<1>1. call \in [Nonce -> Call] /\ call[k] \in Call
  BY DEF CallInv, CallsTyped
<1>2. call' = [call EXCEPT ![k] = w]
  BY <1>1 DEF Finish
<1>3. /\ w \in Call /\ SameCall(w, call[k]) /\ w.signed = call[k].signed
      /\ w.slot = NoReq /\ w.pc = "done" /\ w.try = call[k].try /\ w.out = out
  BY <1>1 DEF Call, SameCall
<1> HIDE DEF w
<1>4. QED
  BY <1>2, <1>3, MovesIs

LEMMA AgainIs ==
  ASSUME CallInv, NEW k \in Nonce, Again(k)
  PROVE  \E w : Retries(k, w)
<1>1. call \in [Nonce -> Call] /\ call[k] \in Call
  BY DEF CallInv, CallsTyped
<1>2. CASE call[k].try < MaxRetries
  <2> DEFINE w == [call[k] EXCEPT !.pc = "post", !.try = call[k].try + 1, !.slot = NoReq]
  <2>1. call' = [call EXCEPT ![k] = w]
    BY <1>1, <1>2 DEF Again
  <2>2. call[k].try + 1 \in 0..MaxRetries
    <3>1. call[k].try \in 0..MaxRetries /\ MaxRetries \in Nat
      BY <1>1, SdkAssumption DEF Call
    <3>2. QED
      BY <1>2, <3>1
  <2>3. /\ w \in Call /\ SameCall(w, call[k]) /\ w.signed = call[k].signed
        /\ w.slot = NoReq /\ w.pc = "post" /\ w.try = call[k].try + 1
        /\ w.out = call[k].out
    BY <1>1, <2>2 DEF Call, SameCall
  <2> HIDE DEF w
  <2>4. QED
    BY <2>1, <2>3, MovesIs DEF Retries
<1>3. CASE ~(call[k].try < MaxRetries)
  <2>1. Finish(k, "failed")
    BY <1>3 DEF Again
  <2>2. QED
    BY <2>1, FinishIs DEF Retries, Outcome
<1>4. QED
  BY <1>2, <1>3

\* The statuses that can come for an answer.
LEMMA StatusIs ==
  ASSUME NEW k \in Nonce, NEW a \in Answer \ {"none"}, NEW s \in Statuses(k, a)
  PROVE  /\ s \in 200..299 => \/ a = "cached" /\ s = 200
                              \/ a = "created" /\ s = 201
         /\ s = 402 => a = "refused"
         /\ s = 409 => a \in {"duplicate", "reused"}
<1>1. s = NoStatus \/ s = BatchStatus(a) \/ s = ReplyStatus(a)
  BY DEF Statuses
<1>2. (BatchStatus(a) = 201 /\ a = "created") \/ BatchStatus(a) = 400
  BY DEF BatchStatus
<1>3. \/ a = "created" /\ ReplyStatus(a) = 201
      \/ a = "cached" /\ ReplyStatus(a) = 200
      \/ a = "refused" /\ ReplyStatus(a) = 402
      \/ a = "error" /\ ReplyStatus(a) = 500
      \/ a \in {"duplicate", "reused"} /\ ReplyStatus(a) = 409
  BY DEF ReplyStatus, apiErrorHandler, Answer
<1> HIDE DEF ReplyStatus, BatchStatus
<1>4. QED
  BY <1>1, <1>2, <1>3 DEF NoStatus

LEMMA HandleIs ==
  ASSUME CallInv, NEW k \in Nonce, NEW a \in Answer \ {"none"}, NEW s \in Statuses(k, a),
         Handle(k, s, a)
  PROVE  \E w : Reacts(k, w, a)
<1>1. CASE s \in 200..299 /\ Finish(k, IF s = 200 THEN "cached" ELSE "receipt")
  <2>1. \/ s = 200 /\ a = "cached" /\ Finish(k, "cached")
        \/ s = 201 /\ a = "created" /\ Finish(k, "receipt")
    BY <1>1, StatusIs
  <2>2. QED
    BY <2>1, FinishIs DEF Reacts, Outcome
<1>2. CASE Again(k)
  BY <1>2, AgainIs DEF Retries, Reacts
<1>3. CASE /\ call[k].mode = "x402" /\ ~call[k].signed
           /\ call' = [call EXCEPT ![k] =
                         [@ EXCEPT !.pc = "sign", !.try = 0, !.slot = NoReq]]
  <2> DEFINE w == [call[k] EXCEPT !.pc = "sign", !.try = 0, !.slot = NoReq]
  <2>1. call \in [Nonce -> Call] /\ call[k] \in Call
    BY DEF CallInv, CallsTyped
  <2>2. call' = [call EXCEPT ![k] = w]
    BY <1>3, <2>1
  <2>3. 0 \in 0..MaxRetries
    BY SdkAssumption
  <2>4. /\ w \in Call /\ SameCall(w, call[k]) /\ w.signed = call[k].signed
        /\ w.slot = NoReq /\ w.pc = "sign" /\ w.try = 0 /\ w.out = call[k].out
    BY <2>1, <2>3 DEF Call, SameCall
  <2>5. w.mode = "x402" /\ ~w.signed
    BY <1>3
  <2> HIDE DEF w
  <2>6. QED
    BY <2>2, <2>4, <2>5, MovesIs DEF Reacts
<1>4. CASE s \in {400, 402, 409} /\ Finish(k, IF s = 400 THEN "failed" ELSE a)
  <2>1. \/ Finish(k, "failed")
        \/ a \in {"refused", "duplicate", "reused"} /\ Finish(k, a)
    BY <1>4, StatusIs
  <2>2. QED
    BY <2>1, FinishIs DEF Reacts, Outcome
<1>5. QED
  BY <1>1, <1>2, <1>3, <1>4 DEF Handle

\* A call that draws up its payment: record, SendFee and AwaitFee.
Opens(k, w) ==
  /\ Moves(k, w) /\ Formed(w) /\ call[k].pc \notin Begun
  /\ w.pc # "sent" /\ w.pc # "sign" /\ w.try = 0 /\ w.slot = NoReq
  /\ w.pc = "done" => w.out = "failed" /\ "wallet" \in netMay
  /\ w.pc = "post" /\ w.mode = "fee" => w.fee \in paid \cup reverted
  /\ call[k].fee \in Pay => w.fee = call[k].fee
  /\ w.usdc # NoPay => \/ w.usdc = call[k].usdc
                       \/ \A j \in Nonce : call[j].usdc # w.usdc

LEMMA NewUsdc ==
  ASSUME Fresh(Usdc, "usdc")
  PROVE  New(Usdc, "usdc") \in Usdc /\ \A k \in Nonce : call[k].usdc # New(Usdc, "usdc")
<1>1. \E x \in Usdc : x \notin Known("usdc")
  BY DEF Fresh
<1>2. New(Usdc, "usdc") \in Usdc /\ New(Usdc, "usdc") \notin Known("usdc")
  BY <1>1 DEF New
<1>3. QED
  BY <1>2 DEF Known

LEMMA RecordOpens ==
  ASSUME CallInv, NEW k \in Nonce, NEW m \in Mode, NEW c \in Content,
         NEW f \in Fee \cup {NoPay}, record(k, m, c, f)
  PROVE  \E w : Opens(k, w)
<1> DEFINE u == IF m = "x402" THEN New(Usdc, "usdc") ELSE NoPay
           w == [call[k] EXCEPT !.mode = m, !.content = c, !.fee = f, !.usdc = u,
                                !.pc = IF m = "fee" THEN "pay" ELSE "post"]
<1>1. call \in [Nonce -> Call] /\ call[k] \in Call
  BY DEF CallInv, CallsTyped
<1>2. /\ call[k].pc = "idle" /\ call[k].mode = "none" /\ call[k].fee = NoPay
      /\ call[k].try = 0 /\ ~call[k].signed /\ call[k].slot = NoReq
      /\ call[k].out = "none"
  BY DEF CallInv, Formed, record, Doing
<1>3. /\ u \in Usdc \cup {NoPay}
      /\ u # NoPay => m = "x402" /\ \A j \in Nonce : call[j].usdc # u
      /\ m = "x402" => u \in Usdc
  BY NewUsdc DEF record
<1>4. (m \in {"byo", "batch"}) <=> (f # NoPay)
  BY DEF record
<1>5. NoPay \notin Fee /\ NoPay \notin Usdc
  BY RecordsAssumption DEF Pay
<1>6. m # "none"
  BY SdkAssumption
<1> HIDE DEF u
<1>7. call' = [call EXCEPT ![k] = w]
  BY <1>1 DEF record, u
<1>8. w \in Call
  BY <1>1, <1>3, ZenonT(40) DEF Call
<1>9. /\ w.mode = m /\ w.content = c /\ w.fee = f /\ w.usdc = u
      /\ w.pc = (IF m = "fee" THEN "pay" ELSE "post")
      /\ w.try = 0 /\ w.signed = FALSE /\ w.slot = NoReq /\ w.out = "none"
  BY <1>1, <1>2 DEF Call
<1> HIDE DEF w
<1>10. Formed(w)
  BY <1>3, <1>4, <1>6, <1>9 DEF Formed
<1>11. Moves(k, w)
  BY <1>7, <1>8, MovesIs
<1>12. QED
  BY <1>2, <1>3, <1>5, <1>9, <1>10, <1>11 DEF Opens, Begun, Pay

LEMMA SendFeeOpens ==
  ASSUME CallInv, NEW k \in Nonce, SendFee(k)
  PROVE  \E w : Opens(k, w)
<1>1. call \in [Nonce -> Call] /\ call[k] \in Call
  BY DEF CallInv, CallsTyped
<1>2. /\ call[k].pc = "pay" /\ call[k].mode = "fee" /\ call[k].fee = NoPay
      /\ call[k].content \in Content /\ call[k].try = 0 /\ ~call[k].signed
      /\ call[k].slot = NoReq /\ call[k].out = "none" /\ call[k].usdc = NoPay
  BY DEF CallInv, Formed, SendFee, Doing
<1> DEFINE sent(f) == [call EXCEPT ![k].fee = f]
<1>3. PICK new \in Fee :
        \/ call' = [sent(new) EXCEPT ![k].pc = "confirm"]
        \/ /\ "wallet" \in netMay
           /\ \E c \in {call, sent(new)} :
                call' = [c EXCEPT ![k] = [@ EXCEPT !.pc = "done", !.out = "failed"]]
  BY DEF SendFee, NextFee, Unsent
<1>4. ASSUME NEW f \in Fee \cup {NoPay}, NEW pc \in {"confirm", "done"},
             NEW out \in {"none", "failed"}, (pc = "done") <=> (out = "failed"),
             pc = "done" => "wallet" \in netMay,
             call' = [call EXCEPT ![k] =
                        [call[k] EXCEPT !.fee = f, !.pc = pc, !.out = out]]
      PROVE  \E w : Opens(k, w)
  <2> DEFINE w == [call[k] EXCEPT !.fee = f, !.pc = pc, !.out = out]
  <2>1. w \in Call
    BY <1>1 DEF Call, Outcome
  <2>2. /\ w.mode = "fee" /\ w.content = call[k].content /\ w.fee = f /\ w.usdc = NoPay
        /\ w.pc = pc /\ w.try = 0 /\ w.signed = FALSE /\ w.slot = NoReq /\ w.out = out
    BY <1>1, <1>2 DEF Call
  <2>3. Moves(k, w)
    BY <1>4, <2>1, MovesIs
  <2> HIDE DEF w
  <2>4. Formed(w)
    BY <1>2, <1>4, <2>2 DEF Formed
  <2>5. QED
    BY <1>2, <1>4, <2>2, <2>3, <2>4, RecordsAssumption DEF Opens, Begun
<1>5. CASE call' = [sent(new) EXCEPT ![k].pc = "confirm"]
  <2>1. call' = [call EXCEPT ![k] = [call[k] EXCEPT !.fee = new,
                                       !.pc = "confirm", !.out = "none"]]
    BY <1>1, <1>2, <1>5 DEF Call
  <2>2. QED
    BY <1>3, <1>4, <2>1
<1>6. CASE call' = [call EXCEPT ![k] = [@ EXCEPT !.pc = "done", !.out = "failed"]]
           /\ "wallet" \in netMay
  <2>1. call' = [call EXCEPT ![k] = [call[k] EXCEPT !.fee = NoPay,
                                       !.pc = "done", !.out = "failed"]]
    BY <1>1, <1>2, <1>6 DEF Call
  <2>2. QED
    BY <1>4, <1>6, <2>1
<1>7. CASE call' = [sent(new) EXCEPT ![k] = [@ EXCEPT !.pc = "done", !.out = "failed"]]
           /\ "wallet" \in netMay
  <2>1. call' = [call EXCEPT ![k] = [call[k] EXCEPT !.fee = new,
                                       !.pc = "done", !.out = "failed"]]
    BY <1>1, <1>7 DEF Call
  <2>2. QED
    BY <1>3, <1>4, <1>7, <2>1
<1>8. QED
  BY <1>3, <1>5, <1>6, <1>7

LEMMA AwaitFeeOpens ==
  ASSUME CallInv, NEW k \in Nonce, AwaitFee(k)
  PROVE  \E w : Opens(k, w)
<1>1. call \in [Nonce -> Call] /\ call[k] \in Call
  BY DEF CallInv, CallsTyped
<1>2. /\ call[k].pc = "confirm" /\ call[k].mode = "fee"
      /\ call[k].content \in Content /\ call[k].try = 0 /\ ~call[k].signed
      /\ call[k].slot = NoReq /\ call[k].out = "none" /\ call[k].usdc = NoPay
  BY DEF CallInv, Formed, AwaitFee, Doing
<1>3. CASE call[k].fee \in paid \cup reverted /\ call' = [call EXCEPT ![k].pc = "post"]
  <2> DEFINE w == [call[k] EXCEPT !.pc = "post"]
  <2>1. w \in Call /\ call' = [call EXCEPT ![k] = w]
    BY <1>1, <1>3 DEF Call
  <2>2. /\ w.mode = "fee" /\ w.content = call[k].content /\ w.fee = call[k].fee
        /\ w.usdc = NoPay /\ w.pc = "post" /\ w.try = 0 /\ w.signed = FALSE
        /\ w.slot = NoReq /\ w.out = "none"
    BY <1>1, <1>2 DEF Call
  <2>3. Moves(k, w)
    BY <2>1, MovesIs
  <2> HIDE DEF w
  <2>4. Formed(w)
    BY <1>2, <2>2 DEF Formed
  <2>5. QED
    BY <1>2, <1>3, <2>2, <2>3, <2>4 DEF Opens, Begun
<1>4. CASE "wallet" \in netMay /\ Finish(k, "failed")
  <2>1. PICK w : /\ Moves(k, w) /\ SameCall(w, call[k]) /\ w.signed = call[k].signed
                 /\ w.slot = NoReq /\ w.pc = "done" /\ w.try = call[k].try
                 /\ w.out = "failed"
    BY <1>4, FinishIs DEF Outcome
  <2>2. Formed(w)
    BY <1>2, <2>1 DEF Formed, SameCall
  <2>3. QED
    BY <1>2, <1>4, <2>1, <2>2 DEF Opens, Begun, SameCall
<1>5. QED
  BY <1>3, <1>4 DEF AwaitFee

LEMMA OpenAsked ==
  ASSUME CallInv, NEW k \in Nonce, NEW w, Opens(k, w),
         UNCHANGED <<vars, reverted, netMay>>
  PROVE  CallInv'
<1>1. RecordInv'
  BY RecordStep DEF CallInv
<1>2. UNCHANGED <<records, attempts, paid, may, req>>
  BY DEF vars
<1>3. \A r \in Req : r # w.slot
  BY SdkAssumption DEF Opens
<1>4. QED
  BY <1>1, <1>2, <1>3, MoveAsked DEF Opens

\* PostRecord: the request takes a slot nobody waits for.
Posts(k, w, r) ==
  /\ Moves(k, w) /\ SameCall(w, call[k]) /\ w.signed = call[k].signed
  /\ w.try = call[k].try /\ w.out = call[k].out /\ w.pc = "sent" /\ w.slot = r
  /\ call[k].pc = "post" /\ r \in Req /\ At(r, "idle")
  /\ \A j \in Nonce : call[j].slot # r
  /\ \A s \in Req : s # r => req'[s] = req[s]
  /\ req'[r].pc = "precheck" /\ req'[r].content = call[k].content
  /\ req'[r].nonce = k /\ req'[r].pay = Payment(k)
  /\ req'[r].batch = (call[k].mode = "batch")

LEMMA PostIs ==
  ASSUME CallInv, NEW k \in Nonce, PostRecord(k)
  PROVE  (\E w, r : Posts(k, w, r)) /\ RecordInv'
         /\ UNCHANGED <<records, attempts, paid, jobs, may, reverted, netMay>>
<1> DEFINE r == CHOOSE r \in Idle : TRUE
           b == (call[k].mode = "batch")
           w == [call[k] EXCEPT !.pc = "sent", !.slot = r]
           v == [pc |-> "precheck", content |-> call[k].content, nonce |-> k,
                 pay |-> Payment(k), batch |-> b, answer |-> "none"]
<1>1. /\ call \in [Nonce -> Call] /\ call[k] \in Call /\ call[k].pc = "post"
      /\ req \in [Req -> Request]
  BY DEF CallInv, CallsTyped, PostRecord, Doing, RecordInv, TypeOK
<1>2. Idle # {}
  BY DEF PostRecord
<1>3. r \in Idle
  BY <1>2
<1>4. Submit(r, call[k].content, k, Payment(k), b)
  BY DEF PostRecord
<1>5. call' = [call EXCEPT ![k] = w]
  BY <1>1 DEF PostRecord
<1>6. UNCHANGED <<reverted, netMay>>
  BY DEF PostRecord
<1> HIDE DEF r
<1>7. r \in Req /\ At(r, "idle") /\ \A j \in Nonce : call[j].slot # r
  BY <1>3 DEF Idle
<1>8. /\ w \in Call /\ SameCall(w, call[k]) /\ w.signed = call[k].signed
      /\ w.try = call[k].try /\ w.out = call[k].out /\ w.pc = "sent" /\ w.slot = r
  BY <1>1, <1>7 DEF Call, SameCall
<1>9. Payment(k) \in Pay \cup {NoPay} /\ call[k].content \in Content
  BY <1>1 DEF Payment, Call, Pay, CallInv, Formed
<1>10. b \in BOOLEAN
  OBVIOUS
<1> HIDE DEF w
<1>11. Moves(k, w)
  BY <1>5, <1>8, MovesIs
<1>12. req' = [req EXCEPT ![r] = v] /\ UNCHANGED <<records, attempts, paid, jobs, may>>
  BY <1>4 DEF Submit
<1> HIDE DEF b
<1>13. v.pc = "precheck" /\ v.content = call[k].content /\ v.nonce = k
       /\ v.pay = Payment(k) /\ v.batch = b
  OBVIOUS
<1> HIDE DEF v
<1>14. req'[r] = v /\ \A s \in Req : s # r => req'[s] = req[s]
  BY <1>1, <1>7, <1>12
<1>15. Posts(k, w, r)
  BY <1>1, <1>7, <1>8, <1>11, <1>13, <1>14 DEF Posts, b
<1>16. RecordInv'
  BY <1>4, <1>7, <1>9, <1>10, SubmitInv DEF CallInv
<1>17. QED
  BY <1>6, <1>12, <1>15, <1>16

LEMMA PostAsked ==
  ASSUME CallInv, NEW k \in Nonce, NEW w, NEW r, Posts(k, w, r), RecordInv',
         UNCHANGED <<records, attempts, paid, jobs, may, reverted, netMay>>
  PROVE  CallInv'
<1>1. Formed(w)
  BY SdkAssumption DEF Posts, SameCall, CallInv, Formed
<1>2. Asked(req[r].nonce, req[r].content, req[r].pay, req[r].batch)'
  BY DEF Posts, Moves, SameCall, Asked, Payment, Begun
<1>3. call[k].pc \in Begun =>
           /\ w.pc \in Begun /\ SameCall(w, call[k]) /\ (call[k].signed => w.signed)
  BY DEF Posts, Begun
<1>4. w.usdc = call[k].usdc /\ w.slot = r /\ r \in Req /\ req'[r].pc = "precheck"
      /\ \A s \in Req : s # r => req'[s] = req[s]
  BY DEF Posts, SameCall
<1>5. Moves(k, w) /\ \A j \in Nonce : call[j].slot # r
  BY DEF Posts
<1>6. QED
  BY <1>1, <1>2, <1>3, <1>4, <1>5, MoveAsked

\* An attempt that comes to nothing, at the call, the limiter or the network.
LEMMA FailIs ==
  ASSUME CallInv, NEW k \in Nonce, AttemptFails(k) \/ Limited(k)
  PROVE  /\ UNCHANGED <<vars, reverted, netMay>> /\ \E w : Retries(k, w)
         /\ \/ call[k].pc = "post" /\ "unreached" \in netMay
            \/ call[k].pc = "sent" /\ "timeout" \in netMay
<1>1. CASE AttemptFails(k)
  BY <1>1, AgainIs DEF AttemptFails, Doing
<1>2. CASE Limited(k)
  <2>1. PICK s \in {429, 503} : Handle(k, s, "error")
    BY <1>2 DEF Limited, registerRateLimit
  <2>2. Again(k)
    BY <2>1 DEF Handle
  <2>3. QED
    BY <1>2, <2>2, AgainIs DEF Limited, Doing
<1>3. QED
  BY <1>1, <1>2

LEMMA FailAsked ==
  ASSUME CallInv, NEW k \in Nonce, NEW w, Retries(k, w), call[k].pc \in {"post", "sent"},
         UNCHANGED <<vars, reverted, netMay>>
  PROVE  CallInv'
<1>1. RecordInv' /\ UNCHANGED <<records, attempts, paid, may, req>>
  BY RecordStep DEF CallInv, vars
<1>2. Formed(w)
  BY DEF Retries, SameCall, CallInv, Formed
<1>3. (\A r \in Req : r # w.slot) /\ w.slot = NoReq /\ w.usdc = call[k].usdc
  BY SdkAssumption DEF Retries, SameCall
<1>4. w.pc \in Begun /\ SameCall(w, call[k]) /\ (call[k].signed => w.signed) /\ Moves(k, w)
  BY DEF Retries, Begun
<1>5. QED
  BY <1>1, <1>2, <1>3, <1>4, MoveAsked

\* The answer that a request has left in its slot.
Receives(k, w, r, a) ==
  /\ Reacts(k, w, a) /\ call[k].pc = "sent" /\ call[k].slot = r /\ r \in Req
  /\ At(r, "idle") /\ a = req[r].answer /\ req'[r].pc = "idle"
  /\ \A s \in Req : s # r => req'[s] = req[s]

LEMMA ReceiveIs ==
  ASSUME CallInv, NEW k \in Nonce, Receive(k)
  PROVE  (\E w, r, a : Receives(k, w, r, a)) /\ RecordInv'
         /\ UNCHANGED <<records, attempts, paid, jobs, may, reverted, netMay>>
<1> DEFINE r == call[k].slot
           a == req[r].answer
<1>1. call[k].pc = "sent" /\ At(r, "idle")
  BY DEF Receive, Doing
<1>2. r \in Req /\ a \in Answer \ {"none"} /\ req \in [Req -> Request]
  BY <1>1 DEF CallInv, Formed, CallsTyped, Call, Answered, RecordInv, TypeOK, Request
<1>3. PICK status \in Statuses(k, a) : Handle(k, status, a)
  BY DEF Receive
<1>4. PICK w : Reacts(k, w, a)
  BY <1>2, <1>3, HandleIs
<1>5. /\ req' = [req EXCEPT ![r] = Blank]
      /\ UNCHANGED <<records, attempts, paid, jobs, may, reverted, netMay>>
  BY DEF Receive
<1>6. Blank \in Request /\ Blank.pc = "idle"
  BY DEF Blank, Request, PC, Answer
<1>7. RecordInv'
  BY <1>1, <1>2, <1>5, <1>6, Outside DEF CallInv, At, Owning
<1>8. req'[r].pc = "idle" /\ \A s \in Req : s # r => req'[s] = req[s]
  BY <1>2, <1>5, <1>6
<1>9. Receives(k, w, r, a)
  BY <1>1, <1>2, <1>4, <1>8 DEF Receives
<1>10. QED
  BY <1>5, <1>7, <1>9

LEMMA ReceiveAsked ==
  ASSUME CallInv, NEW k \in Nonce, NEW w, NEW r, NEW a, Receives(k, w, r, a), RecordInv',
         UNCHANGED <<records, attempts, paid, jobs, may, reverted, netMay>>
  PROVE  CallInv'
<1>1. Formed(w)
  BY DEF Receives, Reacts, SameCall, CallInv, Formed
<1>2. w.pc \in Begun /\ SameCall(w, call[k]) /\ (call[k].signed => w.signed) /\ Moves(k, w)
  BY DEF Receives, Reacts, Begun
<1>3. w.slot = NoReq /\ w.usdc = call[k].usdc /\ \A s \in Req : s # NoReq
  BY SdkAssumption DEF Receives, Reacts, SameCall
<1>4. r \in Req /\ req'[r].pc = "idle" /\ \A s \in Req : s # r => req'[s] = req[s]
  BY DEF Receives
<1>5. \A j \in Nonce : j # k => call[j].slot # r
  BY SdkAssumption DEF Receives, CallInv, SlotsDiffer
<1>6. QED
  BY <1>1, <1>2, <1>3, <1>4, <1>5, MoveAsked

Signs(k, w) ==
  /\ Moves(k, w) /\ SameCall(w, call[k]) /\ w.slot = NoReq /\ call[k].pc = "sign"
  /\ w.try = call[k].try /\ (call[k].signed => w.signed)
  /\ \/ w.pc = "post" /\ w.out = "none"
     \/ w.pc = "done" /\ w.out = "failed"

LEMMA SignIs ==
  ASSUME CallInv, NEW k \in Nonce, signX402Payment(k)
  PROVE  UNCHANGED <<vars, reverted, netMay>> /\ \E w : Signs(k, w)
<1>1. call \in [Nonce -> Call] /\ call[k] \in Call /\ call[k].pc = "sign"
      /\ call[k].slot = NoReq /\ call[k].out = "none"
  BY DEF CallInv, CallsTyped, signX402Payment, Doing, Formed
<1> SUFFICES \E w : Signs(k, w)
  BY DEF signX402Payment
<1>2. CASE call' = [call EXCEPT ![k] = [@ EXCEPT !.pc = "post", !.signed = TRUE]]
  <2> DEFINE w == [call[k] EXCEPT !.pc = "post", !.signed = TRUE]
  <2>1. call' = [call EXCEPT ![k] = w]
    BY <1>1, <1>2
  <2>2. /\ w \in Call /\ SameCall(w, call[k]) /\ w.slot = NoReq /\ w.try = call[k].try
        /\ w.signed = TRUE /\ w.pc = "post" /\ w.out = "none"
    BY <1>1 DEF Call, SameCall
  <2> HIDE DEF w
  <2>3. QED
    BY <1>1, <2>1, <2>2, MovesIs DEF Signs
<1>3. CASE Finish(k, "failed")
  BY <1>1, <1>3, FinishIs DEF Signs, Outcome
<1>4. QED
  BY <1>2, <1>3 DEF signX402Payment

LEMMA SignAsked ==
  ASSUME CallInv, NEW k \in Nonce, NEW w, Signs(k, w), UNCHANGED <<vars, reverted, netMay>>
  PROVE  CallInv'
<1>1. RecordInv' /\ UNCHANGED <<records, attempts, paid, may, req>>
  BY RecordStep DEF CallInv, vars
<1>2. Formed(w)
  BY DEF Signs, SameCall, CallInv, Formed
<1>3. (\A r \in Req : r # w.slot) /\ w.slot = NoReq /\ w.usdc = call[k].usdc
  BY SdkAssumption DEF Signs, SameCall
<1>4. w.pc \in Begun /\ SameCall(w, call[k]) /\ (call[k].signed => w.signed) /\ Moves(k, w)
  BY DEF Signs, Begun
<1>5. QED
  BY <1>1, <1>2, <1>3, <1>4, MoveAsked

LEMMA ServeStep ==
  ASSUME CallInv, NEW r \in Req, Serve(r)
  PROVE  RecordInv' /\ UNCHANGED <<call, reverted, netMay>> /\ \E v : Served(r, v)
<1>1. RequestStep(r) /\ UNCHANGED <<call, reverted, netMay>>
  BY DEF Serve
<1>2. Next
  BY <1>1 DEF Next
<1>3. QED
  BY <1>1, <1>2, RecordStep, ServeIs DEF CallInv

LEMMA SettleStep ==
  ASSUME CallInv, NEW p \in Fee, Settle(p)
  PROVE  RecordInv'
BY RecordStep, ConfirmedInv DEF Settle, CallInv

LEMMA CallStepAsked == CallInv /\ [SdkNext]_sdkVars => CallInv'
<1> SUFFICES ASSUME CallInv, [SdkNext]_sdkVars PROVE CallInv'
  OBVIOUS
<1>1. ASSUME NEW k \in Nonce, CallStep(k) PROVE CallInv'
  <2>1. CASE SendFee(k)
    BY <2>1, SendFeeOpens, OpenAsked DEF SendFee
  <2>2. CASE AwaitFee(k)
    BY <2>2, AwaitFeeOpens, OpenAsked DEF AwaitFee
  <2>3. CASE PostRecord(k)
    BY <2>3, PostIs, PostAsked
  <2>4. CASE AttemptFails(k) \/ Limited(k)
    BY <2>4, FailIs, FailAsked
  <2>5. CASE Receive(k)
    BY <2>5, ReceiveIs, ReceiveAsked
  <2>6. CASE signX402Payment(k)
    BY <2>6, SignIs, SignAsked
  <2>7. QED
    BY <1>1, <2>1, <2>2, <2>3, <2>4, <2>5, <2>6 DEF CallStep
<1>2. ASSUME NEW k \in Nonce, NEW m \in Mode, NEW c \in Content,
             NEW f \in Fee \cup {NoPay}, record(k, m, c, f)
      PROVE  CallInv'
  BY <1>2, RecordOpens, OpenAsked DEF record
<1>3. ASSUME NEW r \in Req, Serve(r) PROVE CallInv'
  BY <1>3, ServeStep, ServeAsked
<1>4. ASSUME NEW p \in Fee, Settle(p) PROVE CallInv'
  BY <1>4, SettleStep, SettleAsked
<1>5. CASE UNCHANGED sdkVars
  <2>1. RecordInv'
    BY <1>5, RecordStep DEF sdkVars, vars, CallInv
  <2>2. QED
    BY <1>5, <2>1 DEF sdkVars, CallInv, CallsTyped, SlotsDiffer, UsdcDiffer, Formed,
       Answered, AskedReq, AskedPay, AskedRow, Asked, Undone, InFlight, At, Duplicates,
       RecordOf, UsesNonce
<1>6. QED
  BY <1>1, <1>2, <1>3, <1>4, <1>5 DEF SdkNext
-----------------------------------------------------------------------------
(***************************************************************************)
(* The calls of the SDK: what they are told.                               *)
(***************************************************************************)
AnswerTrue(k, a) ==
  /\ a \in {"created", "cached"} => OwnRecord(k) # {}
  /\ a = "cached" => call[k].signed /\ call[k].try # 0
  /\ a = "duplicate" => RecordOf(call[k].content) # {}

\* The request a call waits for is its own, and what it has left is true.
SlotTrue(k) ==
  call[k].pc = "sent" =>
    /\ InFlight(call[k].slot) => req[call[k].slot].nonce = k
    /\ At(call[k].slot, "idle") => AnswerTrue(k, req[call[k].slot].answer)

\* Until a call resends, its one request is the one it waits for.
FirstTry(k) ==
  call[k].try = 0 =>
    /\ \A r \in Req : InFlight(r) /\ req[r].nonce = k /\ req[r].pay # NoPay =>
         \/ call[k].pc = "sent" /\ call[k].slot = r
         \/ call[k].out = "failed"
    /\ OwnRecord(k) # {} => \/ call[k].pc = "sent" /\ Past(req[call[k].slot])
                            \/ call[k].out \in {"receipt", "failed"}

OutTrue(k) ==
  /\ call[k].out \in {"receipt", "cached"} => OwnRecord(k) # {}
  /\ call[k].out = "cached" => call[k].signed /\ call[k].try # 0
  /\ call[k].out = "duplicate" => RecordOf(call[k].content) # {}

ToldInv == \A k \in Nonce : SlotTrue(k) /\ FirstTry(k) /\ OutTrue(k)

LEMMA ToldInit == SdkInit => ToldInv
<1> SUFFICES ASSUME SdkInit, NEW k \in Nonce PROVE SlotTrue(k) /\ FirstTry(k) /\ OutTrue(k)
  BY DEF ToldInv
<1>1. call[k].pc = "idle" /\ call[k].out = "none"
  BY DEF SdkInit
<1>2. records = {} /\ \A r \in Req : req[r].pc = "idle"
  BY DEF SdkInit, Init, Blank
<1>3. QED
  BY <1>1, <1>2 DEF SlotTrue, FirstTry, OutTrue, InFlight, At, OwnRecord

\* A payment through the facilitator is of one call, which has signed it.
LEMMA UsdcIs ==
  ASSUME CallInv, NEW n, NEW c, NEW p \in Usdc, NEW b, Asked(n, c, p, b)
  PROVE  n \in Nonce /\ call[n].signed /\ p = call[n].usdc /\ p # NoPay
<1>1. n \in Nonce /\ call[n].fee \in Fee \cup {NoPay}
  BY DEF Asked, CallInv, CallsTyped, Call
<1>2. p \notin Fee /\ p # NoPay
  BY RecordsAssumption DEF Pay
<1>3. QED
  BY <1>1, <1>2 DEF Asked

\* Two records of one nonce would be of one content, and of one payment.
LEMMA DuplicateIs ==
  ASSUME CallInv, NEW r \in Req, InFlight(r), Duplicates(req[r])
  PROVE  RecordOf(call[req[r].nonce].content) # {}
<1>1. req[r].content = call[req[r].nonce].content
  BY DEF CallInv, AskedReq, Asked
<1>2. \A e \in records : e.nonce = req[r].nonce => e.content = call[req[r].nonce].content
  BY DEF CallInv, AskedRow, Asked
<1>3. QED
  BY <1>1, <1>2 DEF Duplicates, RecordOf, UsesNonce

LEMMA CachedIs ==
  ASSUME CallInv, NEW r \in Req, InFlight(r), req[r].pay \in Usdc,
         \E e \in RecordOf(req[r].content) : e.pay = req[r].pay
  PROVE  call[req[r].nonce].signed /\ OwnRecord(req[r].nonce) # {}
<1>1. PICK e \in records : e.pay = req[r].pay
  BY DEF RecordOf
<1>2. /\ call[req[r].nonce].signed /\ req[r].pay = call[req[r].nonce].usdc
      /\ req[r].nonce \in Nonce /\ req[r].pay # NoPay
  BY UsdcIs DEF CallInv, AskedReq
<1>3. e.nonce \in Nonce /\ e.pay = call[e.nonce].usdc
  BY <1>1, UsdcIs DEF CallInv, AskedRow
<1>4. e.nonce = req[r].nonce
  BY <1>1, <1>2, <1>3 DEF CallInv, UsdcDiffer
<1>5. QED
  BY <1>2, <1>4 DEF OwnRecord

LEMMA ServeTold ==
  ASSUME CallInv, ToldInv, NEW r \in Req, NEW v, Served(r, v),
         UNCHANGED <<call, reverted, netMay>>
  PROVE  ToldInv'
<1> SUFFICES ASSUME NEW k \in Nonce PROVE SlotTrue(k)' /\ FirstTry(k)' /\ OutTrue(k)'
  BY DEF ToldInv
<1>1. /\ req'[r] = v /\ req \in [Req -> Request] /\ req[r].pc # "idle"
      /\ \A s \in Req : s # r => req'[s] = req[s]
  BY DEF Served, CallInv, RecordInv, TypeOK, InFlight, At
<1>2. records \subseteq records'
  BY DEF Served, Wrote
<1>3. /\ OwnRecord(k) # {} => OwnRecord(k)' # {}
      /\ RecordOf(call[k].content) # {} => RecordOf(call[k].content)' # {}
  BY <1>2 DEF OwnRecord, RecordOf
<1>4. SlotTrue(k) /\ FirstTry(k) /\ OutTrue(k)
  BY DEF ToldInv
<1>5. call[k].pc = "sent" => call[k].slot \in Req /\ call[k].out = "none"
  BY DEF CallInv, Formed, CallsTyped, Call
<1>6. v.pc # "idle" => v.nonce = req[r].nonce /\ v.pay = req[r].pay
  BY DEF Served, Same
<1>7. OutTrue(k)'
  BY <1>3, <1>4 DEF OutTrue
<1>8. ASSUME call[k].pc = "sent", call[k].slot = r, v.pc = "idle"
      PROVE  AnswerTrue(k, v.answer)
  <2>1. req[r].nonce = k /\ InFlight(r)
    BY <1>1, <1>4, <1>8 DEF SlotTrue, InFlight, At
  <2>2. CASE v.answer = "created"
    <3>1. req[r].pc = "link"
      BY <1>8, <2>2 DEF Served, Told
    <3>2. [content |-> req[r].content, nonce |-> req[r].nonce, pay |-> req[r].pay]
            \in records
      BY <3>1 DEF CallInv, RecordInv, GoodReq
    <3>3. QED
      BY <2>1, <2>2, <3>2 DEF AnswerTrue, OwnRecord
  <2>3. CASE v.answer = "cached"
    <3>1. req[r].pc = "precheck" /\ call[k].signed /\ OwnRecord(k) # {}
      BY <1>8, <2>1, <2>3, CachedIs DEF Served, Told
    <3>2. call[k].try # 0
      BY <1>4, <1>5, <1>8, <3>1 DEF FirstTry, Past
    <3>3. QED
      BY <2>3, <3>1, <3>2 DEF AnswerTrue
  <2>4. CASE v.answer = "duplicate"
    BY <1>8, <2>1, <2>4, DuplicateIs DEF Served, Told, AnswerTrue
  <2>5. QED
    BY <2>2, <2>3, <2>4 DEF AnswerTrue
<1>9. SlotTrue(k)'
  <2>1. CASE call[k].pc = "sent" /\ call[k].slot = r
    <3>1. CASE v.pc = "idle"
      BY <1>1, <1>3, <1>8, <2>1, <3>1 DEF SlotTrue, AnswerTrue, InFlight, At
    <3>2. CASE v.pc # "idle"
      BY <1>1, <1>4, <1>6, <2>1, <3>2 DEF SlotTrue, InFlight, At
    <3>3. QED
      BY <3>1, <3>2
  <2>2. CASE call[k].pc = "sent" /\ call[k].slot # r
    <3>1. req'[call[k].slot] = req[call[k].slot]
      BY <1>1, <1>5, <2>2
    <3>2. QED
      BY <1>3, <1>4, <2>2, <3>1 DEF SlotTrue, AnswerTrue, InFlight, At
  <2>3. QED
    BY <2>1, <2>2 DEF SlotTrue
<1>10. FirstTry(k)'
  <2> SUFFICES ASSUME call[k].try = 0 PROVE FirstTry(k)'
    BY DEF FirstTry
  <2>1. ASSUME NEW s \in Req, InFlight(s)', req'[s].nonce = k, req'[s].pay # NoPay
        PROVE  \/ call[k].pc = "sent" /\ call[k].slot = s
               \/ call[k].out = "failed"
    <3>1. InFlight(s) /\ req[s].nonce = k /\ req[s].pay # NoPay
      BY <1>1, <1>6, <2>1 DEF InFlight, At
    <3>2. QED
      BY <1>4, <3>1 DEF FirstTry
  <2>2. ASSUME OwnRecord(k) # {}
        PROVE  \/ call[k].pc = "sent" /\ Past(req'[call[k].slot])
               \/ call[k].out \in {"receipt", "failed"}
    <3>1. CASE call[k].pc = "sent" /\ call[k].slot = r /\ Past(req[r])
      BY <1>1, <3>1 DEF Served, Told
    <3>2. CASE call[k].pc = "sent" /\ call[k].slot # r /\ Past(req[call[k].slot])
      BY <1>1, <1>5, <3>2
    <3>3. QED
      BY <1>4, <2>2, <3>1, <3>2 DEF FirstTry
  <2>3. ASSUME OwnRecord(k) = {}, OwnRecord(k)' # {}
        PROVE  \/ call[k].pc = "sent" /\ Past(req'[call[k].slot])
               \/ call[k].out \in {"receipt", "failed"}
    <3>1. req[r].pc = "insert" /\ Past(v) /\ req[r].nonce = k
      BY <2>3 DEF Served, Wrote, OwnRecord
    <3>2. req[r].pay # NoPay
      BY <3>1, RecordsAssumption DEF CallInv, RecordInv, GoodReq, Owning
    <3>3. \/ call[k].pc = "sent" /\ call[k].slot = r
          \/ call[k].out = "failed"
      BY <1>1, <1>4, <3>1, <3>2 DEF FirstTry, InFlight, At
    <3>4. QED
      BY <1>1, <3>1, <3>3
  <2>4. QED
    BY <2>1, <2>2, <2>3 DEF FirstTry, Past
<1>11. QED
  BY <1>7, <1>9, <1>10

\* The other calls, when one moves.
LEMMA MoveTold ==
  ASSUME CallInv, ToldInv, NEW k \in Nonce, NEW w, Moves(k, w), UNCHANGED records,
         \A r \in Req :
           \/ req'[r] = req[r]
           \/ /\ \A j \in Nonce : j # k => call[j].slot # r
              /\ req'[r].pc = "idle" \/ req'[r].nonce = k,
         SlotTrue(k)', FirstTry(k)', OutTrue(k)'
  PROVE  ToldInv'
<1> SUFFICES ASSUME NEW j \in Nonce, j # k PROVE SlotTrue(j)' /\ FirstTry(j)' /\ OutTrue(j)'
  BY DEF ToldInv
<1>1. call'[j] = call[j] /\ SlotTrue(j) /\ FirstTry(j) /\ OutTrue(j)
  BY DEF Moves, ToldInv
<1>2. call[j].pc = "sent" => call[j].slot \in Req
  BY DEF CallInv, Formed, CallsTyped, Call
<1>3. call[j].pc = "sent" => req'[call[j].slot] = req[call[j].slot]
  BY <1>2
<1>4. OwnRecord(j)' = OwnRecord(j) /\ RecordOf(call[j].content)' = RecordOf(call[j].content)
  BY <1>1 DEF OwnRecord, RecordOf
<1>5. SlotTrue(j)'
  BY <1>1, <1>3, <1>4 DEF SlotTrue, AnswerTrue, InFlight, At
<1>6. \A r \in Req : InFlight(r)' /\ req'[r].nonce = j => req'[r] = req[r]
  BY DEF InFlight, At
<1>7. FirstTry(j)'
  BY <1>1, <1>3, <1>4, <1>6 DEF FirstTry, InFlight, At, Past
<1>8. OutTrue(j)'
  BY <1>1, <1>4 DEF OutTrue
<1>9. QED
  BY <1>5, <1>7, <1>8

LEMMA OpenTold ==
  ASSUME CallInv, ToldInv, NEW k \in Nonce, NEW w, Opens(k, w),
         UNCHANGED <<vars, reverted, netMay>>
  PROVE  ToldInv'
<1>1. UNCHANGED <<records, req>> /\ Moves(k, w) /\ call'[k] = w
  BY DEF vars, Opens, Moves
<1>2. OwnRecord(k)' = {}
  BY <1>1 DEF Opens, CallInv, AskedRow, Asked, OwnRecord
<1>3. \A r \in Req : InFlight(r) => req[r].nonce # k
  BY DEF Opens, CallInv, AskedReq, Asked
<1>4. w.pc # "sent" /\ w.out \in {"none", "failed"}
  BY DEF Opens, Formed
<1>5. SlotTrue(k)' /\ OutTrue(k)'
  BY <1>1, <1>4 DEF SlotTrue, OutTrue
<1>6. FirstTry(k)'
  BY <1>1, <1>2, <1>3 DEF FirstTry, InFlight, At
<1>7. QED
  BY <1>1, <1>5, <1>6, MoveTold

LEMMA PostTold ==
  ASSUME CallInv, ToldInv, NEW k \in Nonce, NEW w, NEW r, Posts(k, w, r),
         UNCHANGED records
  PROVE  ToldInv'
<1>1. /\ call'[k] = w /\ w.pc = "sent" /\ w.slot = r /\ w.try = call[k].try
      /\ call[k].pc = "post" /\ r \in Req /\ Moves(k, w)
      /\ req'[r].nonce = k /\ req'[r].pc = "precheck"
      /\ \A s \in Req : s # r => req'[s] = req[s]
      /\ \A j \in Nonce : call[j].slot # r
  BY DEF Posts, Moves
<1>2. call[k].out = "none" /\ w.out = "none"
  BY DEF Posts, CallInv, Formed
<1>3. FirstTry(k)
  BY DEF ToldInv
<1>4. OwnRecord(k)' = OwnRecord(k)
  BY DEF OwnRecord
<1>5. SlotTrue(k)' /\ OutTrue(k)'
  BY <1>1, <1>2 DEF SlotTrue, OutTrue, InFlight, At
<1>6. FirstTry(k)'
  BY <1>1, <1>2, <1>3, <1>4 DEF FirstTry, InFlight, At
<1>7. QED
  BY <1>1, <1>5, <1>6, MoveTold

LEMMA FailTold ==
  ASSUME CallInv, ToldInv, NEW k \in Nonce, NEW w, Retries(k, w),
         call[k].pc \in {"post", "sent"}, UNCHANGED <<vars, reverted, netMay>>
  PROVE  ToldInv'
<1>1. UNCHANGED <<records, req>> /\ Moves(k, w) /\ call'[k] = w /\ w.pc # "sent"
  BY DEF vars, Retries, Moves
<1>2. call[k].out = "none" /\ call[k].try \in Nat
  BY SdkAssumption DEF CallInv, Formed, CallsTyped, Call
<1>3. w.out = "failed" \/ (w.out = "none" /\ w.try # 0)
  BY <1>2 DEF Retries
<1>4. SlotTrue(k)' /\ OutTrue(k)' /\ FirstTry(k)'
  BY <1>1, <1>3 DEF SlotTrue, OutTrue, FirstTry
<1>5. QED
  BY <1>1, <1>4, MoveTold

LEMMA ReceiveTold ==
  ASSUME CallInv, ToldInv, NEW k \in Nonce, NEW w, NEW r, NEW a, Receives(k, w, r, a),
         UNCHANGED <<records, attempts, paid, jobs, may, reverted, netMay>>
  PROVE  ToldInv'
<1>1. /\ call'[k] = w /\ w.pc # "sent" /\ r \in Req /\ Moves(k, w)
      /\ SameCall(w, call[k]) /\ w.signed = call[k].signed
      /\ call[k].pc = "sent" /\ call[k].slot = r /\ req[r].pc = "idle" /\ req[r].answer = a
      /\ req'[r].pc = "idle" /\ \A s \in Req : s # r => req'[s] = req[s]
  BY DEF Receives, Reacts, Moves, At
<1>2. call[k].out = "none" /\ call[k].try \in Nat
  BY <1>1, SdkAssumption DEF CallInv, Formed, CallsTyped, Call
<1>3. AnswerTrue(k, a) /\ FirstTry(k)
  BY <1>1 DEF ToldInv, SlotTrue, At
<1>4. OwnRecord(k)' = OwnRecord(k) /\ RecordOf(w.content)' = RecordOf(call[k].content)
  BY <1>1 DEF OwnRecord, RecordOf, SameCall
<1>5. \/ w.out = "none" /\ w.try # 0
      \/ w.out = "none" /\ w.mode = "x402" /\ ~w.signed
      \/ /\ w.try = call[k].try
         /\ \/ w.out = "failed"
            \/ w.out = a /\ a \in {"cached", "refused", "duplicate", "reused"}
            \/ w.out = "receipt" /\ a = "created"
  BY <1>2 DEF Receives, Reacts
<1>6. SlotTrue(k)'
  BY <1>1 DEF SlotTrue
<1>7. OutTrue(k)'
  BY <1>1, <1>3, <1>4, <1>5 DEF OutTrue, AnswerTrue
<1>8. ASSUME w.try = 0 PROVE FirstTry(k)'
  <2>1. ASSUME w.mode = "x402", ~w.signed, w.out = "none"
        PROVE  /\ \A s \in Req : InFlight(s) /\ req[s].nonce = k => req[s].pay = NoPay
               /\ OwnRecord(k) = {}
    <3>1. call[k].fee = NoPay /\ ~call[k].signed
      BY <1>1, <2>1 DEF CallInv, Formed, SameCall
    <3>2. \A e \in records : e.nonce = k => e.pay = NoPay
      BY <3>1 DEF CallInv, AskedRow, Asked
    <3>3. \A e \in records : e.pay # NoPay
      BY RecordsAssumption DEF CallInv, RecordInv, TypeOK, Record
    <3>4. QED
      BY <3>1, <3>2, <3>3 DEF CallInv, AskedReq, Asked, OwnRecord
  <2>2. CASE w.out = "none"
    BY <1>1, <1>4, <1>5, <1>8, <2>1, <2>2 DEF FirstTry, InFlight, At
  <2>3. CASE w.try = call[k].try /\ w.out # "none"
    <3>1. \A s \in Req : InFlight(s)' /\ req'[s].nonce = k => req'[s].pay = NoPay
      <4>1. \A s \in Req : InFlight(s)' => s # r /\ req'[s] = req[s]
        BY <1>1 DEF InFlight, At
      <4>2. QED
        BY <1>1, <1>2, <1>3, <1>8, <2>3, <4>1 DEF FirstTry, InFlight, At
    <3>2. OwnRecord(k) # {} => a \in {"created", "error"}
      BY <1>1, <1>2, <1>3, <1>8, <2>3 DEF FirstTry, Past
    <3>3. QED
      BY <1>1, <1>4, <1>5, <2>3, <3>1, <3>2 DEF FirstTry
  <2>4. QED
    BY <1>2, <1>5, <2>2, <2>3
<1>9. FirstTry(k)'
  BY <1>1, <1>8 DEF FirstTry
<1>10. \A s \in Req :
         \/ req'[s] = req[s]
         \/ (\A j \in Nonce : j # k => call[j].slot # s) /\ req'[s].pc = "idle"
  BY <1>1, SdkAssumption DEF CallInv, SlotsDiffer
<1>11. QED
  BY <1>1, <1>6, <1>7, <1>9, <1>10, MoveTold

LEMMA SignTold ==
  ASSUME CallInv, ToldInv, NEW k \in Nonce, NEW w, Signs(k, w),
         UNCHANGED <<vars, reverted, netMay>>
  PROVE  ToldInv'
<1>1. UNCHANGED <<records, req>> /\ Moves(k, w) /\ call'[k] = w /\ w.pc # "sent"
      /\ w.out \in {"none", "failed"} /\ w.try = call[k].try /\ call[k].pc = "sign"
  BY DEF vars, Signs, Moves
<1>2. call[k].out = "none" /\ FirstTry(k)
  BY <1>1 DEF CallInv, Formed, ToldInv
<1>3. OwnRecord(k)' = OwnRecord(k)
  BY <1>1 DEF OwnRecord
<1>4. SlotTrue(k)' /\ OutTrue(k)' /\ FirstTry(k)'
  BY <1>1, <1>2, <1>3 DEF SlotTrue, OutTrue, FirstTry, InFlight, At
<1>5. QED
  BY <1>1, <1>4, MoveTold

LEMMA CallStepTold == CallInv /\ ToldInv /\ [SdkNext]_sdkVars => ToldInv'
<1> SUFFICES ASSUME CallInv, ToldInv, [SdkNext]_sdkVars PROVE ToldInv'
  OBVIOUS
<1>1. ASSUME NEW k \in Nonce, CallStep(k) PROVE ToldInv'
  <2>1. CASE SendFee(k)
    BY <2>1, SendFeeOpens, OpenTold DEF SendFee
  <2>2. CASE AwaitFee(k)
    BY <2>2, AwaitFeeOpens, OpenTold DEF AwaitFee
  <2>3. CASE PostRecord(k)
    BY <2>3, PostIs, PostTold
  <2>4. CASE AttemptFails(k) \/ Limited(k)
    BY <2>4, FailIs, FailTold
  <2>5. CASE Receive(k)
    BY <2>5, ReceiveIs, ReceiveTold
  <2>6. CASE signX402Payment(k)
    BY <2>6, SignIs, SignTold
  <2>7. QED
    BY <1>1, <2>1, <2>2, <2>3, <2>4, <2>5, <2>6 DEF CallStep
<1>2. ASSUME NEW k \in Nonce, NEW m \in Mode, NEW c \in Content,
             NEW f \in Fee \cup {NoPay}, record(k, m, c, f)
      PROVE  ToldInv'
  BY <1>2, RecordOpens, OpenTold DEF record
<1>3. ASSUME NEW r \in Req, Serve(r) PROVE ToldInv'
  BY <1>3, ServeStep, ServeTold
<1>4. ASSUME UNCHANGED <<call, records, req>> PROVE ToldInv'
  BY <1>4 DEF ToldInv, SlotTrue, AnswerTrue, FirstTry, OutTrue, OwnRecord, RecordOf,
     InFlight, At, Past
<1>5. ASSUME NEW p \in Fee, Settle(p) PROVE ToldInv'
  BY <1>4, <1>5 DEF Settle, Confirmed, vars
<1>6. QED
  BY <1>1, <1>2, <1>3, <1>4, <1>5 DEF SdkNext, sdkVars
-----------------------------------------------------------------------------
(***************************************************************************)
(* The calls of the SDK: what their fees buy, while nothing but timeouts   *)
(* and reverts goes wrong.                                                 *)
(***************************************************************************)
Calm == /\ Without({"db", "lostReply", "rpc", "crash"})
        /\ netMay \subseteq {"timeout", "reverted"}

FeeKept(p) ==
  /\ attempts[p].status = "pending" => OwnedAt(p, {"verify", "settle", "undo"})
  /\ /\ attempts[p].status = "failed" \/ OwnedAt(p, {"undo"})
     /\ p \in paid /\ call[attempts[p].nonce].mode = "fee"
     => Recorded(p) \/ Conflict(p)

FeeSent(k) ==
  call[k].mode = "fee" /\ call[k].pc \in Begun => call[k].fee \in paid \cup reverted

FeeSafe(k) ==
  \/ Recorded(call[k].fee) \/ Held(call[k].fee)
  \/ RecordOf(call[k].content) # {}
  \/ \E j \in Nonce \ {k} : call[j].fee = call[k].fee

FeeBuys(k) ==
  /\ call[k].mode = "fee" /\ call[k].fee \in paid
  /\ call[k].pc \in {"sent", "done"} \/ call[k].try # 0
  => FeeSafe(k)

FeeInv ==
  Calm => /\ \A p \in Fee : FeeKept(p)
          /\ \A k \in Nonce : FeeSent(k) /\ FeeBuys(k)

LEMMA FeeInit == SdkInit => FeeInv
<1> SUFFICES ASSUME SdkInit PROVE FeeInv
  OBVIOUS
<1>1. \A k \in Nonce : call[k].mode = "none"
  BY DEF SdkInit
<1>2. /\ \A r \in Req : req[r].pc = "idle"
      /\ \A p \in Pay : attempts[p].status = "none"
  BY DEF SdkInit, Init, Blank, NoAttempt
<1>3. QED
  BY <1>1, <1>2 DEF FeeInv, FeeKept, FeeSent, FeeBuys, OwnedAt, Pay

\* What the server does with the fee of a request.
Fairly(r) ==
  LET p == req[r].pay IN
  /\ attempts[p].status # "none" => /\ attempts'[p].status # "none"
                                    /\ attempts'[p].content = attempts[p].content
                                    /\ attempts'[p].nonce = attempts[p].nonce
  /\ attempts'[p].status = "pending" =>
       \/ req'[r].pc \in {"verify", "settle", "undo"}
       \/ /\ attempts[p].status = "pending"
          /\ req[r].pc \notin {"verify", "settle", "undo"}
  /\ attempts'[p].status = "failed" => attempts[p].status = "failed" \/ req[r].pc = "undo"
  /\ req'[r].pc = "undo" =>
       \/ req[r].pc = "verify" /\ p \notin paid
       \/ req[r].pc = "insert" /\ (Duplicates(req[r]) \/ Recorded(p))
  /\ req'[r].pc = "idle" =>
       \/ Duplicates(req[r]) \/ Recorded(p) \/ req[r].pc = "undo" \/ req[r].batch
       \/ req[r].pc = "attempt" /\ attempts[p].status # "none"

LEMMA OthersKept ==
  ASSUME RecordInv, NEW r \in Req, RequestStep(r), NEW p \in Pay, p # req[r].pay
  PROVE  attempts'[p] = attempts[p]
<1>1. attempts \in [Pay -> Attempt]
  BY DEF RecordInv, TypeOK
<1>2. CASE UNCHANGED attempts
  BY <1>2
<1>3. CASE InsertAttempt(r)
  BY <1>1, <1>3 DEF InsertAttempt, Statement
<1>4. CASE MarkSettled(r) \/ MarkFailed(r) \/ linkRecord(r)
  BY <1>1, <1>4 DEF MarkSettled, MarkFailed, linkRecord, Statement, SetAttempt
<1>5. QED
  BY <1>2, <1>3, <1>4 DEF RequestStep, preCheck, checkDuplicates, verifyFee, SettlePayment,
     InsertRecord, EnqueueAnchorJob, Crash

LEMMA FairlyRead ==
  ASSUME RecordInv, Calm, NEW r \in Req, req[r].pay \in Fee,
         preCheck(r) \/ checkDuplicates(r) \/ verifyFee(r) \/ EnqueueAnchorJob(r)
  PROVE  Fairly(r)
<1>1. /\ "db" \notin may /\ "rpc" \notin may /\ req[r].pay # NoPay
      /\ req[r].pay \notin Usdc /\ req[r].pay \in Pay
  BY RecordsAssumption DEF Calm, Without, Pay
<1>2. req \in [Req -> Request] /\ req[r] \in Request
  BY DEF RecordInv, TypeOK
<1>3. CASE preCheck(r)
  <2>1. /\ UNCHANGED attempts /\ req[r].pc = "precheck"
        /\ (Reply(r, "duplicate") /\ Duplicates(req[r])) \/ Goto(r, "dups")
    BY <1>1, <1>3 DEF preCheck, At, Duplicates
  <2>2. (req'[r].pc = "idle" /\ Duplicates(req[r])) \/ req'[r].pc = "dups"
    BY <1>2, <2>1 DEF Reply, Goto, Blank, Request
  <2>3. QED
    BY <2>1, <2>2 DEF Fairly
<1>4. CASE checkDuplicates(r)
  <2>1. /\ UNCHANGED attempts /\ req[r].pc = "dups"
        /\ \/ /\ Duplicates(req[r]) \/ Recorded(req[r].pay)
              /\ Reply(r, "duplicate") \/ Reply(r, "reused")
           \/ Goto(r, "attempt")
    BY <1>1, <1>4 DEF checkDuplicates, At, Duplicates, UsesFee
  <2>2. \/ req'[r].pc = "idle" /\ (Duplicates(req[r]) \/ Recorded(req[r].pay))
        \/ req'[r].pc = "attempt"
    BY <1>2, <2>1 DEF Reply, Goto, Blank, Request
  <2>3. QED
    BY <2>1, <2>2 DEF Fairly
<1>5. CASE verifyFee(r)
  <2>1. /\ UNCHANGED attempts /\ req[r].pc = "verify"
        /\ \/ Goto(r, "settle")
           \/ req[r].pay \notin paid /\ Throws(r, "refused")
    BY <1>1, <1>5 DEF verifyFee, At
  <2>2. \/ req'[r].pc = "settle"
        \/ req'[r].pc = "undo" /\ req[r].pay \notin paid
    BY <1>2, <2>1 DEF Throws, Goto, Request
  <2>3. QED
    BY <2>1, <2>2 DEF Fairly
<1>6. CASE EnqueueAnchorJob(r)
  <2>1. UNCHANGED attempts /\ req[r].pc = "enqueue" /\ Goto(r, "link")
    BY <1>6 DEF EnqueueAnchorJob, At
  <2>2. req'[r].pc = "link"
    BY <1>2, <2>1 DEF Goto, Request
  <2>3. QED
    BY <2>1, <2>2 DEF Fairly
<1>7. QED
  BY <1>3, <1>4, <1>5, <1>6

LEMMA FairlyWritten ==
  ASSUME RecordInv, Calm, NEW r \in Req, req[r].pay \in Fee,
         InsertAttempt(r) \/ MarkSettled(r) \/ MarkFailed(r) \/ InsertRecord(r)
         \/ linkRecord(r)
  PROVE  Fairly(r)
<1> DEFINE p == req[r].pay
<1>1. "db" \notin may /\ "lostReply" \notin may /\ p \in Pay
  BY DEF Calm, Without, Pay
<1>2. /\ req \in [Req -> Request] /\ req[r] \in Request
      /\ attempts \in [Pay -> Attempt] /\ attempts[p] \in Attempt
  BY <1>1 DEF RecordInv, TypeOK
<1>3. CASE InsertAttempt(r)
  <2>1. /\ req[r].pc = "attempt"
        /\ \/ attempts[p].status # "none" /\ Reply(r, "error") /\ UNCHANGED attempts
           \/ /\ attempts[p].status = "none" /\ Goto(r, "verify")
              /\ attempts'[p].status = "pending"
    BY <1>1, <1>2, <1>3 DEF InsertAttempt, Statement, Throws, At
  <2>2. \/ /\ attempts[p].status # "none" /\ UNCHANGED attempts /\ req'[r].pc = "idle"
        \/ /\ attempts[p].status = "none" /\ req'[r].pc = "verify"
           /\ attempts'[p].status = "pending"
    BY <1>2, <2>1 DEF Reply, Goto, Blank, Request
  <2>3. QED
    BY <2>1, <2>2 DEF Fairly
<1>4. CASE MarkSettled(r)
  <2>1. req[r].pc = "settle" /\ SetAttempt(p, "settled") /\ Goto(r, "insert")
    BY <1>1, <1>4 DEF MarkSettled, Statement, At
  <2>2. /\ attempts'[p].status = "settled" /\ attempts'[p].content = attempts[p].content
        /\ attempts'[p].nonce = attempts[p].nonce /\ req'[r].pc = "insert"
    BY <1>1, <1>2, <2>1 DEF SetAttempt, Goto, Attempt, Request
  <2>3. QED
    BY <2>1, <2>2 DEF Fairly
<1>5. CASE MarkFailed(r)
  <2>1. req[r].pc = "undo" /\ SetAttempt(p, "failed") /\ Reply(r, req[r].answer)
    BY <1>1, <1>5 DEF MarkFailed, Statement, At
  <2>2. /\ attempts'[p].status = "failed" /\ attempts'[p].content = attempts[p].content
        /\ attempts'[p].nonce = attempts[p].nonce /\ req'[r].pc = "idle"
    BY <1>1, <1>2, <2>1 DEF SetAttempt, Reply, Blank, Attempt, Request
  <2>3. QED
    BY <2>1, <2>2 DEF Fairly
<1>6. CASE InsertRecord(r)
  <2>1. /\ req[r].pc = "insert" /\ UNCHANGED attempts
        /\ \/ /\ Duplicates(req[r]) \/ Recorded(p)
              /\ Throws(r, "error")
           \/ Goto(r, "enqueue")
    BY <1>1, <1>6 DEF InsertRecord, Statement, At, Duplicates, UsesFee
  <2>2. \/ /\ Duplicates(req[r]) \/ Recorded(p)
           /\ req'[r].pc = "undo" \/ (req'[r].pc = "idle" /\ req[r].batch)
        \/ req'[r].pc = "enqueue"
    <3>1. ASSUME Throws(r, "error")
          PROVE  req'[r].pc = "undo" \/ (req'[r].pc = "idle" /\ req[r].batch)
      BY <2>1, <3>1, ThrowsIs DEF Caught, Answer
    <3>2. CASE Goto(r, "enqueue")
      BY <1>2, <3>2 DEF Goto, Request
    <3>3. QED
      BY <2>1, <3>1, <3>2
  <2>3. QED
    BY <2>1, <2>2 DEF Fairly
<1>7. CASE linkRecord(r)
  <2>1. /\ req[r].pc = "link" /\ attempts' = [attempts EXCEPT ![p].linked = TRUE]
        /\ Reply(r, "created")
    BY <1>1, <1>7 DEF linkRecord, Statement, At
  <2>2. /\ attempts'[p].status = attempts[p].status
        /\ attempts'[p].content = attempts[p].content
        /\ attempts'[p].nonce = attempts[p].nonce /\ req'[r].pc = "idle"
    BY <1>1, <1>2, <2>1 DEF Reply, Blank, Attempt, Request
  <2>3. Recorded(p)
    BY <2>1 DEF RecordInv, GoodReq, Recorded
  <2>4. QED
    BY <2>1, <2>2, <2>3 DEF Fairly
<1>8. QED
  BY <1>3, <1>4, <1>5, <1>6, <1>7

LEMMA FairlyServed ==
  ASSUME RecordInv, Calm, NEW r \in Req, req[r].pay \in Fee, RequestStep(r)
  PROVE  Fairly(r)
<1>1. ~Crash(r)
  BY DEF Crash, Calm, Without
<1>2. ~SettlePayment(r)
  BY RecordsAssumption DEF SettlePayment
<1>3. QED
  BY <1>1, <1>2, FairlyRead, FairlyWritten DEF RequestStep

\* A record of the content or the nonce for which p was taken is one of the
\* content of its call.
LEMMA ConflictIs ==
  ASSUME CallInv, NEW p \in Pay, attempts[p].status # "none", Conflict(p)
  PROVE  RecordOf(call[attempts[p].nonce].content) # {}
<1>1. attempts[p].content = call[attempts[p].nonce].content
  BY DEF CallInv, AskedPay, Asked
<1>2. \A e \in records :
        e.nonce = attempts[p].nonce => e.content = call[attempts[p].nonce].content
  BY DEF CallInv, AskedRow, Asked
<1>3. QED
  BY <1>1, <1>2 DEF Conflict, RecordOf

LEMMA FeeIs ==
  ASSUME CallInv, NEW n, NEW c, NEW p \in Fee, NEW b, Asked(n, c, p, b)
  PROVE  n \in Nonce /\ call[n].fee = p
<1>1. n \in Nonce /\ call[n].usdc \in Usdc \cup {NoPay}
  BY DEF Asked, CallInv, CallsTyped, Call
<1>2. p \notin Usdc /\ p # NoPay
  BY RecordsAssumption DEF Pay
<1>3. QED
  BY <1>1, <1>2 DEF Asked

\* A request that ends leaves the fee of its call safe.
LEMMA EndSafe ==
  ASSUME CallInv, FeeInv, Calm, NEW r \in Req, RequestStep(r), InFlight(r),
         NEW k \in Nonce, call[k].mode = "fee", call[k].fee \in paid \cap Fee,
         req[r].pay = call[k].fee, req'[r].pc = "idle"
  PROVE  \/ Recorded(call[k].fee) \/ RecordOf(call[k].content) # {}
         \/ \E j \in Nonce \ {k} : call[j].fee = call[k].fee
         \/ \E s \in Req \ {r} : InFlight(s) /\ req[s].pay = call[k].fee
<1> DEFINE p == call[k].fee
<1>1. p \in Fee /\ p \in Pay /\ RecordInv /\ req[r].pay = p /\ p \in paid
  BY DEF CallInv, Pay
<1>2. Asked(req[r].nonce, req[r].content, p, req[r].batch)
  BY DEF CallInv, AskedReq
<1>3. call[req[r].nonce].fee = p /\ req[r].nonce \in Nonce
  BY <1>1, <1>2, FeeIs
<1>4. FeeKept(p)
  BY <1>1 DEF FeeInv
<1>5. CASE req[r].nonce # k
  BY <1>3, <1>5
<1>6. CASE req[r].nonce = k
  <2>1. ~req[r].batch
    BY <1>2, <1>6 DEF Asked
  <2>2. Fairly(r)
    BY <1>1, FairlyServed
  <2>3. CASE Duplicates(req[r])
    BY <1>6, <2>3, DuplicateIs
  <2>4. CASE req[r].pc = "undo"
    <3>1. attempts[p].status # "none" /\ attempts[p].nonce = k
      BY <1>1, <1>6, <2>4 DEF RecordInv, GoodReq, Owning
    <3>2. OwnedAt(p, {"undo"})
      BY <1>1, <2>4 DEF OwnedAt
    <3>3. Recorded(p) \/ Conflict(p)
      BY <1>1, <1>4, <3>1, <3>2 DEF FeeKept
    <3>4. QED
      BY <1>1, <3>1, <3>3, ConflictIs
  <2>5. CASE req[r].pc = "attempt" /\ attempts[p].status # "none"
    <3>1. Asked(attempts[p].nonce, attempts[p].content, p, attempts[p].batch)
      BY <1>1, <2>5 DEF CallInv, AskedPay
    <3>2. call[attempts[p].nonce].fee = p /\ attempts[p].nonce \in Nonce
      BY <1>1, <3>1, FeeIs
    <3>3. CASE attempts[p].nonce # k
      BY <3>2, <3>3
    <3>4. CASE attempts[p].nonce = k
      <4>1. ~attempts[p].batch
        BY <3>1, <3>4 DEF Asked
      <4>2. \A pcs : OwnedAt(p, pcs) /\ "attempt" \notin pcs /\ "idle" \notin pcs =>
              \E s \in Req \ {r} : InFlight(s) /\ req[s].pay = p
        BY <2>5 DEF OwnedAt, InFlight, At
      <4>3. CASE attempts[p].status = "pending"
        BY <1>4, <4>2, <4>3 DEF FeeKept
      <4>4. CASE attempts[p].status = "settled"
        <5>1. Recorded(p) \/ OwnedAt(p, Owning)
          BY <1>1, <4>1, <4>4 DEF RecordInv, GoodPay, Calm, Without
        <5>2. QED
          BY <4>2, <5>1 DEF Owning
      <4>5. CASE attempts[p].status = "failed"
        <5>1. Recorded(p) \/ Conflict(p)
          BY <1>1, <1>4, <3>4, <4>5 DEF FeeKept
        <5>2. QED
          BY <1>1, <2>5, <3>4, <5>1, ConflictIs
      <4>6. attempts[p].status \in Status
        BY <1>1 DEF RecordInv, TypeOK, Attempt
      <4>7. QED
        BY <2>5, <4>3, <4>4, <4>5, <4>6 DEF Status
    <3>5. QED
      BY <3>3, <3>4
  <2>6. QED
    BY <1>1, <2>1, <2>2, <2>3, <2>4, <2>5 DEF Fairly
<1>7. QED
  BY <1>5, <1>6

LEMMA ServeFeeKept ==
  ASSUME CallInv, FeeInv, Calm, NEW r \in Req, NEW v, Served(r, v), RequestStep(r),
         UNCHANGED call, NEW p \in Fee
  PROVE  FeeKept(p)'
<1>1. /\ req'[r] = v /\ RecordInv /\ p \in Pay /\ FeeKept(p)
      /\ \A s \in Req : s # r => req'[s] = req[s]
  BY DEF Served, CallInv, RecordInv, TypeOK, Pay, FeeInv
<1>2. p \in paid' => p \in paid
  BY RecordsAssumption DEF Served, Wrote
<1>3. records \subseteq records'
  BY DEF Served, Wrote
<1>4. v.pc # "idle" => v.pay = req[r].pay
  BY DEF Served, Same
<1>5. Recorded(p) => Recorded(p)'
  BY <1>3 DEF Recorded
<1>6. ASSUME attempts'[p].content = attempts[p].content, attempts'[p].nonce = attempts[p].nonce,
             Conflict(p)
      PROVE  Conflict(p)'
  BY <1>3, <1>6 DEF Conflict
<1>7. CASE p # req[r].pay
  <2>1. attempts'[p] = attempts[p]
    BY <1>1, <1>7, OthersKept
  <2>2. \A pcs : "idle" \notin pcs => (OwnedAt(p, pcs)' <=> OwnedAt(p, pcs))
    BY <1>1, <1>4, <1>7 DEF OwnedAt
  <2>3. QED
    BY <1>1, <1>2, <1>5, <1>6, <2>1, <2>2 DEF FeeKept
<1>8. CASE p = req[r].pay
  <2>1. Fairly(r)
    BY <1>1, <1>8, FairlyServed
  <2>2. ASSUME attempts'[p].status = "pending"
        PROVE  OwnedAt(p, {"verify", "settle", "undo"})'
    <3>1. CASE v.pc \in {"verify", "settle", "undo"}
      BY <1>1, <1>4, <1>8, <3>1 DEF OwnedAt
    <3>2. CASE attempts[p].status = "pending" /\ req[r].pc \notin {"verify", "settle", "undo"}
      BY <1>1, <3>2 DEF FeeKept, OwnedAt
    <3>3. QED
      BY <1>1, <1>8, <2>1, <2>2, <3>1, <3>2 DEF Fairly
  <2>3. ASSUME attempts'[p].status = "failed" \/ OwnedAt(p, {"undo"})',
               p \in paid', call[attempts'[p].nonce].mode = "fee"
        PROVE  Recorded(p)' \/ Conflict(p)'
    <3>1. CASE attempts[p].status = "failed" \/ OwnedAt(p, {"undo"})
      <4>1. attempts[p].status # "none"
        BY <1>1, <3>1 DEF OwnedAt, RecordInv, GoodReq, Owning
      <4>2. /\ attempts'[p].content = attempts[p].content
            /\ attempts'[p].nonce = attempts[p].nonce
        BY <1>8, <2>1, <4>1 DEF Fairly
      <4>3. Recorded(p) \/ Conflict(p)
        BY <1>1, <1>2, <2>3, <3>1, <4>2 DEF FeeKept
      <4>4. QED
        BY <1>5, <1>6, <4>2, <4>3
    <3>2. CASE /\ req[r].pc \in {"verify", "insert"} /\ v.pc = "undo"
      <4>1. Duplicates(req[r]) \/ Recorded(p)
        BY <1>1, <1>2, <1>8, <2>1, <2>3, <3>2 DEF Fairly
      <4>2. /\ attempts[p].status # "none" /\ attempts[p].content = req[r].content
            /\ attempts[p].nonce = req[r].nonce
        BY <1>1, <1>8, <3>2 DEF RecordInv, GoodReq, Owning
      <4>3. Duplicates(req[r]) => Conflict(p)
        BY <4>2 DEF Duplicates, RecordOf, UsesNonce, Conflict
      <4>4. /\ attempts'[p].content = attempts[p].content
            /\ attempts'[p].nonce = attempts[p].nonce
        BY <1>8, <2>1, <4>2 DEF Fairly
      <4>5. QED
        BY <1>5, <1>6, <4>1, <4>3, <4>4
    <3>3. OwnedAt(p, {"undo"})' => v.pc = "undo" \/ OwnedAt(p, {"undo"})
      BY <1>1 DEF OwnedAt
    <3>4. v.pc = "undo" => req[r].pc \in {"verify", "insert"}
      BY <1>1, <2>1 DEF Fairly
    <3>5. attempts'[p].status = "failed" =>
            attempts[p].status = "failed" \/ OwnedAt(p, {"undo"})
      BY <1>8, <2>1 DEF Fairly, OwnedAt
    <3>6. QED
      BY <2>3, <3>1, <3>2, <3>3, <3>4, <3>5
  <2>4. QED
    BY <2>2, <2>3 DEF FeeKept
<1>9. QED
  BY <1>7, <1>8

LEMMA ServeFee ==
  ASSUME CallInv, FeeInv, NEW r \in Req, NEW v, Served(r, v), RequestStep(r), CallInv',
         UNCHANGED <<call, reverted, netMay>>
  PROVE  FeeInv'
<1>1. /\ req'[r] = v /\ InFlight(r) /\ may' = may /\ paid \subseteq paid'
      /\ \A s \in Req : s # r => req'[s] = req[s]
      /\ paid' \subseteq paid \cup Usdc /\ records \subseteq records'
      /\ v.pc # "idle" => v.pay = req[r].pay
  BY DEF Served, Wrote, Same, CallInv, RecordInv, TypeOK
<1> SUFFICES ASSUME Calm PROVE /\ \A p \in Fee : FeeKept(p)'
                               /\ \A k \in Nonce : FeeSent(k)' /\ FeeBuys(k)'
  BY <1>1 DEF FeeInv, Calm, Without
<1>2. ASSUME NEW k \in Nonce PROVE FeeSent(k)'
  BY <1>1 DEF FeeInv, FeeSent
<1>3. ASSUME NEW k \in Nonce, call[k].mode = "fee", call[k].fee \in paid',
             call[k].pc \in {"sent", "done"} \/ call[k].try # 0
      PROVE  FeeSafe(k)'
  <2>1. call[k].fee \in Fee /\ call[k].fee \in paid
    <3>1. call[k].fee \in Fee \cup {NoPay}
      BY DEF CallInv, CallsTyped, Call
    <3>2. paid' \subseteq Pay
      BY DEF CallInv, RecordInv, TypeOK
    <3>3. QED
      BY <1>1, <1>3, <3>1, <3>2, RecordsAssumption
  <2>2. FeeSafe(k)
    BY <1>3, <2>1 DEF FeeInv, FeeBuys
  <2>3. /\ Recorded(call[k].fee) => Recorded(call[k].fee)'
        /\ RecordOf(call[k].content) # {} => RecordOf(call[k].content)' # {}
    BY <1>1 DEF Recorded, RecordOf
  <2>4. ASSUME NEW s \in Req, InFlight(s), req[s].pay = call[k].fee,
               s # r \/ v.pc # "idle"
        PROVE  Held(call[k].fee)'
    <3>1. InFlight(s)' /\ req'[s].pay = call[k].fee
      BY <1>1, <2>4 DEF InFlight, At
    <3>2. QED
      BY <3>1 DEF Held
  <2>5. CASE req[r].pay = call[k].fee /\ v.pc = "idle"
    <3>1. \/ Recorded(call[k].fee) \/ RecordOf(call[k].content) # {}
          \/ \E j \in Nonce \ {k} : call[j].fee = call[k].fee
          \/ \E s \in Req \ {r} : InFlight(s) /\ req[s].pay = call[k].fee
      BY <1>1, <1>3, <2>1, <2>5, EndSafe
    <3>2. QED
      BY <2>3, <2>4, <3>1 DEF FeeSafe
  <2>6. CASE ~(req[r].pay = call[k].fee /\ v.pc = "idle")
    <3>1. Held(call[k].fee) => Held(call[k].fee)'
      BY <2>4, <2>6 DEF Held
    <3>2. QED
      BY <2>2, <2>3, <3>1 DEF FeeSafe
  <2>7. QED
    BY <2>5, <2>6
<1>4. QED
  BY <1>2, <1>3, ServeFeeKept DEF FeeBuys

\* A fee that has been sent is confirmed, or reverts.
LEMMA SettleFee ==
  ASSUME CallInv, FeeInv, NEW p \in Fee, Settle(p)
  PROVE  FeeInv'
<1>1. /\ UNCHANGED <<records, attempts, req, may, call, netMay>>
      /\ \/ /\ paid' = paid \cup SameTransfer(p) /\ reverted' = reverted
            /\ SameTransfer(p) \cap reverted = {}
         \/ paid' = paid /\ reverted \subseteq reverted'
  BY DEF Settle, Confirmed, vars
<1> SUFFICES ASSUME Calm PROVE /\ \A q \in Fee : FeeKept(q)'
                               /\ \A k \in Nonce : FeeSent(k)' /\ FeeBuys(k)'
  BY <1>1 DEF FeeInv, Calm, Without
<1>2. /\ \A q \in Fee : FeeKept(q)
      /\ \A k \in Nonce : FeeSent(k) /\ FeeBuys(k)
  BY DEF FeeInv
<1>3. ASSUME NEW k \in Nonce, call[k].mode = "fee", call[k].pc \in Begun,
             call[k].fee \in paid'
      PROVE  call[k].fee \in paid
  BY <1>1, <1>2, <1>3 DEF FeeSent
<1>4. ASSUME NEW q \in Fee PROVE FeeKept(q)'
  <2>1. \A pcs : OwnedAt(q, pcs)' <=> OwnedAt(q, pcs)
    BY <1>1 DEF OwnedAt
  <2>2. ASSUME attempts[q].status = "failed" \/ OwnedAt(q, {"undo"}),
               q \in paid', call[attempts[q].nonce].mode = "fee"
        PROVE  q \in paid
    <3>1. attempts[q].status # "none" /\ q \in Pay
      BY <2>2 DEF OwnedAt, CallInv, RecordInv, GoodReq, Owning, Pay
    <3>2. Asked(attempts[q].nonce, attempts[q].content, q, attempts[q].batch)
      BY <3>1 DEF CallInv, AskedPay
    <3>3. attempts[q].nonce \in Nonce /\ call[attempts[q].nonce].fee = q
      BY <3>2, FeeIs
    <3>4. QED
      BY <1>3, <2>2, <3>2, <3>3 DEF Asked
  <2>3. Recorded(q)' = Recorded(q) /\ Conflict(q)' = Conflict(q)
    BY <1>1 DEF Recorded, Conflict
  <2>4. QED
    BY <1>1, <1>2, <2>1, <2>2, <2>3 DEF FeeKept
<1>5. ASSUME NEW k \in Nonce PROVE FeeSent(k)'
  BY <1>1, <1>2 DEF FeeSent
<1>6. ASSUME NEW k \in Nonce PROVE FeeBuys(k)'
  <2>1. call[k].pc \in {"sent", "done"} \/ call[k].try # 0 => call[k].pc \in Begun
    BY DEF CallInv, Formed, CallsTyped, Call, Begun
  <2>2. FeeSafe(k)' <=> FeeSafe(k)
    BY <1>1 DEF FeeSafe, Recorded, Held, RecordOf, InFlight, At
  <2>3. QED
    BY <1>1, <1>2, <1>3, <2>1, <2>2 DEF FeeBuys
<1>7. QED
  BY <1>4, <1>5, <1>6

\* A call moves, and perhaps the request that it makes or has waited for.
LEMMA MoveSafe ==
  ASSUME CallInv, NEW k \in Nonce, NEW w, Moves(k, w), UNCHANGED records,
         call[k].fee \in Pay => w.fee = call[k].fee,
         \A r \in Req : req'[r] = req[r] \/ At(r, "idle"),
         NEW j \in Nonce, j # k \/ SameCall(w, call[k]), call[j].fee \in Pay, FeeSafe(j)
  PROVE  FeeSafe(j)'
<1>1. call'[k] = w /\ \A i \in Nonce : i # k => call'[i] = call[i]
  BY DEF Moves
<1>2. call'[j].fee = call[j].fee /\ call'[j].content = call[j].content
  BY <1>1 DEF SameCall
<1>3. CASE Recorded(call[j].fee) \/ RecordOf(call[j].content) # {}
  BY <1>2, <1>3 DEF FeeSafe, Recorded, RecordOf
<1>4. CASE Held(call[j].fee)
  <2>1. PICK s \in Req : InFlight(s) /\ req[s].pay = call[j].fee
    BY <1>4 DEF Held
  <2>2. req'[s] = req[s]
    BY <2>1 DEF InFlight
  <2>3. Held(call[j].fee)'
    BY <1>2, <2>1, <2>2 DEF Held, InFlight, At
  <2>4. QED
    BY <2>3 DEF FeeSafe
<1>5. CASE \E i \in Nonce \ {j} : call[i].fee = call[j].fee
  <2>1. PICK i \in Nonce \ {j} : call[i].fee = call[j].fee
    BY <1>5
  <2>2. call'[i].fee = call'[j].fee
    BY <1>1, <1>2, <2>1
  <2>3. QED
    BY <2>2 DEF FeeSafe
<1>6. QED
  BY <1>3, <1>4, <1>5 DEF FeeSafe

LEMMA MoveFee ==
  ASSUME CallInv, FeeInv, NEW k \in Nonce, NEW w, Moves(k, w),
         UNCHANGED <<records, attempts, paid, may, reverted, netMay>>,
         call[k].fee \in Pay => w.fee = call[k].fee,
         call[k].pc \in Begun => w.mode = call[k].mode,
         \A r \in Req : \/ req'[r] = req[r]
                        \/ At(r, "idle") /\ req'[r].pc \in {"idle", "precheck"},
         Calm => FeeSent(k)' /\ FeeBuys(k)'
  PROVE  FeeInv'
<1> SUFFICES ASSUME Calm PROVE /\ \A p \in Fee : FeeKept(p)'
                               /\ \A j \in Nonce : FeeSent(j)' /\ FeeBuys(j)'
  BY DEF FeeInv, Calm, Without
<1>1. call'[k] = w /\ \A i \in Nonce : i # k => call'[i] = call[i]
  BY DEF Moves
<1>2. ASSUME NEW p \in Fee PROVE FeeKept(p)'
  <2>1. \A pcs : pcs \cap {"idle", "precheck"} = {} => (OwnedAt(p, pcs)' <=> OwnedAt(p, pcs))
    BY DEF OwnedAt, At
  <2>2. /\ OwnedAt(p, {"undo"})' <=> OwnedAt(p, {"undo"})
        /\ OwnedAt(p, {"verify", "settle", "undo"})'
             <=> OwnedAt(p, {"verify", "settle", "undo"})
    BY <2>1
  <2>3. ASSUME attempts[p].status = "failed" \/ OwnedAt(p, {"undo"})
        PROVE  call'[attempts[p].nonce].mode = call[attempts[p].nonce].mode
    <3>1. attempts[p].status # "none" /\ p \in Pay
      BY <2>3 DEF OwnedAt, CallInv, RecordInv, GoodReq, Owning, Pay
    <3>2. attempts[p].nonce \in Nonce /\ call[attempts[p].nonce].pc \in Begun
      BY <3>1 DEF CallInv, AskedPay, Asked
    <3>3. QED
      BY <1>1, <3>2
  <2>4. FeeKept(p) /\ Recorded(p)' = Recorded(p) /\ Conflict(p)' = Conflict(p)
    BY DEF FeeInv, Recorded, Conflict
  <2>5. QED
    BY <2>2, <2>3, <2>4 DEF FeeKept
<1>3. ASSUME NEW j \in Nonce, j # k PROVE FeeSent(j)' /\ FeeBuys(j)'
  <2>1. call'[j] = call[j] /\ FeeSent(j) /\ FeeBuys(j)
    BY <1>1, <1>3 DEF FeeInv
  <2>2. paid \subseteq Pay
    BY DEF CallInv, RecordInv, TypeOK
  <2>3. \A r \in Req : req'[r] = req[r] \/ At(r, "idle")
    OBVIOUS
  <2>4. call[j].fee \in paid /\ FeeSafe(j) => FeeSafe(j)'
    BY <1>3, <2>2, <2>3, MoveSafe
  <2>5. QED
    BY <2>1, <2>4 DEF FeeSent, FeeBuys
<1>4. QED
  BY <1>2, <1>3

\* A call that has its payment moves.
LEMMA BegunFee ==
  ASSUME CallInv, FeeInv, NEW k \in Nonce, NEW w, Moves(k, w), SameCall(w, call[k]),
         UNCHANGED <<records, attempts, paid, may, reverted, netMay>>,
         call[k].pc \in Begun,
         \A r \in Req : \/ req'[r] = req[r]
                        \/ At(r, "idle") /\ req'[r].pc \in {"idle", "precheck"},
         \/ call[k].pc = "sent" \/ call[k].mode # "fee"
         \/ Calm => Held(call[k].fee)'
  PROVE  FeeInv'
<1>1. call'[k] = w /\ w.fee = call[k].fee /\ w.mode = call[k].mode
  BY DEF Moves, SameCall
<1>2. ASSUME Calm PROVE FeeSent(k)'
  BY <1>1, <1>2 DEF FeeSent, FeeInv
<1>3. ASSUME Calm PROVE FeeBuys(k)'
  <2>1. CASE call[k].mode # "fee"
    BY <1>1, <2>1 DEF FeeBuys
  <2>2. CASE call[k].pc = "sent"
    <3>1. \A r \in Req : req'[r] = req[r] \/ At(r, "idle")
      OBVIOUS
    <3>2. paid \subseteq Pay /\ FeeBuys(k)
      BY <1>3 DEF CallInv, RecordInv, TypeOK, FeeInv
    <3>3. call[k].fee \in paid /\ FeeSafe(k) => FeeSafe(k)'
      BY <1>1, <3>1, <3>2, MoveSafe
    <3>4. QED
      BY <1>1, <2>2, <3>2, <3>3 DEF FeeBuys
  <2>3. CASE Held(call[k].fee)'
    BY <1>1, <2>3 DEF FeeBuys, FeeSafe
  <2>4. QED
    BY <1>3, <2>1, <2>2, <2>3
<1>4. QED
  BY <1>1, <1>2, <1>3, MoveFee

LEMMA OpenFee ==
  ASSUME CallInv, FeeInv, NEW k \in Nonce, NEW w, Opens(k, w),
         UNCHANGED <<vars, reverted, netMay>>
  PROVE  FeeInv'
<1>1. /\ UNCHANGED <<records, attempts, paid, may, reverted, netMay, req>>
      /\ Moves(k, w) /\ call'[k] = w /\ call[k].pc \notin Begun
      /\ call[k].fee \in Pay => w.fee = call[k].fee
      /\ w.pc \notin {"sent", "sign"} /\ w.try = 0
  BY DEF vars, Opens, Moves
<1>2. Calm => w.pc # "done"
  BY DEF Opens, Calm
<1>3. Calm => FeeSent(k)' /\ FeeBuys(k)'
  BY <1>1, <1>2 DEF Opens, FeeSent, FeeBuys, Begun
<1>4. QED
  BY <1>1, <1>3, MoveFee

LEMMA PostFee ==
  ASSUME CallInv, FeeInv, NEW k \in Nonce, NEW w, NEW r, Posts(k, w, r),
         UNCHANGED <<records, attempts, paid, jobs, may, reverted, netMay>>
  PROVE  FeeInv'
<1>1. /\ Moves(k, w) /\ SameCall(w, call[k]) /\ call'[k] = w /\ call[k].pc \in Begun
      /\ r \in Req /\ At(r, "idle") /\ req'[r].pc = "precheck"
      /\ req'[r].pay = Payment(k) /\ \A s \in Req : s # r => req'[s] = req[s]
  BY DEF Posts, Moves, Begun
<1>2. call[k].mode = "fee" => Payment(k) = call[k].fee
  BY DEF CallInv, Formed, Payment
<1>3. call[k].mode = "fee" => Held(call[k].fee)'
  <2>1. call'[k].fee = call[k].fee
    BY <1>1 DEF SameCall
  <2>2. InFlight(r)'
    BY <1>1 DEF InFlight, At
  <2>3. QED
    BY <1>1, <1>2, <2>1, <2>2 DEF Held
<1>4. QED
  BY <1>1, <1>3, BegunFee

LEMMA FailFee ==
  ASSUME CallInv, FeeInv, NEW k \in Nonce, NEW w, Retries(k, w),
         \/ call[k].pc = "post" /\ "unreached" \in netMay
         \/ call[k].pc = "sent" /\ "timeout" \in netMay,
         UNCHANGED <<vars, reverted, netMay>>
  PROVE  FeeInv'
<1>1. /\ Moves(k, w) /\ SameCall(w, call[k]) /\ call[k].pc \in Begun
      /\ UNCHANGED <<records, attempts, paid, may, reverted, netMay, req>>
  BY DEF Retries, Begun, vars
<1>2. call[k].pc = "sent" \/ ~Calm
  BY DEF Calm
<1>3. QED
  BY <1>1, <1>2, BegunFee

LEMMA ReceiveFee ==
  ASSUME CallInv, FeeInv, NEW k \in Nonce, NEW w, NEW r, NEW a, Receives(k, w, r, a),
         UNCHANGED <<records, attempts, paid, jobs, may, reverted, netMay>>
  PROVE  FeeInv'
<1>1. /\ Moves(k, w) /\ SameCall(w, call[k]) /\ call[k].pc = "sent"
      /\ At(r, "idle") /\ req'[r].pc = "idle"
      /\ \A s \in Req : s # r => req'[s] = req[s]
  BY DEF Receives, Reacts
<1>2. call[k].pc \in Begun
  BY <1>1 DEF Begun
<1>3. QED
  BY <1>1, <1>2, BegunFee

LEMMA SignFee ==
  ASSUME CallInv, FeeInv, NEW k \in Nonce, NEW w, Signs(k, w),
         UNCHANGED <<vars, reverted, netMay>>
  PROVE  FeeInv'
<1>1. /\ Moves(k, w) /\ SameCall(w, call[k]) /\ call[k].pc = "sign"
      /\ UNCHANGED <<records, attempts, paid, may, reverted, netMay, req>>
  BY DEF Signs, vars
<1>2. call[k].pc \in Begun /\ call[k].mode # "fee"
  BY <1>1 DEF Begun, CallInv, Formed
<1>3. QED
  BY <1>1, <1>2, BegunFee

LEMMA CallStepFee == CallInv /\ FeeInv /\ [SdkNext]_sdkVars => FeeInv'
<1> SUFFICES ASSUME CallInv, FeeInv, [SdkNext]_sdkVars PROVE FeeInv'
  OBVIOUS
<1>1. ASSUME NEW k \in Nonce, CallStep(k) PROVE FeeInv'
  <2>1. CASE SendFee(k)
    BY <2>1, SendFeeOpens, OpenFee DEF SendFee
  <2>2. CASE AwaitFee(k)
    BY <2>2, AwaitFeeOpens, OpenFee DEF AwaitFee
  <2>3. CASE PostRecord(k)
    BY <2>3, PostIs, PostFee
  <2>4. CASE AttemptFails(k) \/ Limited(k)
    BY <2>4, FailIs, FailFee
  <2>5. CASE Receive(k)
    BY <2>5, ReceiveIs, ReceiveFee
  <2>6. CASE signX402Payment(k)
    BY <2>6, SignIs, SignFee
  <2>7. QED
    BY <1>1, <2>1, <2>2, <2>3, <2>4, <2>5, <2>6 DEF CallStep
<1>2. ASSUME NEW k \in Nonce, NEW m \in Mode, NEW c \in Content,
             NEW f \in Fee \cup {NoPay}, record(k, m, c, f)
      PROVE  FeeInv'
  BY <1>2, RecordOpens, OpenFee DEF record
<1>3. ASSUME NEW r \in Req, Serve(r) PROVE FeeInv'
  BY <1>3, ServeStep, ServeAsked, ServeFee DEF Serve
<1>4. ASSUME NEW p \in Fee, Settle(p) PROVE FeeInv'
  BY <1>4, SettleFee
<1>5. CASE UNCHANGED sdkVars
  BY <1>5 DEF sdkVars, FeeInv, Calm, Without, FeeKept, FeeSent, FeeBuys, FeeSafe,
     OwnedAt, Conflict, Recorded, Held, RecordOf, InFlight, At
<1>6. QED
  BY <1>1, <1>2, <1>3, <1>4, <1>5 DEF SdkNext
-----------------------------------------------------------------------------
(***************************************************************************)
(* The theorems about the SDK.                                             *)
(***************************************************************************)
LEMMA CallAlways == SdkSpec => [](CallInv /\ ToldInv /\ FeeInv)
<1>1. SdkInit => CallInv /\ ToldInv /\ FeeInv
  BY CallInit, ToldInit, FeeInit
<1>2. CallInv /\ ToldInv /\ FeeInv /\ [SdkNext]_sdkVars => (CallInv /\ ToldInv /\ FeeInv)'
  BY CallStepAsked, CallStepTold, CallStepFee
<1>3. QED
  BY <1>1, <1>2, PTL DEF SdkSpec

\* Calls are well formed, and no two of them wait for one request: a slot that
\* a call has given up (timeoutMs, http.ts) is not mistaken for a new one.
THEOREM SdkTypes == SdkSpec => []SdkTypeOK
<1>1. ASSUME CallInv PROVE SdkTypeOK
  BY <1>1 DEF CallInv, RecordInv, CallsTyped, Formed, SlotsDiffer, SdkTypeOK, Doing
<1>2. QED
  BY <1>1, CallAlways, PTL

\* What a call of record, recordHash or recordBatch tells its caller is true,
\* whatever fails and however often request makes its POST again: a receipt is
\* of a record of this content and this payment, and one that was refused at
\* its first attempt has no record.
THEOREM OutcomesTrue == SdkSpec => []OutcomeIsTrue
<1>1. ASSUME CallInv, ToldInv, NEW k \in Nonce
      PROVE  OwnRecord(k) = {e \in OwnRecord(k) : e.content = call[k].content
                                                   /\ e.pay = Payment(k)}
  <2>1. ASSUME NEW e \in OwnRecord(k)
        PROVE  e.content = call[k].content /\ e.pay = Payment(k)
    <3>1. e \in records /\ e.nonce = k /\ e.pay \in Pay /\ NoPay \notin Pay
      BY <1>1, RecordsAssumption
         DEF OwnRecord, CallInv, RecordInv, TypeOK, Record
    <3>2. /\ e.content = call[k].content
          /\ e.pay = call[k].fee \/ (call[k].signed /\ e.pay = call[k].usdc)
      BY <1>1, <3>1 DEF CallInv, AskedRow, Asked
    <3>3. call[k].signed => call[k].fee = NoPay
      BY <1>1 DEF CallInv, Formed
    <3>4. call[k].usdc = NoPay \/ call[k].fee = NoPay
      BY <1>1 DEF CallInv, Formed
    <3>5. QED
      BY <3>1, <3>2, <3>3, <3>4 DEF Payment
  <2>2. QED
    BY <2>1
<1>2. ASSUME CallInv, ToldInv, NEW k \in Nonce
      PROVE  /\ call[k].out \in {"receipt", "cached"} => OwnRecord(k) # {}
             /\ call[k].out = "cached" => call[k].signed /\ call[k].try > 0
             /\ call[k].out = "duplicate" => RecordOf(call[k].content) # {}
             /\ call[k].out \in {"duplicate", "reused", "refused"} =>
                  call[k].try > 0 \/ OwnRecord(k) = {}
  <2>1. call[k].try \in Nat
    BY <1>2, SdkAssumption DEF CallInv, CallsTyped, Call
  <2>2. call[k].try # 0 => call[k].try > 0
    BY <2>1
  <2>3. OutTrue(k) /\ FirstTry(k) /\ Formed(call[k])
    BY <1>2 DEF ToldInv, CallInv
  <2>4. QED
    BY <2>2, <2>3 DEF OutTrue, FirstTry, Formed
<1>3. ASSUME CallInv, ToldInv PROVE OutcomeIsTrue
  BY <1>1, <1>2, <1>3 DEF OutcomeIsTrue
<1>4. QED
  BY <1>3, CallAlways, PTL

\* payFee pays before the POST. While nothing but timeouts and reverts goes
\* wrong, the fee of a call that has ended has bought a record, or is at work,
\* or was lost to another record of the content or another call with its hash.
THEOREM FeeLost == SdkSpec => []FeeLostOnlyToConflict
<1>1. ASSUME FeeInv PROVE FeeLostOnlyToConflict
  BY <1>1 DEF FeeInv, Calm, FeeBuys, FeeSafe, FeeLostOnlyToConflict, Doing
<1>2. QED
  BY <1>1, CallAlways, PTL

\* The promises of the server hold under the SDK too, where a call may give up
\* a request that goes on and make its POST again (http.ts), which brings the
\* identifier of its payment as it was: no resend has a second record for one
\* identifier, content or nonce, or takes money for nothing.
THEOREM PaidUnderResends ==
  SdkSpec => []RecordsArePaid /\ []AttemptsAreTrue /\ []MoneyLostOnlyToConflict
<1>1. CallInv => RecordInv
  BY DEF CallInv
<1>2. QED
  BY <1>1, RecordMeans, CallAlways, PTL
=============================================================================
