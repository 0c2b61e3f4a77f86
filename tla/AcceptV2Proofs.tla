--------------------------- MODULE AcceptV2Proofs ---------------------------
(***************************************************************************)
(* Proofs about AcceptV2, for any declarations, quotas and finite number   *)
(* of requests in flight.                                                  *)
(***************************************************************************)
EXTENDS AcceptV2, FiniteSetTheorems, TLAPS

\* The request that stored its declaration, until its agent has the answer.
Made(q) == q.pc = "enqueue" \/ q.answer = "created"

GoodReq(r) ==
  LET q == req[r] IN
  /\ q.old \subseteq old
  /\ q.pc \notin {"idle", "done"} => q.decl \in Declaration /\ q.answer = "none"
  /\ q.pc = "idle" => q.answer = "none" /\ ~q.known
  /\ q.pc = "conflict" => SameNonce(q.decl) # {}
  /\ Made(q) \/ q.answer = "duplicate" => q.decl \in rows
  /\ q.answer = "nonce_reused" =>
       q.decl \in Declaration /\ q.decl \notin rows /\ SameNonce(q.decl) # {}
  /\ q.known => /\ q.decl \in rows
                /\ q.pc = "lookup" \/ q.answer \in {"duplicate", "error"}

OneNonceOneRow ==
  \A d, e \in rows : d.agent = e.agent /\ d.nonce = e.nonce => d = e

OneMaker ==
  \A r, s \in Req :
    Made(req[r]) /\ Made(req[s]) /\ decl(r) = decl(s) => r = s

AnswerInv ==
  /\ rows \subseteq Declaration /\ old \subseteq rows /\ req \in [Req -> Request]
  /\ OneNonceOneRow /\ \A r \in Req : GoodReq(r)
  /\ OneMaker
-----------------------------------------------------------------------------
\* An INSERT, with its effect.
Adds(d) == SameNonce(d) = {} /\ rows' = rows \cup {d}

LEMMA Fresh ==
  ASSUME NEW d, SameNonce(d) = {}
  PROVE  d \notin rows
BY DEF SameNonce

LEMMA KeepReq ==
  ASSUME NEW r \in Req, GoodReq(r), req'[r] = req[r], old \subseteq old',
         rows' = rows \/ \E d \in Declaration : Adds(d)
  PROVE  GoodReq(r)'
<1>1. rows \subseteq rows' /\ \A d : SameNonce(d) \subseteq SameNonce(d)'
  BY DEF Adds, SameNonce
<1>2. req[r].answer = "nonce_reused" => req[r].decl \notin rows'
  <2> SUFFICES ASSUME req[r].answer = "nonce_reused", req[r].decl \in rows'
      PROVE  FALSE
    OBVIOUS
  <2>1. req[r].decl \notin rows /\ SameNonce(req[r].decl) # {}
    BY DEF GoodReq
  <2>2. QED
    BY <2>1 DEF Adds
<1>3. QED
  BY <1>1, <1>2 DEF GoodReq

\* One request moves to v, and a row is added or not.
LEMMA ReqMoves ==
  ASSUME AnswerInv, NEW r \in Req, NEW v \in Request,
         req' = [req EXCEPT ![r] = v], UNCHANGED old,
         rows' = rows \/ \E d \in Declaration : Adds(d),
         GoodReq(r)',
         Made(v) => \/ Made(req[r]) /\ v.decl = decl(r)
                    \/ v.decl \notin rows
  PROVE  AnswerInv'
<1>1. req' \in [Req -> Request] /\ req'[r] = v
      /\ \A s \in Req : s # r => req'[s] = req[s]
  BY DEF AnswerInv
<1>2. rows' \subseteq Declaration /\ old' \subseteq rows'
  BY DEF AnswerInv, Adds
<1>3. OneNonceOneRow'
  <2>1. CASE rows' = rows
    BY <2>1 DEF AnswerInv, OneNonceOneRow
  <2>2. ASSUME NEW d \in Declaration, Adds(d) PROVE OneNonceOneRow'
    BY <2>2 DEF AnswerInv, OneNonceOneRow, Adds, SameNonce
  <2>3. QED
    BY <2>1, <2>2
<1>4. ASSUME NEW s \in Req PROVE GoodReq(s)'
  <2>1. CASE s = r
    BY <2>1
  <2>2. CASE s # r
    BY <2>2, <1>1, KeepReq DEF AnswerInv
  <2>3. QED
    BY <2>1, <2>2
<1>5. OneMaker'
  <2> SUFFICES ASSUME NEW s \in Req, NEW t \in Req, Made(req'[s]), Made(req'[t]),
                      req'[s].decl = req'[t].decl, s # t
      PROVE  FALSE
    BY DEF OneMaker, decl, Made
  <2>1. ASSUME NEW u \in Req, u # r, Made(req[u]) PROVE req[u].decl \in rows
    BY <2>1 DEF AnswerInv, GoodReq
  <2>2. QED
    BY <1>1, <2>1 DEF AnswerInv, OneMaker, decl
<1>6. QED
  BY <1>1, <1>2, <1>3, <1>4, <1>5 DEF AnswerInv

LEMMA GotoIs ==
  ASSUME AnswerInv, NEW r \in Req, NEW pc \in PC, Goto(r, pc)
  PROVE  \E v \in Request : /\ req' = [req EXCEPT ![r] = v] /\ req'[r] = v
                            /\ v.pc = pc /\ v.decl = decl(r) /\ v.old = req[r].old
                            /\ v.known = req[r].known /\ v.answer = req[r].answer
<1> DEFINE v == [req[r] EXCEPT !.pc = pc]
<1>1. req \in [Req -> Request] /\ req[r] \in Request
  BY DEF AnswerInv
<1>2. req' = [req EXCEPT ![r] = v]
  BY <1>1 DEF Goto
<1>3. /\ v \in Request /\ v.pc = pc /\ v.decl = decl(r) /\ v.old = req[r].old
      /\ v.known = req[r].known /\ v.answer = req[r].answer
  BY <1>1 DEF Request, decl
<1> HIDE DEF v
<1>4. QED
  BY <1>1, <1>2, <1>3

LEMMA ReplyIs ==
  ASSUME AnswerInv, NEW r \in Req, NEW a \in Answer, Reply(r, a)
  PROVE  \E v \in Request : /\ req' = [req EXCEPT ![r] = v] /\ req'[r] = v
                            /\ v.pc = "done" /\ v.decl = decl(r) /\ v.old = {}
                            /\ v.known = req[r].known /\ v.answer = a
<1> DEFINE v == [req[r] EXCEPT !.pc = "done", !.old = {}, !.answer = a]
<1>1. req \in [Req -> Request] /\ req[r] \in Request
  BY DEF AnswerInv
<1>2. req' = [req EXCEPT ![r] = v]
  BY DEF Reply
<1>3. /\ v \in Request /\ v.pc = "done" /\ v.decl = decl(r) /\ v.old = {}
      /\ v.known = req[r].known /\ v.answer = a
  BY <1>1 DEF Request, decl, PC
<1> HIDE DEF v
<1>4. QED
  BY <1>1, <1>2, <1>3

\* A request that goes on, to an await that says nothing of the rows.
LEMMA GoesOn ==
  ASSUME AnswerInv, NEW r \in Req, NEW pc \in {"agent", "global", "insert", "conflict"},
         Goto(r, pc), UNCHANGED <<rows, old>>,
         req[r].pc \notin {"idle", "done"}, ~req[r].known,
         pc = "conflict" => SameNonce(decl(r)) # {}
  PROVE  AnswerInv'
<1>1. pc \in PC
  BY DEF PC
<1>2. PICK v \in Request : /\ req' = [req EXCEPT ![r] = v] /\ req'[r] = v
                           /\ v.pc = pc /\ v.decl = decl(r) /\ v.old = req[r].old
                           /\ v.known = req[r].known /\ v.answer = req[r].answer
  BY <1>1, GotoIs
<1>3. GoodReq(r) /\ v.answer = "none"
  BY <1>2 DEF AnswerInv, GoodReq
<1>4. ~Made(v)
  BY <1>2, <1>3 DEF Made
<1>5. GoodReq(r)'
  BY <1>2, <1>3, <1>4 DEF GoodReq, SameNonce, decl
<1>6. QED
  BY <1>2, <1>4, <1>5, ReqMoves

\* A request that is answered.
LEMMA Answers ==
  ASSUME AnswerInv, NEW r \in Req, NEW a \in Answer, Reply(r, a), UNCHANGED old,
         rows' = rows \/ \E d \in Declaration : Adds(d),
         req[r].pc \notin {"idle", "done"},
         a = "created" => req[r].pc = "enqueue",
         a = "duplicate" => decl(r) \in rows,
         a = "nonce_reused" =>
           rows' = rows /\ decl(r) \notin rows /\ SameNonce(decl(r)) # {},
         req[r].known => a \in {"duplicate", "error"}
  PROVE  AnswerInv'
<1>1. PICK v \in Request : /\ req' = [req EXCEPT ![r] = v] /\ req'[r] = v
                           /\ v.pc = "done" /\ v.decl = decl(r) /\ v.old = {}
                           /\ v.known = req[r].known /\ v.answer = a
  BY ReplyIs
<1>2. GoodReq(r) /\ decl(r) \in Declaration
  BY DEF AnswerInv, GoodReq, decl
<1>3. Made(v) => Made(req[r]) /\ v.decl = decl(r)
  BY <1>1 DEF Made
<1>4. rows \subseteq rows'
  BY DEF Adds
<1>5. GoodReq(r)'
  BY <1>1, <1>2, <1>3, <1>4 DEF GoodReq, Made, SameNonce, decl
<1>6. QED
  BY <1>1, <1>3, <1>5, ReqMoves
-----------------------------------------------------------------------------
LEMMA AnswerInit == Init => AnswerInv
<1> SUFFICES ASSUME Init PROVE AnswerInv
  OBVIOUS
<1>1. Blank \in Request /\ Blank.pc = "idle" /\ Blank.answer = "none"
      /\ ~Blank.known /\ Blank.old = {}
  BY DEF Blank, Request, PC, Answer
<1>2. rows = {} /\ old = {} /\ req = [r \in Req |-> Blank]
  BY DEF Init
<1>3. \A r \in Req : req[r] = Blank /\ ~Made(req[r])
  BY <1>1, <1>2 DEF Made
<1>4. QED
  BY <1>1, <1>2, <1>3 DEF AnswerInv, OneNonceOneRow, OneMaker, GoodReq

\* A request begins, ends, or is refused at once.
LEMMA Begins ==
  ASSUME AnswerInv, NEW r \in Req, NEW v \in Request,
         req' = [req EXCEPT ![r] = v], UNCHANGED <<rows, old>>,
         v.pc \in {"idle", "lookup", "done"}, v.old \subseteq old,
         v.answer \in {"none", "refused"}, v.known => v.decl \in rows,
         v.pc = "lookup" => v.decl \in Declaration /\ v.answer = "none",
         v.pc # "lookup" => ~v.known, v.pc = "idle" => v.answer = "none"
  PROVE  AnswerInv'
<1>1. req'[r] = v /\ ~Made(v)
  BY DEF AnswerInv, Made
<1>2. GoodReq(r)'
  BY <1>1 DEF GoodReq
<1>3. QED
  BY <1>1, <1>2, ReqMoves

LEMMA SubmitInv ==
  ASSUME AnswerInv, NEW r \in Req, NEW d \in Declaration, Submit(r, d)
  PROVE  AnswerInv'
<1> DEFINE v == [pc |-> "lookup", decl |-> d, old |-> old, known |-> d \in rows,
                 answer |-> "none"]
<1>1. v \in Request /\ v.pc = "lookup" /\ v.decl = d /\ v.old = old
      /\ v.known = (d \in rows) /\ v.answer = "none"
  BY DEF AnswerInv, Request, PC, Answer
<1>2. req' = [req EXCEPT ![r] = v] /\ UNCHANGED <<rows, old>>
  BY DEF Submit
<1> HIDE DEF v
<1>3. QED
  BY <1>1, <1>2, Begins

LEMMA EndsInv ==
  ASSUME AnswerInv, NEW r \in Req, Refuse(r) \/ Answered(r)
  PROVE  AnswerInv'
<1> DEFINE v == [Blank EXCEPT !.pc = "done", !.answer = "refused"]
<1>1. /\ v \in Request /\ v.pc = "done" /\ v.old = {} /\ ~v.known
      /\ v.answer = "refused"
  BY DEF Request, PC, Answer, Blank
<1>2. /\ Blank \in Request /\ Blank.pc = "idle" /\ Blank.old = {} /\ ~Blank.known
      /\ Blank.answer = "none"
  BY DEF Request, PC, Answer, Blank
<1>3. UNCHANGED <<rows, old>>
      /\ (req' = [req EXCEPT ![r] = v] \/ req' = [req EXCEPT ![r] = Blank])
  BY DEF Refuse, Answered
<1> HIDE DEF v
<1>4. CASE req' = [req EXCEPT ![r] = v]
  BY <1>1, <1>3, <1>4, Begins
<1>5. CASE req' = [req EXCEPT ![r] = Blank]
  BY <1>2, <1>3, <1>5, Begins
<1>6. QED
  BY <1>3, <1>4, <1>5

LEMMA AnswerStep == AnswerInv /\ [Next]_vars => AnswerInv'
<1> SUFFICES ASSUME AnswerInv, [Next]_vars PROVE AnswerInv'
  OBVIOUS
<1>1. CASE UNCHANGED vars
  BY <1>1 DEF vars, AnswerInv, OneNonceOneRow, OneMaker, GoodReq, SameNonce, decl
<1>2. ASSUME NEW d \in Declaration, Ages(d) PROVE AnswerInv'
  <2>1. old \subseteq old' /\ old' \subseteq rows /\ UNCHANGED <<rows, req>>
    BY <1>2 DEF Ages, AnswerInv
  <2>2. \A r \in Req : GoodReq(r)'
    BY <2>1, KeepReq DEF AnswerInv
  <2>3. QED
    BY <2>1, <2>2 DEF AnswerInv, OneNonceOneRow, OneMaker, decl
<1>3. ASSUME NEW r \in Req, NEW d \in Declaration, Submit(r, d) PROVE AnswerInv'
  BY <1>3, SubmitInv
<1>4. ASSUME NEW r \in Req, RequestStep(r) PROVE AnswerInv'
  <2>1. GoodReq(r)
    BY DEF AnswerInv
  <2>2. CASE Lookup(r)
    <3>1. req[r].pc = "lookup" /\ UNCHANGED <<rows, old>>
      BY <2>2 DEF Lookup, At
    <3>2. CASE decl(r) \in rows /\ Reply(r, "duplicate")
      BY <3>1, <3>2, Answers DEF Answer
    <3>3. CASE decl(r) \notin rows /\ Goto(r, "agent")
      <4>1. ~req[r].known
        BY <2>1, <3>3 DEF GoodReq, decl
      <4>2. QED
        BY <3>1, <3>3, <4>1, GoesOn
    <3>4. QED
      BY <2>2, <3>2, <3>3 DEF Lookup
  <2>3. req[r].pc \in {"agent", "global", "insert", "conflict", "enqueue"} => ~req[r].known
    BY <2>1 DEF GoodReq
  <2>4. CASE CheckAgentQuota(r)
    <3>1. req[r].pc = "agent" /\ UNCHANGED <<rows, old>>
          /\ (Reply(r, "over_agent_quota") \/ Goto(r, "global"))
      BY <2>4 DEF CheckAgentQuota, At
    <3>2. QED
      BY <2>3, <3>1, GoesOn, Answers DEF Answer
  <2>5. CASE CheckGlobalQuota(r)
    <3>1. req[r].pc = "global" /\ UNCHANGED <<rows, old>>
          /\ (Reply(r, "over_global_quota") \/ Goto(r, "insert"))
      BY <2>5 DEF CheckGlobalQuota, At
    <3>2. QED
      BY <2>3, <3>1, GoesOn, Answers DEF Answer
  <2>6. CASE insertDeclaration(r)
    <3>1. req[r].pc = "insert" /\ UNCHANGED old /\ decl(r) \in Declaration
      BY <2>1, <2>6 DEF insertDeclaration, At, GoodReq, decl
    <3>2. CASE SameNonce(decl(r)) # {} /\ UNCHANGED rows /\ Goto(r, "conflict")
      BY <2>3, <3>1, <3>2, GoesOn
    <3>3. CASE Adds(decl(r)) /\ Goto(r, "enqueue")
      <4>1. PICK v \in Request : /\ req' = [req EXCEPT ![r] = v] /\ req'[r] = v
                                 /\ v.pc = "enqueue" /\ v.decl = decl(r)
                                 /\ v.old = req[r].old
                                 /\ v.known = req[r].known /\ v.answer = req[r].answer
        BY <3>3, GotoIs DEF PC
      <4>2. v.answer = "none" /\ ~v.known
        BY <2>1, <2>3, <3>1, <4>1 DEF GoodReq
      <4>3. GoodReq(r)'
        BY <2>1, <3>1, <3>3, <4>1, <4>2 DEF GoodReq, Made, Adds, decl
      <4>4. decl(r) \notin rows
        BY <3>3, Fresh DEF Adds
      <4>5. QED
        BY <3>1, <3>3, <4>1, <4>3, <4>4, ReqMoves
    <3>4. QED
      BY <2>6, <3>2, <3>3 DEF insertDeclaration, Adds
  <2>7. CASE ResolveConflict(r)
    <3>1. req[r].pc = "conflict" /\ UNCHANGED <<rows, old>>
          /\ Reply(r, IF decl(r) \in rows THEN "duplicate" ELSE "nonce_reused")
      BY <2>7 DEF ResolveConflict, At
    <3>2. SameNonce(decl(r)) # {}
      BY <2>1, <3>1 DEF GoodReq, decl
    <3>3. CASE decl(r) \in rows
      BY <2>3, <3>1, <3>3, Answers DEF Answer
    <3>4. CASE decl(r) \notin rows
      BY <2>3, <3>1, <3>2, <3>4, Answers DEF Answer
    <3>5. QED
      BY <3>3, <3>4
  <2>8. CASE Enqueue(r)
    <3>1. req[r].pc = "enqueue" /\ UNCHANGED <<rows, old>> /\ Reply(r, "created")
      BY <2>8 DEF Enqueue, At
    <3>2. QED
      BY <2>3, <3>1, Answers DEF Answer
  <2>9. CASE Fails(r)
    <3>1. req[r].pc \notin {"idle", "done"} /\ UNCHANGED old /\ Reply(r, "error")
      BY <2>9 DEF Fails
    <3>2. decl(r) \in Declaration
      BY <2>1, <3>1 DEF GoodReq, decl
    <3>3. rows' = rows \/ \E d \in Declaration : Adds(d)
      BY <2>9, <3>2 DEF Fails, Adds
    <3>4. QED
      BY <3>1, <3>3, Answers DEF Answer
  <2>10. QED
    BY <1>4, <2>2, <2>4, <2>5, <2>6, <2>7, <2>8, <2>9, EndsInv DEF RequestStep
<1>5. QED
  BY <1>1, <1>2, <1>3, <1>4 DEF Next

LEMMA AnswersStay == Spec => []AnswerInv
<1>1. QED
  BY AnswerInit, AnswerStep, PTL DEF Spec

\* The rows and requests stay well formed: a nonce of an agent is in one row
\* (the unique indexes of the declarations table).
THEOREM SubmissionTypes == Spec => []TypeOK
<1>1. AnswerInv => TypeOK
  BY DEF AnswerInv, OneNonceOneRow, TypeOK, SameNonce
<1>2. QED
  BY <1>1, AnswersStay, PTL

\* Whatever acceptDeclaration answers is true of the table, and one request
\* only is told to have created a declaration.
THEOREM AnswersTrue == Spec => []AnswersAreTrue
<1>1. AnswerInv => AnswersAreTrue
  BY DEF AnswerInv, OneMaker, GoodReq, Made, AnswersAreTrue, decl
<1>2. QED
  BY <1>1, AnswersStay, PTL

\* What was stored when it is submitted again is answered as a duplicate by
\* acceptDeclaration, never with a quota or a nonce.
THEOREM ResubmissionSafe == Spec => []ResubmissionIsIdempotent
<1>1. AnswerInv => ResubmissionIsIdempotent
  BY DEF AnswerInv, GoodReq, ResubmissionIsIdempotent, At
<1>2. QED
  BY <1>1, AnswersStay, PTL
-----------------------------------------------------------------------------
(***************************************************************************)
(* The quotas.                                                             *)
(***************************************************************************)
Recent(a) == {d \in rows \ old : d.agent = a}

\* Requests that have passed a check and not inserted yet: each may have
\* counted the same rows.
PastAgent(a) == {r \in Req : req[r].pc \in {"global", "insert"} /\ decl(r).agent = a}
PastGlobal   == {r \in Req : req[r].pc = "insert"}

AgentRoom ==
  \A a \in Agent : Cardinality(Recent(a)) + Cardinality(PastAgent(a))
                     <= AgentDailyQuota - 1 + Cardinality(Req)
GlobalRoom ==
  Cardinality(rows \ old) + Cardinality(PastGlobal)
    <= GlobalDailyQuota - 1 + Cardinality(Req)

QuotaInv == AgentRoom /\ GlobalRoom

LEMMA Finite ==
  /\ \A T \in SUBSET Declaration : IsFiniteSet(T) /\ Cardinality(T) \in Nat
  /\ \A T \in SUBSET Req : IsFiniteSet(T) /\ Cardinality(T) \in Nat
                           /\ Cardinality(T) <= Cardinality(Req)
  /\ Cardinality(Req) \in Nat
  /\ Cardinality(Req) >= 1
<1>1. /\ \A T \in SUBSET Declaration : IsFiniteSet(T) /\ Cardinality(T) \in Nat
      /\ \A T \in SUBSET Req : IsFiniteSet(T) /\ Cardinality(T) \in Nat
                               /\ Cardinality(T) <= Cardinality(Req)
      /\ Cardinality(Req) \in Nat
  BY FS_Subset, FS_CardinalityType, AcceptAssumption
<1>2. Cardinality(Req) # 0
  BY FS_EmptySet, AcceptAssumption
<1>3. QED
  BY <1>1, <1>2

LEMMA Sets ==
  ASSUME AnswerInv
  PROVE  /\ \A a : Recent(a) \in SUBSET Declaration /\ PastAgent(a) \in SUBSET Req
         /\ rows \ old \in SUBSET Declaration /\ PastGlobal \in SUBSET Req
BY DEF AnswerInv, Recent, PastAgent, PastGlobal

LEMMA SetsNext ==
  ASSUME AnswerInv'
  PROVE  /\ \A a : Recent(a)' \in SUBSET Declaration /\ PastAgent(a)' \in SUBSET Req
         /\ (rows \ old)' \in SUBSET Declaration /\ PastGlobal' \in SUBSET Req
BY DEF AnswerInv, Recent, PastAgent, PastGlobal

LEMMA Smaller ==
  ASSUME NEW S, IsFiniteSet(S), NEW T \in SUBSET S
  PROVE  Cardinality(T) <= Cardinality(S)
BY FS_Subset

LEMMA QuotaInit == Init => QuotaInv
<1> SUFFICES ASSUME Init PROVE QuotaInv
  OBVIOUS
<1>1. \A a : Recent(a) = {} /\ PastAgent(a) = {}
  BY DEF Init, Blank, Recent, PastAgent
<1>2. rows \ old = {} /\ PastGlobal = {}
  BY DEF Init, Blank, PastGlobal
<1>3. QED
  BY <1>1, <1>2, FS_EmptySet, Finite, AcceptAssumption DEF QuotaInv, AgentRoom, GlobalRoom

\* A step by which no set that is counted grows.
LEMMA NothingGrows ==
  ASSUME AnswerInv, AnswerInv', QuotaInv, (rows \ old)' \subseteq rows \ old,
         \A a : PastAgent(a)' \subseteq PastAgent(a), PastGlobal' \subseteq PastGlobal
  PROVE  QuotaInv'
<1>1. \A a : Recent(a)' \subseteq Recent(a)
  BY DEF Recent
<1>2. \A a : /\ Cardinality(Recent(a)') <= Cardinality(Recent(a))
             /\ Cardinality(PastAgent(a)') <= Cardinality(PastAgent(a))
             /\ Cardinality(Recent(a)) \in Nat /\ Cardinality(PastAgent(a)) \in Nat
             /\ Cardinality(Recent(a)') \in Nat /\ Cardinality(PastAgent(a)') \in Nat
  BY <1>1, Smaller, Finite, Sets
<1>3. /\ Cardinality((rows \ old)') <= Cardinality(rows \ old)
      /\ Cardinality(PastGlobal') <= Cardinality(PastGlobal)
      /\ Cardinality(rows \ old) \in Nat /\ Cardinality(PastGlobal) \in Nat
      /\ Cardinality((rows \ old)') \in Nat /\ Cardinality(PastGlobal') \in Nat
  BY Smaller, Finite, Sets
<1>4. AgentRoom'
  BY <1>2, Finite, AcceptAssumption DEF QuotaInv, AgentRoom
<1>5. GlobalRoom'
  BY <1>3, Finite, AcceptAssumption DEF QuotaInv, GlobalRoom
<1>6. QED
  BY <1>4, <1>5 DEF QuotaInv

\* What the sets become when request r moves to v.
LEMMA Moved ==
  ASSUME AnswerInv, NEW r \in Req, NEW v \in Request, req' = [req EXCEPT ![r] = v]
  PROVE  /\ \A a : PastAgent(a)' = IF v.pc \in {"global", "insert"} /\ v.decl.agent = a
                                     THEN PastAgent(a) \cup {r} ELSE PastAgent(a) \ {r}
         /\ PastGlobal' = IF v.pc = "insert" THEN PastGlobal \cup {r}
                                             ELSE PastGlobal \ {r}
         /\ \A a : \/ v.pc \notin {"global", "insert"} \/ v.decl.agent # a
                  \/ r \in PastAgent(a)
                  => PastAgent(a)' \in SUBSET PastAgent(a)
         /\ v.pc # "insert" => PastGlobal' \in SUBSET PastGlobal
BY DEF AnswerInv, PastAgent, PastGlobal, decl

LEMMA Leaves ==
  ASSUME AnswerInv, AnswerInv', QuotaInv, NEW r \in Req, NEW v \in Request,
         req' = [req EXCEPT ![r] = v], v.pc \notin {"global", "insert"},
         UNCHANGED <<rows, old>>
  PROVE  QuotaInv'
<1>1. (\A a : PastAgent(a)' \in SUBSET PastAgent(a)) /\ PastGlobal' \in SUBSET PastGlobal
  BY Moved
<1>2. (rows \ old)' \subseteq rows \ old
  OBVIOUS
<1>3. QED
  BY <1>1, <1>2, NothingGrows

\* The row that a request passed the checks for.
LEMMA InsertQuota ==
  ASSUME AnswerInv, AnswerInv', QuotaInv, NEW r \in Req, NEW v \in Request,
         req' = [req EXCEPT ![r] = v], v.pc \notin {"global", "insert"},
         req[r].pc = "insert", rows' = rows \cup {decl(r)}, UNCHANGED old
  PROVE  QuotaInv'
<1>1. PICK d \in Declaration : d = decl(r)
  BY DEF AnswerInv, GoodReq, decl
<1>2. r \in PastGlobal /\ r \in PastAgent(d.agent)
  BY <1>1 DEF PastGlobal, PastAgent
<1>3. /\ \A a : PastAgent(a)' = PastAgent(a) \ {r}
      /\ PastGlobal' = PastGlobal \ {r}
  BY Moved
<1>4. /\ Recent(d.agent)' \in SUBSET (Recent(d.agent) \cup {d})
      /\ \A a : a # d.agent => Recent(a)' \in SUBSET Recent(a)
      /\ (rows \ old)' \in SUBSET ((rows \ old) \cup {d})
  BY <1>1 DEF Recent
<1>5. ASSUME NEW S, IsFiniteSet(S), NEW T \in SUBSET (S \cup {d})
      PROVE  Cardinality(T) <= Cardinality(S) + 1
  <2>1. Cardinality(S) \in Nat
    BY <1>5, FS_CardinalityType
  <2>2. IsFiniteSet(S \cup {d}) /\ (\/ Cardinality(S \cup {d}) = Cardinality(S)
                                    \/ Cardinality(S \cup {d}) = Cardinality(S) + 1)
    BY <1>5, FS_AddElement
  <2>3. Cardinality(T) <= Cardinality(S \cup {d}) /\ IsFiniteSet(T)
    BY <1>5, <2>2, FS_Subset
  <2>4. Cardinality(T) \in Nat
    BY <2>3, FS_CardinalityType
  <2>5. QED
    BY <2>1, <2>2, <2>3, <2>4
<1>6. GlobalRoom'
  <2>1. Cardinality(PastGlobal') = Cardinality(PastGlobal) - 1
    BY <1>2, <1>3, FS_RemoveElement, Finite, Sets
  <2>2. Cardinality((rows \ old)') <= Cardinality(rows \ old) + 1
    BY <1>4, <1>5, Finite, Sets
  <2>3. Cardinality(rows \ old) \in Nat /\ Cardinality(PastGlobal) \in Nat
        /\ Cardinality((rows \ old)') \in Nat
    BY Finite, Sets, SetsNext
  <2>4. QED
    BY <2>1, <2>2, <2>3, Finite, AcceptAssumption DEF QuotaInv, GlobalRoom
<1>7. ASSUME NEW a \in Agent
      PROVE  Cardinality(Recent(a)') + Cardinality(PastAgent(a)')
               <= AgentDailyQuota - 1 + Cardinality(Req)
  <2>1. Cardinality(Recent(a)) \in Nat /\ Cardinality(PastAgent(a)) \in Nat
        /\ Cardinality(Recent(a)') \in Nat /\ Cardinality(PastAgent(a)') \in Nat
    BY Finite, Sets, SetsNext
  <2>2. CASE a = d.agent
    <3>1. Cardinality(PastAgent(a)') = Cardinality(PastAgent(a)) - 1
      BY <1>2, <1>3, <2>2, FS_RemoveElement, Finite, Sets
    <3>2. Cardinality(Recent(a)') <= Cardinality(Recent(a)) + 1
      BY <1>4, <1>5, <2>2, Finite, Sets
    <3>3. QED
      BY <2>1, <3>1, <3>2, Finite, AcceptAssumption DEF QuotaInv, AgentRoom
  <2>3. CASE a # d.agent
    <3>1. Cardinality(PastAgent(a)') <= Cardinality(PastAgent(a))
      BY <1>3, Smaller, Finite, Sets
    <3>2. Cardinality(Recent(a)') <= Cardinality(Recent(a))
      BY <1>4, <2>3, Smaller, Finite, Sets
    <3>3. QED
      BY <2>1, <3>1, <3>2, Finite, AcceptAssumption DEF QuotaInv, AgentRoom
  <2>4. QED
    BY <2>2, <2>3
<1>8. QED
  BY <1>6, <1>7 DEF QuotaInv, AgentRoom

\* A count below the quota leaves room for all requests in flight.
LEMMA PassesAgent ==
  ASSUME AnswerInv, AnswerInv', QuotaInv, NEW r \in Req, UNCHANGED <<rows, old>>,
         req[r].pc = "agent", Goto(r, "global"), countAgent(r) < AgentDailyQuota
  PROVE  QuotaInv'
<1>1. PICK v \in Request : req' = [req EXCEPT ![r] = v] /\ v.pc = "global"
                           /\ v.decl = decl(r)
  BY GotoIs DEF PC
<1>2. PICK mine : mine = decl(r).agent
  OBVIOUS
<1>3. /\ \A a : a # mine => PastAgent(a)' \in SUBSET PastAgent(a)
      /\ PastGlobal' \in SUBSET PastGlobal /\ \A a : Recent(a)' = Recent(a)
      /\ (rows \ old)' = rows \ old
  BY <1>1, <1>2, Moved, ZenonT(40) DEF Recent
<1>4. Cardinality(Recent(mine)) < AgentDailyQuota
  <2> DEFINE seen == {e \in rows \ req[r].old : e.agent = mine}
  <2>1. Recent(mine) \in SUBSET seen /\ seen \in SUBSET Declaration
    BY DEF AnswerInv, GoodReq, Recent
  <2>2. Cardinality(seen) < AgentDailyQuota
    BY <1>2 DEF countAgent
  <2> HIDE DEF seen
  <2>3. Cardinality(Recent(mine)) <= Cardinality(seen)
        /\ Cardinality(Recent(mine)) \in Nat /\ Cardinality(seen) \in Nat
    BY <2>1, Smaller, Finite, Sets
  <2>4. QED
    BY <2>2, <2>3, AcceptAssumption
<1>5. ASSUME NEW a \in Agent
      PROVE  Cardinality(Recent(a)') + Cardinality(PastAgent(a)')
               <= AgentDailyQuota - 1 + Cardinality(Req)
  <2>1. Cardinality(Recent(a)) \in Nat /\ Cardinality(PastAgent(a)) \in Nat
        /\ Cardinality(PastAgent(a)') \in Nat
        /\ Cardinality(PastAgent(a)') <= Cardinality(Req)
    BY Finite, Sets, SetsNext
  <2>2. CASE a = mine
    BY <1>3, <1>4, <2>1, <2>2, Finite, AcceptAssumption
  <2>3. CASE a # mine
    <3>1. Cardinality(PastAgent(a)') <= Cardinality(PastAgent(a))
      BY <1>3, <2>3, Smaller, Finite, Sets
    <3>2. QED
      BY <1>3, <2>1, <3>1, Finite, AcceptAssumption DEF QuotaInv, AgentRoom
  <2>4. QED
    BY <2>2, <2>3
<1>6. Cardinality(PastGlobal') <= Cardinality(PastGlobal)
      /\ Cardinality(PastGlobal') \in Nat /\ Cardinality(PastGlobal) \in Nat
      /\ Cardinality(rows \ old) \in Nat
  BY <1>3, Smaller, Finite, Sets
<1>7. GlobalRoom'
  BY <1>3, <1>6, Finite, AcceptAssumption DEF QuotaInv, GlobalRoom
<1>8. QED
  BY <1>5, <1>7 DEF QuotaInv, AgentRoom

LEMMA PassesGlobal ==
  ASSUME AnswerInv, AnswerInv', QuotaInv, NEW r \in Req, UNCHANGED <<rows, old>>,
         req[r].pc = "global", Goto(r, "insert"), countAll(r) < GlobalDailyQuota
  PROVE  QuotaInv'
<1>1. PICK v \in Request : req' = [req EXCEPT ![r] = v] /\ v.pc = "insert"
                           /\ v.decl = decl(r)
  BY GotoIs DEF PC
<1>2. \A a : decl(r).agent = a => r \in PastAgent(a)
  BY DEF PastAgent
<1>3. (\A a : PastAgent(a)' \in SUBSET PastAgent(a)) /\ \A a : Recent(a)' = Recent(a)
  <2>1. \A a : PastAgent(a)' \in SUBSET PastAgent(a)
    BY <1>1, <1>2, Moved
  <2>2. QED
    BY <2>1 DEF Recent
<1>4. \A a : /\ Cardinality(PastAgent(a)') <= Cardinality(PastAgent(a))
             /\ Cardinality(PastAgent(a)') \in Nat /\ Cardinality(PastAgent(a)) \in Nat
             /\ Cardinality(Recent(a)) \in Nat
  BY <1>3, Smaller, Finite, Sets
<1>5. AgentRoom'
  BY <1>3, <1>4, Finite, AcceptAssumption DEF QuotaInv, AgentRoom
<1>6. rows \ old \in SUBSET (rows \ req[r].old)
      /\ rows \ req[r].old \in SUBSET Declaration
  BY DEF AnswerInv, GoodReq
<1>7. Cardinality(rows \ old) <= Cardinality(rows \ req[r].old)
      /\ Cardinality(rows \ old) \in Nat /\ Cardinality(rows \ req[r].old) \in Nat
  BY <1>6, Smaller, Finite, Sets
<1>8. Cardinality(rows \ req[r].old) < GlobalDailyQuota
  BY DEF countAll
<1>9. Cardinality(PastGlobal') \in Nat /\ Cardinality(PastGlobal') <= Cardinality(Req)
  BY Finite, SetsNext
<1>10. GlobalRoom'
  BY <1>7, <1>8, <1>9, Finite, AcceptAssumption DEF GlobalRoom
<1>11. QED
  BY <1>5, <1>10 DEF QuotaInv

LEMMA QuotaStep == AnswerInv /\ AnswerInv' /\ QuotaInv /\ [Next]_vars => QuotaInv'
<1> SUFFICES ASSUME AnswerInv, AnswerInv', QuotaInv, [Next]_vars PROVE QuotaInv'
  OBVIOUS
<1>1. CASE UNCHANGED vars
  BY <1>1 DEF vars, QuotaInv, AgentRoom, GlobalRoom, Recent, PastAgent, PastGlobal, decl
<1>2. ASSUME NEW d \in Declaration, Ages(d) PROVE QuotaInv'
  <2>1. (rows \ old)' \subseteq rows \ old /\ req' = req
    BY <1>2 DEF Ages
  <2>2. PastGlobal' \subseteq PastGlobal /\ \A a : PastAgent(a)' \subseteq PastAgent(a)
    BY <2>1 DEF PastAgent, PastGlobal, decl
  <2>3. QED
    BY <2>1, <2>2, NothingGrows
<1>3. ASSUME NEW r \in Req, NEW d \in Declaration, Submit(r, d) PROVE QuotaInv'
  <2> DEFINE v == [pc |-> "lookup", decl |-> d, old |-> old, known |-> d \in rows,
                   answer |-> "none"]
  <2>1. v \in Request /\ v.pc = "lookup"
    BY DEF AnswerInv, Request, PC, Answer
  <2>2. req' = [req EXCEPT ![r] = v] /\ UNCHANGED <<rows, old>>
    BY <1>3 DEF Submit
  <2> HIDE DEF v
  <2>3. QED
    BY <2>1, <2>2, Leaves
<1>4. ASSUME NEW r \in Req, NEW a \in Answer, Reply(r, a), UNCHANGED <<rows, old>>
      PROVE  QuotaInv'
  <2>1. PICK v \in Request : req' = [req EXCEPT ![r] = v] /\ v.pc = "done"
    BY <1>4, ReplyIs
  <2>2. QED
    BY <1>4, <2>1, Leaves
<1>5. ASSUME NEW r \in Req, NEW pc \in {"agent", "conflict"}, Goto(r, pc),
             UNCHANGED <<rows, old>>
      PROVE  QuotaInv'
  <2>1. PICK v \in Request : req' = [req EXCEPT ![r] = v] /\ v.pc = pc
    BY <1>5, GotoIs DEF PC
  <2>2. QED
    BY <1>5, <2>1, Leaves
<1>6. ASSUME NEW r \in Req, RequestStep(r) PROVE QuotaInv'
  <2>1. CASE Lookup(r)
    BY <1>4, <1>5, <2>1 DEF Lookup, Answer
  <2>2. CASE CheckAgentQuota(r)
    <3>1. req[r].pc = "agent" /\ UNCHANGED <<rows, old>>
      BY <2>2 DEF CheckAgentQuota, At
    <3>2. CASE Reply(r, "over_agent_quota")
      BY <1>4, <3>1, <3>2 DEF Answer
    <3>3. CASE Goto(r, "global") /\ ~(countAgent(r) >= AgentDailyQuota)
      <4>1. countAgent(r) \in Nat
        BY Finite DEF countAgent, AnswerInv
      <4>2. QED
        BY <3>1, <3>3, <4>1, PassesAgent, AcceptAssumption
    <3>4. QED
      BY <2>2, <3>2, <3>3 DEF CheckAgentQuota
  <2>3. CASE CheckGlobalQuota(r)
    <3>1. req[r].pc = "global" /\ UNCHANGED <<rows, old>>
      BY <2>3 DEF CheckGlobalQuota, At
    <3>2. CASE Reply(r, "over_global_quota")
      BY <1>4, <3>1, <3>2 DEF Answer
    <3>3. CASE Goto(r, "insert") /\ ~(countAll(r) >= GlobalDailyQuota)
      <4>1. countAll(r) \in Nat
        BY Finite DEF countAll, AnswerInv
      <4>2. QED
        BY <3>1, <3>3, <4>1, PassesGlobal, AcceptAssumption
    <3>4. QED
      BY <2>3, <3>2, <3>3 DEF CheckGlobalQuota
  <2>4. CASE insertDeclaration(r)
    <3>1. req[r].pc = "insert" /\ UNCHANGED old
      BY <2>4 DEF insertDeclaration, At
    <3>2. CASE rows' = rows \cup {decl(r)} /\ Goto(r, "enqueue")
      <4>1. PICK v \in Request : req' = [req EXCEPT ![r] = v] /\ v.pc = "enqueue"
        BY <3>2, GotoIs DEF PC
      <4>2. QED
        BY <3>1, <3>2, <4>1, InsertQuota
    <3>3. CASE UNCHANGED rows /\ Goto(r, "conflict")
      BY <1>5, <3>1, <3>3
    <3>4. QED
      BY <2>4, <3>2, <3>3 DEF insertDeclaration
  <2>5. CASE ResolveConflict(r)
    <3>1. UNCHANGED <<rows, old>>
          /\ (Reply(r, "duplicate") \/ Reply(r, "nonce_reused"))
      BY <2>5 DEF ResolveConflict
    <3>2. QED
      BY <1>4, <3>1 DEF Answer
  <2>6. CASE Enqueue(r)
    BY <1>4, <2>6 DEF Enqueue, Answer
  <2>7. CASE Fails(r)
    <3>1. Reply(r, "error") /\ UNCHANGED old
          /\ (rows' = rows \/ (req[r].pc = "insert" /\ rows' = rows \cup {decl(r)}))
      BY <2>7 DEF Fails, At
    <3>2. PICK v \in Request : req' = [req EXCEPT ![r] = v] /\ v.pc = "done"
      BY <3>1, ReplyIs DEF Answer
    <3>3. QED
      BY <3>1, <3>2, InsertQuota, Leaves
  <2>8. CASE Refuse(r) \/ Answered(r)
    <3> DEFINE v == [Blank EXCEPT !.pc = "done", !.answer = "refused"]
    <3>1. v \in Request /\ v.pc = "done" /\ Blank \in Request /\ Blank.pc = "idle"
      BY DEF Request, PC, Answer, Blank
    <3>2. UNCHANGED <<rows, old>>
          /\ (req' = [req EXCEPT ![r] = v] \/ req' = [req EXCEPT ![r] = Blank])
      BY <2>8 DEF Refuse, Answered
    <3> HIDE DEF v
    <3>3. QED
      BY <3>1, <3>2, Leaves
  <2>9. QED
    BY <1>6, <2>1, <2>2, <2>3, <2>4, <2>5, <2>6, <2>7, <2>8 DEF RequestStep
<1>7. QED
  BY <1>1, <1>2, <1>3, <1>6 DEF Next

\* Counting and inserting are two statements: however requests overlap, the
\* daily quotas of accept.ts are passed by fewer rows than there are requests.
THEOREM QuotasKept == Spec => []QuotasHold
<1>1. AnswerInv /\ QuotaInv => QuotasHold
  <2> SUFFICES ASSUME AnswerInv, QuotaInv PROVE QuotasHold
    OBVIOUS
  <2>1. ASSUME NEW a \in Agent
        PROVE  Cardinality({d \in rows \ old : d.agent = a})
                 <= AgentDailyQuota + Cardinality(Req) - 1
    <3>1. Cardinality(Recent(a)) \in Nat /\ Cardinality(PastAgent(a)) \in Nat
      BY Finite, Sets
    <3>2. Cardinality(Recent(a)) <= AgentDailyQuota + Cardinality(Req) - 1
      BY <3>1, Finite, AcceptAssumption DEF QuotaInv, AgentRoom
    <3>3. QED
      BY <3>2 DEF Recent
  <2>2. Cardinality(rows \ old) <= GlobalDailyQuota + Cardinality(Req) - 1
    <3>1. Cardinality(rows \ old) \in Nat /\ Cardinality(PastGlobal) \in Nat
      BY Finite, Sets
    <3>2. QED
      BY <3>1, Finite, AcceptAssumption DEF QuotaInv, GlobalRoom
  <2>3. QED
    BY <2>1, <2>2 DEF QuotasHold
<1>2. Init => AnswerInv /\ QuotaInv
  BY AnswerInit, QuotaInit
<1>3. AnswerInv /\ QuotaInv /\ [Next]_vars => (AnswerInv /\ QuotaInv)'
  BY AnswerStep, QuotaStep
<1>4. QED
  BY <1>1, <1>2, <1>3, PTL DEF Spec
=============================================================================
