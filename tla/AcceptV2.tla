------------------------------ MODULE AcceptV2 ------------------------------
(***************************************************************************)
(* Submission of rxm-pog-v2 declarations: acceptDeclaration of             *)
(* src/v2/accept.ts with insertDeclaration and countSince of               *)
(* src/v2/store.ts, as run by requests that overlap.                       *)
(*                                                                         *)
(* A request passes its checks (which read nothing shared), then makes one *)
(* statement after the other, each an await at which other requests go on: *)
(*                                                                         *)
(*   lookup   -> getByDigest                                               *)
(*   agent    -> countSince of the agent against agentDailyQuota           *)
(*   global   -> countSince of all against globalDailyQuota                *)
(*   insert   -> INSERT ... ON CONFLICT DO NOTHING                         *)
(*   conflict -> nothing was inserted: is it the same declaration?         *)
(*   enqueue  -> the row is created; deps.enqueue comes next               *)
(*   done     -> the request is answered                                   *)
(*                                                                         *)
(* A declaration is what its digest hashes; equal digests, equal           *)
(* declarations. What becomes of the row is AnchorV2's affair.             *)
(***************************************************************************)
EXTENDS Naturals, FiniteSets

CONSTANTS
  Agent,
  Declaration,       \* records with at least the fields agent and nonce
  NoDecl,
  Req,               \* requests in flight at a time
  AgentDailyQuota, GlobalDailyQuota

ASSUME AcceptAssumption ==
  /\ \A d \in Declaration : d.agent \in Agent
  /\ NoDecl \notin Declaration
  /\ IsFiniteSet(Declaration) /\ IsFiniteSet(Req) /\ Req # {}
  /\ AgentDailyQuota \in Nat /\ GlobalDailyQuota \in Nat

VARIABLES
  rows,    \* the declarations stored
  old,     \* those of them created more than 24 hours ago
  req      \* the requests

vars == <<rows, old, req>>

\* Answers: 202 created, 200 was there already, 429 over quota, 409 nonce used,
\* "refused" for the checks (400, 422, 503), "error" for 500 or no answer.
Answer == {"none", "created", "duplicate", "over_agent_quota",
           "over_global_quota", "nonce_reused", "refused", "error"}
PC     == {"idle", "lookup", "agent", "global", "insert", "conflict",
           "enqueue", "done"}

\* A request's since is fixed when it starts: the rows older than that are
\* those old then. known: whether its declaration was stored at that time.
Request == [pc : PC, decl : Declaration \cup {NoDecl}, old : SUBSET Declaration,
            known : BOOLEAN, answer : Answer]

Blank == [pc |-> "idle", decl |-> NoDecl, old |-> {}, known |-> FALSE,
          answer |-> "none"]

Init ==
  /\ rows = {} /\ old = {}
  /\ req = [r \in Req |-> Blank]
-----------------------------------------------------------------------------
Goto(r, pc) == req' = [req EXCEPT ![r].pc = pc]
Reply(r, a) ==
  req' = [req EXCEPT ![r] = [@ EXCEPT !.pc = "done", !.old = {}, !.answer = a]]

At(r, pc)     == req[r].pc = pc
decl(r)       == req[r].decl
SameNonce(d)  == {e \in rows : e.agent = d.agent /\ e.nonce = d.nonce}
countAgent(r) ==
  Cardinality({e \in rows \ req[r].old : e.agent = decl(r).agent})
countAll(r)   == Cardinality(rows \ req[r].old)

\* A submission arrives and passes every check on the body, the signature,
\* the metadata and the time; or it fails one.
Submit(r, d) ==
  /\ At(r, "idle")
  /\ req' = [req EXCEPT ![r] = [pc |-> "lookup", decl |-> d, old |-> old,
                                known |-> d \in rows, answer |-> "none"]]
  /\ UNCHANGED <<rows, old>>

Refuse(r) ==
  /\ At(r, "idle")
  /\ req' = [req EXCEPT ![r] = [Blank EXCEPT !.pc = "done", !.answer = "refused"]]
  /\ UNCHANGED <<rows, old>>

BadLookup(r) ==
  /\ At(r, "lookup")
  /\ Goto(r, "agent")
  /\ UNCHANGED <<rows, old>>
Lookup(r) ==
  /\ At(r, "lookup")
  /\ IF decl(r) \in rows THEN Reply(r, "duplicate") ELSE Goto(r, "agent")
  /\ UNCHANGED <<rows, old>>

BadCheckAgentQuota(r) ==
  /\ At(r, "agent")
  /\ IF countAgent(r) > AgentDailyQuota
       THEN Reply(r, "over_agent_quota") ELSE Goto(r, "global")
  /\ UNCHANGED <<rows, old>>
CheckAgentQuota(r) ==
  /\ At(r, "agent")
  /\ IF countAgent(r) >= AgentDailyQuota
       THEN Reply(r, "over_agent_quota") ELSE Goto(r, "global")
  /\ UNCHANGED <<rows, old>>

CheckGlobalQuota(r) ==
  /\ At(r, "global")
  /\ IF countAll(r) >= GlobalDailyQuota
       THEN Reply(r, "over_global_quota") ELSE Goto(r, "insert")
  /\ UNCHANGED <<rows, old>>

\* The unique digest and the unique (agent, nonce) decide.
BadInsertDeclaration(r) ==
  /\ At(r, "insert")
  /\ IF decl(r) \notin rows
       THEN rows' = rows \cup {decl(r)} /\ Goto(r, "enqueue")
       ELSE UNCHANGED rows /\ Goto(r, "conflict")
  /\ UNCHANGED old
insertDeclaration(r) ==
  /\ At(r, "insert")
  /\ IF SameNonce(decl(r)) = {}
       THEN rows' = rows \cup {decl(r)} /\ Goto(r, "enqueue")
       ELSE UNCHANGED rows /\ Goto(r, "conflict")
  /\ UNCHANGED old

BadResolveConflict(r) ==
  /\ At(r, "conflict")
  /\ Reply(r, "nonce_reused")
  /\ UNCHANGED <<rows, old>>
ResolveConflict(r) ==
  /\ At(r, "conflict")
  /\ Reply(r, IF decl(r) \in rows THEN "duplicate" ELSE "nonce_reused")
  /\ UNCHANGED <<rows, old>>

Enqueue(r) ==
  /\ At(r, "enqueue")
  /\ Reply(r, "created")
  /\ UNCHANGED <<rows, old>>

\* A statement or the enqueue throws, or the process dies; a statement that
\* throws may have been carried out.
Fails(r) ==
  /\ req[r].pc \notin {"idle", "done"}
  /\ Reply(r, "error")
  /\ \/ UNCHANGED rows
     \/ /\ At(r, "insert") /\ SameNonce(decl(r)) = {}
        /\ rows' = rows \cup {decl(r)}
  /\ UNCHANGED old

\* The agent has its answer; it may submit again.
Answered(r) ==
  /\ At(r, "done")
  /\ req' = [req EXCEPT ![r] = Blank]
  /\ UNCHANGED <<rows, old>>

\* Time goes on: a row leaves the 24 hours.
Ages(d) ==
  /\ d \in rows \ old
  /\ old' = old \cup {d}
  /\ UNCHANGED <<rows, req>>

RequestStep(r) ==
  \/ Lookup(r) \/ CheckAgentQuota(r) \/ CheckGlobalQuota(r)
  \/ insertDeclaration(r) \/ ResolveConflict(r) \/ Enqueue(r)
  \/ Refuse(r) \/ Fails(r) \/ Answered(r)

Next ==
  \/ \E r \in Req : RequestStep(r) \/ \E d \in Declaration : Submit(r, d)
  \/ \E d \in Declaration : Ages(d)

Spec == Init /\ [][Next]_vars
-----------------------------------------------------------------------------
\* The tables and the requests are well formed; an agent's nonce is in one row.
TypeOK ==
  /\ rows \subseteq Declaration
  /\ \A d \in rows : SameNonce(d) = {d}
  /\ old \subseteq rows
  /\ req \in [Req -> Request]

\* Every answer is true of the table, however requests overlap:
\* "created" goes to one request for a
\* declaration, "duplicate" means it is stored, and "nonce_reused" that another
\* declaration holds the nonce, never the agent's own retry.
AnswersAreTrue ==
  /\ \A r \in Req : At(r, "done") =>
       /\ req[r].answer \in {"created", "duplicate"} => decl(r) \in rows
       /\ req[r].answer = "nonce_reused" =>
            decl(r) \notin rows /\ SameNonce(decl(r)) # {}
  /\ \A r, s \in Req :
       /\ req[r].answer = "created" /\ req[s].answer = "created"
       /\ decl(r) = decl(s)
       => r = s

\* Submitting again what is stored is idempotent ("same digest = idempotent
\* re-submission", store.ts:18): it is never answered with a quota or a nonce
\* error, even when the row itself has used the quota up.
ResubmissionIsIdempotent ==
  \A r \in Req : At(r, "done") /\ req[r].known =>
    req[r].answer \in {"duplicate", "error"}

\* "Abuse is bounded by quotas" (schema.ts:275): counting and inserting are two
\* statements, so the quotas can be passed, but only by requests that overlap.
QuotasHold ==
  LET recent == rows \ old IN
  /\ \A a \in Agent : Cardinality({d \in recent : d.agent = a})
                        <= AgentDailyQuota + Cardinality(Req) - 1
  /\ Cardinality(recent) <= GlobalDailyQuota + Cardinality(Req) - 1
=============================================================================
