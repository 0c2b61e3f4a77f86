--------------------------- MODULE AnchorV1Proofs ---------------------------
(***************************************************************************)
(* Proofs about AnchorV1, and of what agents are told of it (WaitV1), for  *)
(* any records, workers, transactions, faults, and number of attempts (two *)
(* at least for SettledFinal and AnswersKept).                             *)
(***************************************************************************)
EXTENDS WaitV1, TLAPS

\* A run past its claim, and until its record is marked, is the only one that
\* may send or mark the record's transaction.
Carrying == {"send", "wait", "mark"}
Carries(w) == run[w].pc \in Carrying

GoodRun == {v \in Run : /\ v.pc # "idle" => v.rec \in Record
                        /\ v.pc \in {"wait", "mark"} => v.tx \in Tx}

TypeInv ==
  /\ row \in [Record -> Row]
  /\ run \in [Worker -> GoodRun]
  /\ sent \in [Tx -> Record \cup {NoRecord}]
  /\ mined \subseteq Tx
  /\ sends \in [Record -> Nat]
  /\ told \in [Record -> SUBSET Event]

Unclaimed(r) == row[r].state \in {"absent", "pending_anchor"}

SendInv ==
  /\ \A w \in Worker : Carries(w) => ~Unclaimed(rec(w))
  /\ \A v, w \in Worker : Carries(v) /\ Carries(w) /\ rec(v) = rec(w) => v = w
  /\ \A r \in Record : Unclaimed(r) => sends[r] = 0 /\ row[r].tx = NoTx
  /\ \A r \in Record : sends[r] <= 1
  /\ \A w \in Worker : At(w, "send") =>
       sends[rec(w)] = 0 /\ row[rec(w)].tx = NoTx

ChainInv ==
  /\ \A w \in Worker : run[w].pc \in {"wait", "mark"} =>
       sent[run[w].tx] = rec(w)
  /\ \A w \in Worker : At(w, "mark") => run[w].tx \in mined
  /\ \A r \in Record : row[r].tx # NoTx =>
       sent[row[r].tx] = r /\ row[r].tx \in mined
  /\ \A r \in Record : row[r].state = "anchored" \/ "anchored" \in told[r] =>
       row[r].tx # NoTx

IInv == TypeInv /\ SendInv /\ ChainInv
-----------------------------------------------------------------------------
(***************************************************************************)
(* Runs: what the steps make of them.                                      *)
(***************************************************************************)
LEMMA IdleGood == Idle \in GoodRun
BY DEF Idle, GoodRun, Run, PC

LEMMA GotoGood ==
  ASSUME NEW w \in Worker, NEW pc \in PC, run \in [Worker -> GoodRun],
         run[w].pc # "idle", pc \in {"wait", "mark"} => run[w].tx \in Tx,
         Goto(w, pc)
  PROVE  run' \in [Worker -> GoodRun]
<1>1. [run[w] EXCEPT !.pc = pc] \in GoodRun
  BY DEF GoodRun, Run
<1>2. QED
  BY <1>1 DEF Goto

LEMMA FailedPC == \A r : [Idle EXCEPT !.pc = "failed", !.rec = r].pc = "failed"
BY DEF Idle

\* What a step does to the pc, the record and the transaction of every run.
LEMMA GotoRuns ==
  ASSUME NEW w \in Worker, NEW pc \in PC, run \in [Worker -> GoodRun],
         Goto(w, pc)
  PROVE  /\ run'[w].pc = pc /\ run'[w].rec = run[w].rec /\ run'[w].tx = run[w].tx
         /\ \A v \in Worker \ {w} : run'[v] = run[v]
BY DEF Goto, GoodRun, Run

LEMMA InitInv == Init => IInv
<1> SUFFICES ASSUME Init PROVE IInv
  OBVIOUS
<1>1. TypeInv
  BY IdleGood DEF Init, TypeInv, Row, State, Event
<1>2. SendInv
  BY DEF Init, SendInv, Carries, Carrying, Idle, At, Unclaimed
<1>3. ChainInv
  BY DEF Init, ChainInv, Idle, At
<1>4. QED
  BY <1>1, <1>2, <1>3 DEF IInv

LEMMA TypeStep == TypeInv /\ [Next]_vars => TypeInv'
<1> SUFFICES ASSUME TypeInv, [Next]_vars PROVE TypeInv'
  OBVIOUS
<1> USE DEF TypeInv
<1>1. ASSUME NEW w \in Worker, NEW r \in Record, Take(w, r) PROVE TypeInv'
  <2>1. /\ [pc |-> "read", rec |-> r, tx |-> NoTx, locked |-> TRUE] \in GoodRun
        /\ [Idle EXCEPT !.pc = "failed", !.rec = r] \in GoodRun
    BY DEF GoodRun, Run, PC, Idle
  <2>2. run' \in [Worker -> GoodRun]
    BY <1>1, <2>1 DEF Take
  <2>3. QED
    BY <1>1, <2>2 DEF Take
<1>2. ASSUME NEW w \in Worker, Read(w) PROVE TypeInv'
  <2>1. row[rec(w)].tx \in Tx \cup {NoTx}
    BY <1>2 DEF Read, At, rec, GoodRun, Row
  <2>2. [run[w] EXCEPT !.pc = "claim", !.tx = row[rec(w)].tx] \in GoodRun
    BY <1>2, <2>1 DEF Read, At, GoodRun, Run, PC
  <2>3. run' \in [Worker -> GoodRun]
    BY <1>2, <2>2, GotoGood DEF Read, At, Throws, PC
  <2>4. QED
    BY <1>2, <2>3 DEF Read
<1>3. ASSUME NEW w \in Worker, Claim(w) PROVE TypeInv'
  <2>1. rec(w) \in Record
    BY <1>3 DEF Claim, At, rec, GoodRun
  <2>2. [row[rec(w)] EXCEPT !.state = "anchoring"] \in Row
    BY <2>1 DEF Row, State
  <2>3. row' \in [Record -> Row]
    BY <1>3, <2>1, <2>2 DEF Claim
  <2>4. run' \in [Worker -> GoodRun]
    BY <1>3, GotoGood DEF Claim, At, Throws, PC
  <2>5. QED
    BY <1>3, <2>3, <2>4 DEF Claim
<1>4. ASSUME NEW w \in Worker, Send(w) PROVE TypeInv'
  <2>1. rec(w) \in Record /\ run[w].pc # "idle"
    BY <1>4 DEF Send, At, rec, GoodRun
  <2>2. sends' \in [Record -> Nat]
    BY <1>4, <2>1 DEF Send
  <2>3. ASSUME NEW t \in Tx
        PROVE [run[w] EXCEPT !.pc = "wait", !.tx = t] \in GoodRun
    BY <2>1 DEF GoodRun, Run, PC, rec
  <2>4. run' \in [Worker -> GoodRun]
    BY <1>4, <2>1, <2>3, GotoGood DEF Send, Throws, PC
  <2>5. sent' \in [Tx -> Record \cup {NoRecord}]
    BY <1>4, <2>1 DEF Send
  <2>6. QED
    BY <1>4, <2>2, <2>4, <2>5 DEF Send
<1>5. ASSUME NEW w \in Worker, AwaitReceipt(w) PROVE TypeInv'
  <2>1. run' \in [Worker -> GoodRun]
    BY <1>5, GotoGood DEF AwaitReceipt, At, Throws, PC, GoodRun
  <2>2. QED
    BY <1>5, <2>1 DEF AwaitReceipt
<1>6. ASSUME NEW w \in Worker, MarkAnchored(w) PROVE TypeInv'
  <2>1. rec(w) \in Record /\ run[w].tx \in Tx /\ run[w].pc # "idle"
    BY <1>6 DEF MarkAnchored, At, rec, GoodRun
  <2>2. [state |-> "anchored", tx |-> run[w].tx] \in Row
    BY <2>1 DEF Row, State
  <2>3. row' \in [Record -> Row]
    BY <1>6, <2>1, <2>2 DEF MarkAnchored
  <2>4. told' \in [Record -> SUBSET Event]
    BY <1>6, <2>1 DEF MarkAnchored, Dispatch, Event
  <2>5. run' \in [Worker -> GoodRun]
    BY <1>6, <2>1, GotoGood DEF MarkAnchored, Throws, PC
  <2>6. QED
    BY <1>6, <2>3, <2>4, <2>5 DEF MarkAnchored
<1>7. ASSUME NEW w \in Worker, Return(w) \/ Throw(w) PROVE TypeInv'
  <2>1. /\ run[w].pc # "idle" /\ rec(w) \in Record
    BY <1>7 DEF Return, Throw, At, rec, GoodRun
  <2>2. [Idle EXCEPT !.pc = "failed", !.rec = rec(w)] \in GoodRun
    BY <2>1 DEF GoodRun, Run, PC, Idle
  <2>3. run' \in [Worker -> GoodRun]
    BY <1>7, <2>2, IdleGood DEF Return, Throw
  <2>4. QED
    BY <1>7, <2>3 DEF Return, Throw
<1>8. ASSUME NEW w \in Worker, MarkAnchorFailed(w) PROVE TypeInv'
  <2>1. rec(w) \in Record
    BY <1>8 DEF MarkAnchorFailed, At, rec, GoodRun
  <2>2. [row[rec(w)] EXCEPT !.state = "anchor_failed"] \in Row
    BY <2>1 DEF Row, State
  <2>3. row' \in [Record -> Row] /\ told' \in [Record -> SUBSET Event]
    BY <1>8, <2>1, <2>2 DEF MarkAnchorFailed, Dispatch, Event
  <2>4. QED
    BY <1>8, <2>3, IdleGood DEF MarkAnchorFailed
<1>9. ASSUME NEW w \in Worker, Crash(w) PROVE TypeInv'
  BY <1>9, IdleGood DEF Crash
<1>10. ASSUME NEW r \in Record, Create(r) PROVE TypeInv'
  <2>1. [row[r] EXCEPT !.state = "pending_anchor"] \in Row
    BY DEF Row, State
  <2>2. QED
    BY <1>10, <2>1 DEF Create
<1>11. ASSUME NEW r \in Record, Stalled(r) PROVE TypeInv'
  <2>1. \A w \in Worker : [run[w] EXCEPT !.locked = FALSE] \in GoodRun
    BY DEF GoodRun, Run
  <2>2. QED
    BY <1>11, <2>1 DEF Stalled
<1>12. ASSUME NEW t \in Tx, Mine(t) PROVE TypeInv'
  BY <1>12 DEF Mine
<1>13. CASE UNCHANGED vars
  BY <1>13 DEF vars
<1>14. QED
  BY <1>1, <1>2, <1>3, <1>4, <1>5, <1>6, <1>7, <1>8, <1>9, <1>10, <1>11,
     <1>12, <1>13 DEF Next, WorkerStep
-----------------------------------------------------------------------------
(***************************************************************************)
(* A step at which no run begins to carry, no record becomes unclaimed and *)
(* no record is sent or given a transaction another run may send.          *)
(***************************************************************************)
LEMMA SendFrame ==
  ASSUME TypeInv, SendInv, sends' = sends,
         \A v \in Worker : run'[v].pc \in Carrying =>
           /\ run[v].pc \in Carrying /\ run'[v].rec = run[v].rec
           /\ run'[v].pc = "send" => run[v].pc = "send",
         \A r \in Record : row'[r].state \in {"absent", "pending_anchor"} =>
           Unclaimed(r) /\ row'[r].tx = row[r].tx,
         \A v \in Worker : run'[v].pc = "send" =>
           row'[run[v].rec].tx = row[run[v].rec].tx
  PROVE  SendInv'
<1>1. \A v \in Worker : run'[v].pc = "send" => run'[v].pc \in Carrying
  BY DEF Carrying
<1>2. \A v \in Worker : run[v].pc \in Carrying => run[v].rec \in Record
  BY DEF TypeInv, GoodRun, Carrying
<1>3. \A v \in Worker : run'[v].pc \in Carrying =>
        row'[run'[v].rec].state \notin {"absent", "pending_anchor"}
  BY <1>2 DEF SendInv, Carries, rec, Unclaimed
<1>4. QED
  BY <1>1, <1>2, <1>3 DEF SendInv, Carries, rec, At, Unclaimed

LEMMA SendStep == TypeInv /\ SendInv /\ [Next]_vars => SendInv'
<1> SUFFICES ASSUME TypeInv, SendInv, [Next]_vars PROVE SendInv'
  OBVIOUS
<1>1. ASSUME NEW w \in Worker, NEW r \in Record, Take(w, r) PROVE SendInv'
  <2>1. \A v \in Worker : run'[v] = run[v] \/ run'[v].pc \in {"read", "failed"}
    <3>1. CASE run' = [run EXCEPT ![w] =
                 [pc |-> "read", rec |-> r, tx |-> NoTx, locked |-> TRUE]]
      BY <3>1 DEF TypeInv
    <3>2. CASE run' = run
      BY <3>2
    <3>3. CASE run' = [run EXCEPT ![w] = [Idle EXCEPT !.pc = "failed", !.rec = r]]
      BY <3>3, FailedPC DEF TypeInv
    <3>4. QED
      BY <1>1, <3>1, <3>2, <3>3 DEF Take
  <2>2. row' = row /\ sends' = sends
    BY <1>1 DEF Take
  <2>3. QED
    BY <2>1, <2>2, SendFrame DEF Carrying, Unclaimed
<1>2. ASSUME NEW w \in Worker, Read(w) PROVE SendInv'
  <2>1. \A v \in Worker :
          run'[v] = run[v] \/ run'[v].pc \in {"claim", "return", "throw"}
    BY <1>2 DEF Read, Goto, Throws, TypeInv, GoodRun, Run
  <2>2. row' = row /\ sends' = sends
    BY <1>2 DEF Read
  <2>3. QED
    BY <2>1, <2>2, SendFrame DEF Carrying, Unclaimed
<1>3. ASSUME NEW w \in Worker, Claim(w) PROVE SendInv'
  <2>1. rec(w) \in Record /\ run[w].pc \notin Carrying
    BY <1>3 DEF Claim, At, rec, GoodRun, TypeInv, Carrying
  <2>2. CASE UNCHANGED row
    <3>1. row[rec(w)].state = "pending_anchor" =>
            row' # [row EXCEPT ![rec(w)].state = "anchoring"]
      BY <2>1, <2>2 DEF TypeInv, Row
    <3>2. Goto(w, "return") \/ Goto(w, "throw")
      BY <1>3, <3>1 DEF Claim, Throws
    <3>3. \A v \in Worker : run'[v] = run[v] \/ run'[v].pc \in {"return", "throw"}
      BY <3>2 DEF Goto, TypeInv, GoodRun, Run
    <3>4. sends' = sends
      BY <1>3 DEF Claim
    <3>5. QED
      BY <2>2, <3>3, <3>4, SendFrame DEF Carrying, Unclaimed
  <2>3. CASE /\ row[rec(w)].state = "pending_anchor"
             /\ row' = [row EXCEPT ![rec(w)].state = "anchoring"]
             /\ Throws(w)
    BY <1>3, <2>1, <2>3, SendFrame
    DEF Claim, Goto, Throws, Carrying, Unclaimed, TypeInv, Row
  <2>4. CASE /\ row[rec(w)].state = "pending_anchor"
             /\ row' = [row EXCEPT ![rec(w)].state = "anchoring"]
             /\ Goto(w, "send")
    <3>1. /\ sends[rec(w)] = 0 /\ row[rec(w)].tx = NoTx
          /\ \A v \in Worker : run[v].pc \in Carrying => rec(v) # rec(w)
      BY <2>1, <2>4 DEF SendInv, Carries, Unclaimed
    <3>2. /\ \A r \in Record : r # rec(w) => row'[r] = row[r]
          /\ row'[rec(w)].state = "anchoring" /\ row'[rec(w)].tx = NoTx
      BY <2>1, <2>4, <3>1 DEF TypeInv, Row
    <3>3. /\ run'[w].pc = "send" /\ run'[w].rec = run[w].rec
          /\ \A v \in Worker \ {w} : run'[v] = run[v]
      BY <2>4, GotoRuns DEF TypeInv, PC
    <3>4. sends' = sends
      BY <1>3 DEF Claim
    <3>5. \A v \in Worker : run[v].pc \in Carrying => run[v].rec \in Record
      BY DEF TypeInv, GoodRun, Carrying
    <3>6. "send" \in Carrying /\ "anchoring" \notin {"absent", "pending_anchor"}
      BY DEF Carrying
    <3>7. QED
      BY <2>1, <3>1, <3>2, <3>3, <3>4, <3>5, <3>6
      DEF SendInv, Carries, rec, At, Unclaimed
  <2>5. QED
    BY <1>3, <2>2, <2>3, <2>4 DEF Claim
<1>4. ASSUME NEW w \in Worker, Send(w) PROVE SendInv'
  <2>1. /\ run[w].pc = "send" /\ run[w].pc \in Carrying /\ rec(w) \in Record
    BY <1>4 DEF Send, At, rec, GoodRun, TypeInv, Carrying
  <2>2. /\ sends[rec(w)] = 0 /\ ~Unclaimed(rec(w))
        /\ \A v \in Worker \ {w} : run[v].pc \in Carrying => rec(v) # rec(w)
    BY <2>1 DEF SendInv, Carries, At
  <2>3. /\ row' = row
        /\ sends'[rec(w)] = 1 /\ \A r \in Record : r # rec(w) => sends'[r] = sends[r]
    BY <1>4, <2>1, <2>2 DEF Send, TypeInv
  <2>4. /\ run'[w].pc # "send" /\ run'[w].rec = run[w].rec
        /\ \A v \in Worker \ {w} : run'[v] = run[v]
    BY <1>4 DEF Send, Throws, Goto, TypeInv, GoodRun, Run
  <2>5. \A v \in Worker : run[v].pc \in Carrying => run[v].rec \in Record
    BY DEF TypeInv, GoodRun, Carrying
  <2>6. "send" \in Carrying
    BY DEF Carrying
  <2>7. QED
    BY <2>1, <2>2, <2>3, <2>4, <2>5, <2>6
    DEF SendInv, Carries, rec, At, Unclaimed
<1>5. ASSUME NEW w \in Worker, AwaitReceipt(w) PROVE SendInv'
  BY <1>5, SendFrame
  DEF AwaitReceipt, Goto, Throws, At, Carrying, Unclaimed, TypeInv, GoodRun, Run
<1>6. ASSUME NEW w \in Worker, MarkAnchored(w) PROVE SendInv'
  <2>1. /\ run[w].pc = "mark" /\ run[w].pc \in Carrying /\ rec(w) \in Record
        /\ sends' = sends
    BY <1>6 DEF MarkAnchored, At, rec, GoodRun, TypeInv, Carrying
  <2>2. \A v \in Worker \ {w} : run[v].pc \in Carrying => rec(v) # rec(w)
    BY <2>1 DEF SendInv, Carries
  <2>3. /\ run'[w].pc \notin Carrying
        /\ \A v \in Worker \ {w} : run'[v] = run[v]
    BY <1>6 DEF MarkAnchored, Throws, Goto, TypeInv, GoodRun, Run, Carrying
  <2>4. /\ \A r \in Record : r # rec(w) => row'[r] = row[r]
        /\ row'[rec(w)].state = "anchored" \/ row'[rec(w)] = row[rec(w)]
    BY <1>6, <2>1 DEF MarkAnchored, TypeInv
  <2>5. \A v \in Worker : run'[v].pc = "send" =>
          v # w /\ run[v].pc \in Carrying /\ run[v].rec \in Record
    BY <2>3 DEF Carrying, TypeInv, GoodRun
  <2>6. QED
    BY <2>1, <2>2, <2>3, <2>4, <2>5, SendFrame DEF Unclaimed, rec
<1>7. ASSUME NEW w \in Worker, Return(w) \/ Throw(w) PROVE SendInv'
  <2>1. \A v \in Worker : run'[v] = run[v] \/ run'[v].pc \in {"idle", "failed"}
    <3>1. CASE run' = [run EXCEPT ![w] = Idle]
      BY <3>1 DEF Idle, TypeInv
    <3>2. CASE run' = [run EXCEPT ![w] =
                 [Idle EXCEPT !.pc = "failed", !.rec = rec(w)]]
      BY <3>2, FailedPC DEF TypeInv
    <3>3. QED
      BY <1>7, <3>1, <3>2 DEF Return, Throw
  <2>2. row' = row /\ sends' = sends
    BY <1>7 DEF Return, Throw
  <2>3. QED
    BY <2>1, <2>2, SendFrame DEF Carrying, Unclaimed
<1>8. ASSUME NEW w \in Worker, MarkAnchorFailed(w) PROVE SendInv'
  <2>1. rec(w) \in Record
    BY <1>8 DEF MarkAnchorFailed, At, rec, GoodRun, TypeInv
  <2>2. \A r \in Record :
          /\ row'[r].tx = row[r].tx
          /\ row'[r].state = "anchor_failed" \/ row'[r] = row[r]
    BY <1>8, <2>1 DEF MarkAnchorFailed, TypeInv, Row
  <2>3. \A v \in Worker : run'[v] = run[v] \/ run'[v] = Idle
    BY <1>8 DEF MarkAnchorFailed, TypeInv
  <2>4. \A v \in Worker : run'[v].pc = "send" => run[v].rec \in Record
    BY <2>3 DEF Idle, TypeInv, GoodRun
  <2>5. sends' = sends
    BY <1>8 DEF MarkAnchorFailed
  <2>6. QED
    BY <2>2, <2>3, <2>4, <2>5, SendFrame DEF Idle, Carrying, Unclaimed
<1>9. ASSUME NEW w \in Worker, Crash(w) PROVE SendInv'
  BY <1>9, SendFrame DEF Crash, Carrying, Idle, Unclaimed, TypeInv
<1>10. ASSUME NEW r \in Record, Create(r) PROVE SendInv'
  <2>1. Unclaimed(r)
    BY <1>10 DEF Create, Unclaimed
  <2>2. /\ \A q \in Record \ {r} : row'[q] = row[q]
        /\ row'[r].tx = row[r].tx
    BY <1>10 DEF Create, TypeInv, Row
  <2>3. \A v \in Worker : run[v].pc = "send" => run[v].rec \in Record
    BY DEF TypeInv, GoodRun
  <2>4. run' = run /\ sends' = sends
    BY <1>10 DEF Create
  <2>5. \A q \in Record : row'[q].state \in {"absent", "pending_anchor"} =>
          Unclaimed(q) /\ row'[q].tx = row[q].tx
    BY <2>1, <2>2 DEF Unclaimed
  <2>6. \A v \in Worker : run'[v].pc = "send" =>
          row'[run[v].rec].tx = row[run[v].rec].tx
    BY <2>2, <2>3, <2>4
  <2>7. QED
    BY <2>4, <2>5, <2>6, SendFrame
<1>11. ASSUME NEW r \in Record, Stalled(r) PROVE SendInv'
  <2>1. \A v \in Worker : run'[v].pc = run[v].pc /\ run'[v].rec = run[v].rec
    BY <1>11 DEF Stalled, TypeInv, GoodRun, Run
  <2>2. QED
    BY <1>11, <2>1, SendFrame DEF Stalled, Unclaimed
<1>12. ASSUME NEW t \in Tx, Mine(t) PROVE SendInv'
  BY <1>12, SendFrame DEF Mine, Unclaimed
<1>13. CASE UNCHANGED vars
  BY <1>13, SendFrame DEF vars, Unclaimed
<1>14. QED
  BY <1>1, <1>2, <1>3, <1>4, <1>5, <1>6, <1>7, <1>8, <1>9, <1>10, <1>11,
     <1>12, <1>13 DEF Next, WorkerStep
-----------------------------------------------------------------------------
(***************************************************************************)
(* The chain. No step but these four touches what ChainInv is about: the   *)
(* others leave the rows' transactions, the events told and the chain, and *)
(* have no run wait or mark that did not before.                           *)
(***************************************************************************)
LEMMA ChainFrame ==
  ASSUME TypeInv, ChainInv, sent' = sent, mined \subseteq mined',
         \A v \in Worker : run'[v].pc \in {"wait", "mark"} =>
           /\ run[v].pc \in {"wait", "mark"}
           /\ run'[v].rec = run[v].rec /\ run'[v].tx = run[v].tx
           /\ run'[v].pc = "mark" => run[v].pc = "mark" \/ run[v].tx \in mined,
         \A r \in Record :
           /\ row'[r].tx = row[r].tx
           /\ row'[r].state = "anchored" => row[r].state = "anchored"
           /\ "anchored" \in told'[r] => "anchored" \in told[r]
  PROVE  ChainInv'
<1>1. \A v \in Worker : run'[v].pc = "mark" => run'[v].pc \in {"wait", "mark"}
  OBVIOUS
<1>2. \A v \in Worker : run[v].pc \in {"wait", "mark"} => run[v].rec \in Record
  BY DEF TypeInv, GoodRun
<1>3. QED
  BY <1>1, <1>2 DEF ChainInv, rec, At

LEMMA ChainStep == IInv /\ [Next]_vars => ChainInv'
<1> SUFFICES ASSUME TypeInv, SendInv, ChainInv, [Next]_vars PROVE ChainInv'
  BY DEF IInv
<1>1. ASSUME NEW w \in Worker, NEW r \in Record, Take(w, r) PROVE ChainInv'
  <2>1. \A v \in Worker : run'[v] = run[v] \/ run'[v].pc \in {"read", "failed"}
    <3>1. CASE run' = [run EXCEPT ![w] =
                 [pc |-> "read", rec |-> r, tx |-> NoTx, locked |-> TRUE]]
      BY <3>1 DEF TypeInv
    <3>2. CASE run' = run
      BY <3>2
    <3>3. CASE run' = [run EXCEPT ![w] = [Idle EXCEPT !.pc = "failed", !.rec = r]]
      BY <3>3, FailedPC DEF TypeInv
    <3>4. QED
      BY <1>1, <3>1, <3>2, <3>3 DEF Take
  <2>2. UNCHANGED <<row, sent, mined, told>>
    BY <1>1 DEF Take
  <2>3. QED
    BY <2>1, <2>2, ChainFrame
<1>2. ASSUME NEW w \in Worker, Read(w) PROVE ChainInv'
  <2>1. \A v \in Worker :
          run'[v] = run[v] \/ run'[v].pc \in {"claim", "return", "throw"}
    BY <1>2 DEF Read, Goto, Throws, TypeInv, GoodRun, Run
  <2>2. UNCHANGED <<row, sent, mined, told>>
    BY <1>2 DEF Read
  <2>3. QED
    BY <2>1, <2>2, ChainFrame
<1>3. ASSUME NEW w \in Worker, Claim(w) PROVE ChainInv'
  <2>1. \A v \in Worker :
          run'[v] = run[v] \/ run'[v].pc \in {"send", "return", "throw"}
    BY <1>3 DEF Claim, Goto, Throws, TypeInv, GoodRun, Run
  <2>2. rec(w) \in Record /\ UNCHANGED <<sent, mined, told>>
    BY <1>3 DEF Claim, At, rec, GoodRun, TypeInv
  <2>3. \A r \in Record :
          /\ row'[r].tx = row[r].tx
          /\ row'[r].state = "anchoring" \/ row'[r] = row[r]
    BY <1>3, <2>2 DEF Claim, TypeInv, Row
  <2>4. QED
    BY <2>1, <2>2, <2>3, ChainFrame
<1>4. ASSUME NEW w \in Worker, Send(w) PROVE ChainInv'
  <2>1. rec(w) \in Record /\ UNCHANGED <<row, mined, told>>
    BY <1>4 DEF Send, At, rec, GoodRun, TypeInv
  <2>2. \A v \in Worker \ {w} : run'[v] = run[v]
    BY <1>4 DEF Send, Goto, Throws, TypeInv
  <2>3. \A t \in Tx : sent[t] # NoRecord => sent'[t] = sent[t]
    BY <1>4 DEF Send, TypeInv
  <2>4. \/ run'[w].pc = "throw"
        \/ /\ run'[w].pc = "wait" /\ run'[w].rec = run[w].rec
           /\ sent'[run'[w].tx] = rec(w)
    BY <1>4 DEF Send, Goto, Throws, TypeInv, GoodRun, Run
  <2>5. \A v \in Worker : run[v].pc \in {"wait", "mark"} =>
          run[v].rec \in Record /\ run[v].tx \in Tx
    BY DEF TypeInv, GoodRun
  <2>6. \A r \in Record : row[r].tx # NoTx => row[r].tx \in Tx
    BY DEF TypeInv, Row
  <2>7. ChainInv!1'
    BY <2>1, <2>2, <2>3, <2>4, <2>5, AnchorV1Assumption DEF ChainInv, rec
  <2>8. ChainInv!2'
    BY <2>1, <2>2, <2>4 DEF ChainInv, At
  <2>9. ChainInv!3' /\ ChainInv!4'
    BY <2>1, <2>3, <2>6, AnchorV1Assumption DEF ChainInv
  <2>10. QED
    BY <2>7, <2>8, <2>9 DEF ChainInv
<1>5. ASSUME NEW w \in Worker, AwaitReceipt(w) PROVE ChainInv'
  <2>1. /\ run[w].pc = "wait" /\ UNCHANGED <<row, sent, mined, told>>
        /\ \A v \in Worker \ {w} : run'[v] = run[v]
    BY <1>5 DEF AwaitReceipt, Goto, Throws, At, TypeInv
  <2>2. \/ run'[w].pc = "throw"
        \/ /\ run'[w].pc = "mark" /\ run[w].tx \in mined
           /\ run'[w].rec = run[w].rec /\ run'[w].tx = run[w].tx
    BY <1>5 DEF AwaitReceipt, Goto, Throws, TypeInv, GoodRun, Run
  <2>3. QED
    BY <2>1, <2>2, ChainFrame
<1>6. ASSUME NEW w \in Worker, MarkAnchored(w) PROVE ChainInv'
  <2>1. /\ run[w].pc = "mark" /\ rec(w) \in Record /\ run[w].tx \in Tx
        /\ UNCHANGED <<sent, mined>>
    BY <1>6 DEF MarkAnchored, At, rec, GoodRun, TypeInv
  <2>2. sent[run[w].tx] = rec(w) /\ run[w].tx \in mined /\ run[w].tx # NoTx
    BY <2>1, AnchorV1Assumption DEF ChainInv, At
  <2>3. \A v \in Worker : run'[v] = run[v] \/ run'[v].pc \in {"return", "throw"}
    BY <1>6 DEF MarkAnchored, Goto, Throws, TypeInv, GoodRun, Run
  <2>4. \A r \in Record \ {rec(w)} : row'[r] = row[r] /\ told'[r] = told[r]
    BY <1>6, <2>1 DEF MarkAnchored, Dispatch, TypeInv
  <2>5. \/ row' = row /\ told' = told
        \/ row'[rec(w)].tx = run[w].tx
    BY <1>6, <2>1 DEF MarkAnchored, Dispatch, TypeInv
  <2>6. ChainInv!1' /\ ChainInv!2'
    BY <2>1, <2>3 DEF ChainInv, rec, At
  <2>7. ChainInv!3' /\ ChainInv!4'
    BY <2>1, <2>2, <2>4, <2>5 DEF ChainInv
  <2>8. QED
    BY <2>6, <2>7 DEF ChainInv
<1>7. ASSUME NEW w \in Worker, Return(w) \/ Throw(w) PROVE ChainInv'
  <2>1. \A v \in Worker : run'[v] = run[v] \/ run'[v].pc \in {"idle", "failed"}
    <3>1. CASE run' = [run EXCEPT ![w] = Idle]
      BY <3>1 DEF Idle, TypeInv
    <3>2. CASE run' = [run EXCEPT ![w] =
                 [Idle EXCEPT !.pc = "failed", !.rec = rec(w)]]
      BY <3>2, FailedPC DEF TypeInv
    <3>3. QED
      BY <1>7, <3>1, <3>2 DEF Return, Throw
  <2>2. UNCHANGED <<row, sent, mined, told>>
    BY <1>7 DEF Return, Throw
  <2>3. QED
    BY <2>1, <2>2, ChainFrame
<1>8. ASSUME NEW w \in Worker, MarkAnchorFailed(w) PROVE ChainInv'
  <2>1. rec(w) \in Record /\ UNCHANGED <<sent, mined>>
    BY <1>8 DEF MarkAnchorFailed, At, rec, GoodRun, TypeInv
  <2>2. \A r \in Record :
          /\ row'[r].tx = row[r].tx
          /\ row'[r].state = "anchor_failed" \/ row'[r] = row[r]
    BY <1>8, <2>1 DEF MarkAnchorFailed, TypeInv, Row
  <2>3. \A r \in Record : "anchored" \in told'[r] => "anchored" \in told[r]
    BY <1>8, <2>1 DEF MarkAnchorFailed, Dispatch, TypeInv
  <2>4. \A v \in Worker : run'[v] = run[v] \/ run'[v].pc = "idle"
    BY <1>8 DEF MarkAnchorFailed, Idle, TypeInv
  <2>5. QED
    BY <2>1, <2>2, <2>3, <2>4, ChainFrame
<1>9. ASSUME NEW w \in Worker, Crash(w) PROVE ChainInv'
  <2>1. \A v \in Worker : run'[v] = run[v] \/ run'[v].pc = "idle"
    BY <1>9 DEF Crash, Idle, TypeInv
  <2>2. QED
    BY <1>9, <2>1, ChainFrame DEF Crash
<1>10. ASSUME NEW r \in Record, Create(r) PROVE ChainInv'
  <2>1. \A q \in Record :
          /\ row'[q].tx = row[q].tx
          /\ row'[q].state = "pending_anchor" \/ row'[q] = row[q]
    BY <1>10 DEF Create, TypeInv, Row
  <2>2. QED
    BY <1>10, <2>1, ChainFrame DEF Create
<1>11. ASSUME NEW r \in Record, Stalled(r) PROVE ChainInv'
  <2>1. \A v \in Worker : /\ run'[v].pc = run[v].pc /\ run'[v].rec = run[v].rec
                          /\ run'[v].tx = run[v].tx
    BY <1>11 DEF Stalled, TypeInv, GoodRun, Run
  <2>2. QED
    BY <1>11, <2>1, ChainFrame DEF Stalled
<1>12. ASSUME NEW t \in Tx, Mine(t) PROVE ChainInv'
  BY <1>12, ChainFrame DEF Mine
<1>13. CASE UNCHANGED vars
  BY <1>13, ChainFrame DEF vars
<1>14. QED
  BY <1>1, <1>2, <1>3, <1>4, <1>5, <1>6, <1>7, <1>8, <1>9, <1>10, <1>11,
     <1>12, <1>13 DEF Next, WorkerStep
-----------------------------------------------------------------------------
(***************************************************************************)
(* The theorems.                                                           *)
(***************************************************************************)
LEMMA Invariance == Spec => []IInv
<1>1. IInv /\ [Next]_vars => IInv'
  BY TypeStep, SendStep, ChainStep DEF IInv
<1>2. QED
  BY InitInv, <1>1, PTL DEF Spec

\* A record's transaction is sent at most once, however often its job is run
\* again, by however many workers, and whatever fails: what the claim of
\* anchorRecord is for.
THEOREM SentAtMostOnce == Spec => []SentOnce
<1>1. IInv => SentOnce
  BY DEF IInv, SendInv, SentOnce
<1>2. QED
  BY Invariance, <1>1, PTL

\* The transaction a record shows was sent for it and is on the chain, and an
\* agent told "anchored" finds one in the record.
THEOREM ShownIsOnChain == Spec => []AnchoredOnChain
<1>1. IInv => AnchoredOnChain
  BY DEF IInv, ChainInv, AnchoredOnChain
<1>2. QED
  BY Invariance, <1>1, PTL
-----------------------------------------------------------------------------
(***************************************************************************)
(* Jobs and their locks.                                                   *)
(***************************************************************************)
Live  == {"read", "claim", "send", "wait", "mark", "return", "throw"}
Steps == {"read", "claim", "send", "wait", "mark"}

GoodJob(r) ==
  /\ job[r] \in Job
  /\ job[r].state = "none" => job[r].made = 0
  /\ job[r].state \in {"waiting", "active"} => job[r].made < Attempts
  /\ job[r].state = "active" => job[r].stalls <= MaxStalled

JobTable == job = [r \in Record |-> job[r]]
NoJobYet == \A r \in Record : row[r].state = "absent" => job[r].state = "none"

LockInv ==
  /\ JobTable /\ NoJobYet
  /\ \A r \in Record : GoodJob(r)
  /\ \A w \in Worker : run[w].locked => run[w].pc \in Live /\ job[rec(w)].state = "active"
  /\ \A v, w \in Worker : run[v].locked /\ run[w].locked /\ rec(v) = rec(w) => v = w
  /\ may \in FaultSets

\* A step of anchorRecord leaves the job and its lock alone.
Others(w) == \A v \in Worker \ {w} : run'[v] = run[v]
Goes(w) ==
  /\ Others(w) /\ job' = job /\ run[w].pc \in Steps /\ run'[w].pc \in Live
  /\ run'[w].rec = run[w].rec /\ run'[w].locked = run[w].locked

LEMMA FailedRun ==
  \A r : LET v == [Idle EXCEPT !.pc = "failed", !.rec = r]
         IN  v.pc = "failed" /\ v.rec = r /\ v.locked = FALSE /\ v.tx = NoTx
BY DEF Idle

LEMMA GoesStep ==
  ASSUME TypeInv, NEW w \in Worker,
         Read(w) \/ Claim(w) \/ Send(w) \/ AwaitReceipt(w) \/ MarkAnchored(w)
  PROVE  Goes(w) /\ may' = may
<1>1. ASSUME NEW pc \in Live, Goto(w, pc)
      PROVE  /\ Others(w) /\ run'[w].pc \in Live /\ run'[w].rec = run[w].rec
             /\ run'[w].locked = run[w].locked
  BY <1>1 DEF Goto, Others, TypeInv, GoodRun, Run
<1>2. "claim" \in Live /\ "return" \in Live /\ "throw" \in Live /\ "send" \in Live
      /\ "mark" \in Live
  BY DEF Live
<1>3. CASE Read(w)
  <2>1. CASE run' = [run EXCEPT ![w].pc = "claim", ![w].tx = row[rec(w)].tx]
    BY <1>2, <1>3, <2>1 DEF Read, At, Goes, Steps, Others, TypeInv, GoodRun, Run
  <2>2. CASE Goto(w, "return") \/ Goto(w, "throw")
    BY <1>1, <1>2, <1>3, <2>2 DEF Read, At, Goes, Steps
  <2>3. QED
    BY <1>3, <2>1, <2>2 DEF Read, Throws
<1>4. CASE Claim(w)
  BY <1>1, <1>2, <1>4 DEF Claim, At, Throws, Goes, Steps
<1>5. CASE Send(w)
  <2>1. ASSUME NEW t \in Tx, run' = [run EXCEPT ![w].pc = "wait", ![w].tx = t]
        PROVE  Goes(w)
    BY <1>5, <2>1 DEF Send, At, Goes, Live, Steps, Others, TypeInv, GoodRun, Run
  <2>2. CASE Goto(w, "throw")
    BY <1>1, <1>2, <1>5, <2>2 DEF Send, At, Goes, Steps
  <2>3. QED
    BY <1>5, <2>1, <2>2 DEF Send, Throws
<1>6. CASE AwaitReceipt(w)
  BY <1>1, <1>2, <1>6 DEF AwaitReceipt, At, Throws, Goes, Steps
<1>7. CASE MarkAnchored(w)
  BY <1>1, <1>2, <1>7 DEF MarkAnchored, At, Throws, Goes, Steps
<1>8. QED
  BY <1>3, <1>4, <1>5, <1>6, <1>7

LEMMA JobTableStep == TypeInv /\ JobTable /\ [Next]_vars => JobTable'
<1> SUFFICES ASSUME TypeInv, JobTable, [Next]_vars PROVE JobTable'
  OBVIOUS
<1>1. ASSUME NEW r \in Record, NEW f, job' = [job EXCEPT ![r] = f] PROVE JobTable'
  BY <1>1 DEF JobTable
<1>2. CASE job' = job
  BY <1>2 DEF JobTable
<1>3. ASSUME NEW w \in Worker, Return(w) \/ Throw(w) PROVE JobTable'
  <2>1. rec(w) \in Record
    BY <1>3 DEF Return, Throw, At, rec, TypeInv, GoodRun
  <2>2. QED
    BY <1>2, <1>3, <2>1 DEF Return, Throw, JobTable
<1>4. ASSUME NEW w \in Worker, NEW r \in Record, Take(w, r) PROVE JobTable'
  BY <1>4 DEF Take, JobTable
<1>5. ASSUME NEW r \in Record, Create(r) \/ Stalled(r) PROVE JobTable'
  BY <1>5 DEF Create, Stalled, JobTable
<1>6. QED
  BY <1>2, <1>3, <1>4, <1>5, GoesStep
     DEF Next, WorkerStep, Goes, MarkAnchorFailed, Crash, Mine, vars

LEMMA NoJobYetStep == TypeInv /\ LockInv /\ [Next]_vars => NoJobYet'
<1> SUFFICES ASSUME TypeInv, LockInv, [Next]_vars,
                    NEW r \in Record, row'[r].state = "absent"
             PROVE  job'[r].state = "none"
  BY DEF NoJobYet
<1>1. row[r].state = "absent"
  <2>1. \A w \in Worker : run[w].pc # "idle" => rec(w) \in Record
    BY DEF TypeInv, GoodRun, rec
  <2>2. CASE row' = row
    BY <2>2
  <2>3. ASSUME NEW w \in Worker, Claim(w) \/ MarkAnchored(w) \/ MarkAnchorFailed(w)
        PROVE  row[r].state = "absent"
    BY <2>1, <2>3 DEF Claim, MarkAnchored, MarkAnchorFailed, At, TypeInv, Row
  <2>4. ASSUME NEW q \in Record, Create(q) PROVE row[r].state = "absent"
    BY <2>4 DEF Create, TypeInv, Row
  <2>5. QED
    BY <2>2, <2>3, <2>4
       DEF Next, WorkerStep, Take, Read, Send, AwaitReceipt, Return, Throw, Crash,
           Stalled, Mine, vars
<1>2. job[r].state = "none" /\ job[r] \in Job /\ JobTable
  BY <1>1 DEF LockInv, NoJobYet, GoodJob
<1>3. CASE job' = job
  BY <1>2, <1>3
<1>4. ASSUME NEW w \in Worker, Return(w) \/ Throw(w) PROVE job'[r].state = "none"
  <2>1. PICK q \in Record : q = rec(w)
    BY <1>4 DEF Return, Throw, At, rec, TypeInv, GoodRun
  <2>2. run[w].locked => q # r
    BY <1>2, <2>1 DEF LockInv
  <2>3. QED
    BY <1>2, <1>3, <1>4, <2>1, <2>2 DEF Return, Throw, JobTable
<1>5. ASSUME NEW w \in Worker, NEW q \in Record, Take(w, q) PROVE job'[r].state = "none"
  BY <1>2, <1>5 DEF Take, JobTable
<1>6. ASSUME NEW q \in Record, Create(q) \/ Stalled(q) PROVE job'[r].state = "none"
  <2>1. CASE Create(q)
    <3>1. q = r => row'[r].state = "pending_anchor"
      BY <2>1 DEF Create, TypeInv, Row
    <3>2. QED
      BY <1>2, <2>1, <3>1 DEF Create, JobTable
  <2>2. CASE Stalled(q)
    BY <1>2, <2>2 DEF Stalled, JobTable
  <2>3. QED
    BY <1>6, <2>1, <2>2
<1>7. QED
  BY <1>3, <1>4, <1>5, <1>6, GoesStep
     DEF Next, WorkerStep, Goes, MarkAnchorFailed, Crash, Mine, vars

LEMMA LockInit == Init => LockInv
BY AnchorV1Assumption DEF Init, LockInv, JobTable, NoJobYet, GoodJob, Job, Idle

\* Nobody comes to hold a lock, and no job changes under one.
LEMMA LockFrame ==
  ASSUME LockInv, may' = may, JobTable', NoJobYet', \A r \in Record : GoodJob(r)',
         \A v \in Worker : run'[v].locked =>
           /\ run[v].locked /\ run'[v].rec = run[v].rec /\ run'[v].pc \in Live
           /\ job'[run[v].rec].state = job[run[v].rec].state
  PROVE  LockInv'
BY DEF LockInv, rec

\* A run that gives its lock up, if it has one.
LEMMA LeavesLock ==
  ASSUME TypeInv, LockInv, NEW w \in Worker, NEW r \in Record, r = rec(w), Others(w),
         ~run'[w].locked, may' = may, JobTable', NoJobYet', GoodJob(r)',
         \A q \in Record \ {r} : job'[q] = job[q],
         run[w].locked \/ job' = job
  PROVE  LockInv'
<1>1. \A q \in Record : GoodJob(q)'
  BY DEF GoodJob, LockInv
<1>2. ASSUME NEW v \in Worker, run'[v].locked
      PROVE  /\ run[v].locked /\ run'[v].rec = run[v].rec /\ run'[v].pc \in Live
             /\ job'[run[v].rec].state = job[run[v].rec].state
  <2>1. v # w /\ run'[v] = run[v]
    BY <1>2 DEF Others
  <2>2. run[v].rec \in Record /\ run[v].pc \in Live
    BY <1>2, <2>1 DEF LockInv, TypeInv, GoodRun, Live
  <2>3. CASE run[v].rec = r /\ run[w].locked
    BY <1>2, <2>1, <2>3 DEF LockInv, rec
  <2>4. CASE run[v].rec # r \/ job' = job
    BY <1>2, <2>1, <2>2, <2>4
  <2>5. QED
    BY <2>3, <2>4
<1>3. QED
  BY <1>1, <1>2, LockFrame

LEMMA LockStep == TypeInv /\ LockInv /\ [Next]_vars => LockInv'
<1> SUFFICES ASSUME TypeInv, LockInv, [Next]_vars PROVE LockInv'
  OBVIOUS
<1>1. \A r \in Record : /\ GoodJob(r) /\ job[r] \in Job /\ job[r].made \in Nat
                        /\ job[r].stalls \in Nat
  BY DEF LockInv, GoodJob, Job
<1>t. JobTable /\ JobTable' /\ NoJobYet'
  BY JobTableStep, NoJobYetStep DEF LockInv
<1>2. ASSUME NEW w \in Worker, NEW r \in Record, Take(w, r) PROVE LockInv'
  <2>1. \A v \in Worker : run[v].locked => rec(v) # r
    BY <1>2 DEF Take, LockInv
  <2>2. \A q \in Record \ {r} : GoodJob(q)'
    BY <1>1, <1>2, <1>t DEF Take, GoodJob, Job, JobTable
  <2>3. CASE job[r].stalls <= MaxStalled
    <3>1. GoodJob(r)' /\ job'[r].state = "active"
      BY <1>1, <1>2, <1>t, <2>3 DEF Take, GoodJob, Job, JobTable
    <3>2. /\ run'[w].pc = "read" /\ run'[w].rec = r /\ Others(w)
          /\ \A q \in Record \ {r} : job'[q] = job[q]
      BY <1>2, <1>t, <2>3 DEF Take, TypeInv, Job, GoodJob, Others, JobTable
    <3>3. \A v \in Worker : run[v].locked => rec(v) \in Record
      BY DEF LockInv, TypeInv, GoodRun, Live, rec
    <3>4. \A v \in Worker : run'[v].locked => run'[v].pc \in Live
                              /\ job'[run'[v].rec].state = "active"
      BY <2>1, <3>1, <3>2, <3>3 DEF Others, LockInv, rec, Live
    <3>5. \A u, v \in Worker :
            run'[u].locked /\ run'[v].locked /\ run'[u].rec = run'[v].rec => u = v
      BY <2>1, <3>2 DEF Others, LockInv, rec
    <3>6. QED
      BY <1>2, <1>t, <2>2, <3>1, <3>4, <3>5 DEF LockInv, rec, Take
  <2>4. CASE ~(job[r].stalls <= MaxStalled)
    <3>1. GoodJob(r)' /\ \A q \in Record \ {r} : job'[q] = job[q]
      <4>0. job' = [job EXCEPT ![r].state = "failed", ![r].made = job[r].made + 1]
        BY <1>2, <2>4, <1>t DEF Take
      <4>1. job'[r].state = "failed" /\ job'[r].made = job[r].made + 1
            /\ job'[r].stalls = job[r].stalls
        BY <1>1, <1>t, <4>0 DEF Job, JobTable
      <4>2. job'[r] = [state |-> "failed", made |-> job[r].made + 1,
                       stalls |-> job[r].stalls]
        BY <1>1, <1>t, <4>0 DEF Job, JobTable
      <4>3. job[r].made < Attempts
        BY <1>1, <1>2 DEF Take, GoodJob
      <4>4. job'[r] \in Job
        BY <1>1, <4>2, <4>3, AnchorV1Assumption DEF Job
      <4>5. QED
        BY <1>t, <4>0, <4>1, <4>4 DEF GoodJob, JobTable
    <3>2. \A v \in Worker : run'[v] = run[v] \/ ~run'[v].locked
      BY <1>2, <2>4 DEF Take, Idle, TypeInv
    <3>3. ASSUME NEW v \in Worker, run'[v].locked
          PROVE  /\ run[v].locked /\ run'[v].rec = run[v].rec /\ run'[v].pc \in Live
                 /\ job'[run[v].rec].state = job[run[v].rec].state
      BY <2>1, <3>1, <3>2, <3>3 DEF LockInv, rec, TypeInv, GoodRun, Live
    <3>4. QED
      BY <1>2, <2>2, <3>1, <3>3, <1>t, LockFrame DEF Take
  <2>5. QED
    BY <2>3, <2>4
<1>3. ASSUME NEW w \in Worker,
             Read(w) \/ Claim(w) \/ Send(w) \/ AwaitReceipt(w) \/ MarkAnchored(w)
      PROVE  LockInv'
  <2>1. Goes(w) /\ may' = may
    BY <1>3, GoesStep
  <2>2. \A r \in Record : GoodJob(r)'
    BY <2>1 DEF Goes, GoodJob, LockInv
  <2>3. QED
    BY <2>1, <2>2, <1>t, LockFrame DEF Goes, Others, LockInv
<1>4. ASSUME NEW w \in Worker, Return(w) PROVE LockInv'
  <2>1. PICK r \in Record : r = rec(w)
    BY <1>4 DEF Return, At, rec, TypeInv, GoodRun
  <2>2. Others(w) /\ ~run'[w].locked
    BY <1>4 DEF Return, Others, Idle, TypeInv
  <2>3. GoodJob(r)' /\ \A q \in Record \ {r} : job'[q] = job[q]
    BY <1>1, <1>4, <2>1 DEF Return, GoodJob, LockInv, Job
  <2>4. QED
    BY <1>4, <2>1, <2>2, <2>3, <1>t, LeavesLock DEF Return
<1>5. ASSUME NEW w \in Worker, Throw(w) PROVE LockInv'
  <2>1. PICK r \in Record : r = rec(w)
    BY <1>5 DEF Throw, At, rec, TypeInv, GoodRun
  <2>2. Others(w) /\ ~run'[w].locked
    <3>1. ~Idle.locked
      BY DEF Idle
    <3>2. QED
      BY <1>5, <3>1, FailedRun, ZenonT(40) DEF Throw, Others, TypeInv
  <2>3. CASE job' = job
    BY <1>1, <1>5, <2>1, <2>2, <2>3, <1>t, LeavesLock DEF Throw, GoodJob
  <2>4. CASE run[w].locked
    <3>1. job[r].state = "active" /\ job[r].made < Attempts
      BY <1>1, <2>1, <2>4 DEF LockInv, GoodJob
    <3>2. /\ job'[r].made = job[r].made + 1 /\ job'[r].stalls = job[r].stalls
          /\ job'[r].state = IF job[r].made + 1 >= Attempts THEN "failed" ELSE "waiting"
          /\ job'[r] = [state |-> IF job[r].made + 1 >= Attempts
                                    THEN "failed" ELSE "waiting",
                        made |-> job[r].made + 1, stalls |-> job[r].stalls]
          /\ \A q \in Record \ {r} : job'[q] = job[q]
      <4>1. job' = [job EXCEPT ![r].made = job[r].made + 1,
                               ![r].state = IF job[r].made + 1 >= Attempts
                                              THEN "failed" ELSE "waiting"]
        BY <1>5, <2>1, <2>4, <1>t DEF Throw
      <4>2. QED
        BY <1>1, <1>t, <4>1 DEF Job, JobTable
    <3>3. job'[r] \in Job
      BY <1>1, <3>1, <3>2, AnchorV1Assumption DEF Job
    <3>4. GoodJob(r)'
      BY <1>1, <3>1, <3>2, <3>3, AnchorV1Assumption DEF GoodJob
    <3>5. QED
      BY <1>5, <2>1, <2>2, <2>4, <3>2, <3>4, <1>t, LeavesLock DEF Throw
  <2>5. QED
    BY <1>5, <2>3, <2>4 DEF Throw
<1>6. ASSUME NEW w \in Worker, MarkAnchorFailed(w) \/ Crash(w) PROVE LockInv'
  <2>1. PICK r \in Record : r = rec(w)
    BY <1>6 DEF MarkAnchorFailed, Crash, At, rec, TypeInv, GoodRun
  <2>2. Others(w) /\ ~run'[w].locked /\ job' = job /\ may' = may
    BY <1>6 DEF MarkAnchorFailed, Crash, Others, Idle, TypeInv
  <2>3. GoodJob(r)'
    BY <1>1, <2>2 DEF GoodJob
  <2>4. QED
    BY <2>1, <2>2, <2>3, <1>t, LeavesLock
<1>7. ASSUME NEW r \in Record, Create(r) PROVE LockInv'
  <2>1. job[r].state = "none" /\ job[r].made = 0
    BY <1>1, <1>7 DEF Create, GoodJob, LockInv, NoJobYet
  <2>2. \A q \in Record \ {r} : job'[q] = job[q]
    BY <1>7, <1>t DEF Create, JobTable
  <2>3. /\ job'[r].made = job[r].made /\ job'[r].state \in {"none", "waiting"}
        /\ job'[r] \in Job
    BY <1>1, <1>7, <1>t, <2>1 DEF Create, Job, JobTable
  <2>4. \A q \in Record : GoodJob(q)'
    BY <1>1, <2>1, <2>2, <2>3, AnchorV1Assumption DEF GoodJob
  <2>5. \A v \in Worker : run[v].locked => run[v].rec \in Record \ {r} /\ run[v].pc \in Live
    BY <2>1 DEF LockInv, TypeInv, GoodRun, Live, rec
  <2>6. QED
    BY <1>7, <2>2, <2>4, <2>5, <1>t, LockFrame DEF Create
<1>8. ASSUME NEW r \in Record, Stalled(r) PROVE LockInv'
  <2>1. job[r].state = "active" /\ job[r].made < Attempts /\ job[r].stalls <= MaxStalled
    BY <1>1, <1>8 DEF Stalled, GoodJob
  <2>2. /\ job'[r] = [state |-> "waiting", made |-> job[r].made,
                      stalls |-> job[r].stalls + 1]
        /\ \A q \in Record \ {r} : job'[q] = job[q]
    BY <1>1, <1>8, <1>t DEF Stalled, Job, GoodJob, JobTable
  <2>3. job'[r] \in Job
    BY <1>1, <2>1, <2>2, AnchorV1Assumption DEF Job
  <2>4. \A q \in Record : GoodJob(q)'
    BY <1>1, <2>1, <2>2, <2>3 DEF GoodJob
  <2>5. \A v \in Worker : IF rec(v) = r THEN ~run'[v].locked ELSE run'[v] = run[v]
    BY <1>8 DEF Stalled, TypeInv, GoodRun, Run
  <2>6. \A v \in Worker : run[v].locked => run[v].rec \in Record /\ run[v].pc \in Live
    BY DEF LockInv, TypeInv, GoodRun, Live
  <2>7. QED
    BY <1>8, <2>2, <2>4, <2>5, <2>6, <1>t, LockFrame DEF Stalled, rec
<1>9. CASE (\E t \in Tx : Mine(t)) \/ UNCHANGED vars
  BY <1>1, <1>9, <1>t, LockFrame DEF Mine, vars, GoodJob, LockInv
<1>10. QED
  BY <1>2, <1>3, <1>4, <1>5, <1>6, <1>7, <1>8, <1>9 DEF Next, WorkerStep

\* The state is well formed, jobs are made Attempts times and stall once more
\* than MaxStalled at most, and the lock of a job, while it is active, is held
\* by at most one run.
THEOREM TypeCorrect == Spec => []TypeOK
<1>1. TypeInv /\ LockInv => TypeOK
  BY DEF TypeInv, LockInv, JobTable, GoodJob, TypeOK, GoodRun
<1>2. Spec => []IInv /\ []LockInv
  BY Invariance, LockInit, LockStep, PTL DEF Spec, IInv
<1>3. QED
  BY <1>1, <1>2, PTL DEF IInv
-----------------------------------------------------------------------------
(***************************************************************************)
(* How jobs end.                                                           *)
(***************************************************************************)

\* As long as no lock is lost, a run that is under way has the lock.
AllLocked == "stall" \notin may => \A w \in Worker : run[w].pc \in Live => run[w].locked

\* A hash shown is there to stay, and a job that completes has one to show.
ShownInv ==
  /\ \A w \in Worker : At(w, "return") => row[rec(w)].tx # NoTx
  /\ \A w \in Worker : At(w, "claim") /\ run[w].tx # NoTx => row[rec(w)].tx # NoTx
  /\ \A r \in Record : job[r].state = "completed" => row[r].tx # NoTx

Calm == Without({"crash", "stall"})
CalmInv ==
  Calm => \A r \in Record :
    /\ job[r].state = "active" => \E w \in Worker : run[w].locked /\ rec(w) = r
    /\ job[r].stalls = 0
    /\ job[r].state = "failed" =>
         \/ "db" \in may \/ row[r].state = "anchor_failed"
         \/ \E w \in Worker : At(w, "failed") /\ rec(w) = r

\* The steps of Next, as far as runs and locks go.
LEMMA TakeRuns ==
  ASSUME TypeInv, NEW w \in Worker, NEW r \in Record, Take(w, r)
  PROVE  /\ Others(w)
         /\ \/ run'[w] = run[w]
            \/ run'[w].pc = "read" /\ run'[w].rec = r /\ run'[w].locked
            \/ run'[w].pc = "failed" /\ run'[w].rec = r /\ ~run'[w].locked
<1>1. CASE run' = [run EXCEPT ![w] =
             [pc |-> "read", rec |-> r, tx |-> NoTx, locked |-> TRUE]]
  BY <1>1 DEF TypeInv, Others
<1>2. CASE run' = run
  BY <1>2 DEF Others
<1>3. CASE run' = [run EXCEPT ![w] = [Idle EXCEPT !.pc = "failed", !.rec = r]]
  BY <1>3, FailedRun DEF TypeInv, Others
<1>4. QED
  BY <1>1, <1>2, <1>3 DEF Take

Leaves(w, r) ==
  /\ Others(w) /\ r = rec(w) /\ ~run'[w].locked /\ run'[w].pc \in {"idle", "failed"}

LEMMA LeavesStep ==
  ASSUME TypeInv, NEW w \in Worker,
         Return(w) \/ Throw(w) \/ MarkAnchorFailed(w) \/ Crash(w)
  PROVE  \E r \in Record : Leaves(w, r)
<1>1. PICK r \in Record : r = rec(w)
  BY DEF Return, Throw, MarkAnchorFailed, Crash, At, rec, TypeInv, GoodRun
<1>2. Idle.pc = "idle" /\ ~Idle.locked
  BY DEF Idle
<1>3. Others(w) /\ ~run'[w].locked /\ run'[w].pc \in {"idle", "failed"}
  <2>1. CASE run' = [run EXCEPT ![w] = Idle]
    BY <1>2, <2>1 DEF Others, TypeInv
  <2>2. CASE run' = [run EXCEPT ![w] = [Idle EXCEPT !.pc = "failed", !.rec = r]]
    BY <2>2, FailedRun DEF Others, TypeInv
  <2>3. QED
    BY <1>1, <2>1, <2>2 DEF Return, Throw, MarkAnchorFailed, Crash
<1>4. QED
  BY <1>1, <1>3 DEF Leaves

LEMMA MayStays == [Next]_vars => may' = may
BY DEF Next, WorkerStep, Take, Read, Claim, Send, AwaitReceipt, MarkAnchored, Return,
       Throw, MarkAnchorFailed, Crash, Create, Stalled, Mine, vars

LEMMA LockedInit == Init => AllLocked /\ ShownInv /\ CalmInv
BY DEF Init, Idle, AllLocked, Live, ShownInv, CalmInv, At

LEMMA AllLockedStep == TypeInv /\ LockInv /\ AllLocked /\ [Next]_vars => AllLocked'
<1> SUFFICES ASSUME TypeInv, LockInv, AllLocked, [Next]_vars, "stall" \notin may,
                    NEW v \in Worker, run'[v].pc \in Live
             PROVE  run'[v].locked
  BY MayStays DEF AllLocked
<1>1. run[v].pc \in Live => run[v].locked
  BY DEF AllLocked
<1>2. CASE run'[v] = run[v]
  BY <1>1, <1>2
<1>3. ASSUME NEW w \in Worker, NEW r \in Record, Take(w, r) PROVE run'[v].locked
  <2>1. run'[v] = run[v] \/ run'[v].locked \/ run'[v].pc = "failed"
    BY <1>3, TakeRuns DEF Others
  <2>2. QED
    BY <1>2, <2>1 DEF Live
<1>4. ASSUME NEW w \in Worker, Goes(w) PROVE run'[v].locked
  BY <1>1, <1>2, <1>4 DEF Goes, Others, Steps, Live
<1>5. ASSUME NEW w \in Worker, NEW r \in Record, Leaves(w, r) PROVE run'[v].locked
  BY <1>2, <1>5 DEF Leaves, Others, Live
<1>6. ASSUME NEW r \in Record, Stalled(r) PROVE run'[v].locked
  <2>1. run'[v].pc = run[v].pc
    BY <1>6 DEF Stalled, TypeInv, GoodRun, Run
  <2>2. rec(v) # r
    BY <1>1, <1>6, <2>1 DEF Stalled
  <2>3. QED
    BY <1>2, <1>6, <2>2 DEF Stalled
<1>7. QED
  BY <1>2, <1>3, <1>4, <1>5, <1>6, GoesStep, LeavesStep
     DEF Next, WorkerStep, Create, Mine, vars

LEMMA TxKept ==
  ASSUME TypeInv, [Next]_vars, NEW r \in Record, row[r].tx # NoTx
  PROVE  row'[r].tx # NoTx
<1>1. \A w \in Worker : run[w].pc # "idle" => rec(w) \in Record
  BY DEF TypeInv, GoodRun, rec
<1>2. CASE row' = row
  BY <1>2
<1>3. ASSUME NEW w \in Worker, Claim(w) \/ MarkAnchorFailed(w) PROVE row'[r].tx # NoTx
  <2>1. rec(w) \in Record
    BY <1>1, <1>3 DEF Claim, MarkAnchorFailed, At
  <2>2. row'[r].tx = row[r].tx
    BY <1>3, <2>1 DEF Claim, MarkAnchorFailed, TypeInv, Row
  <2>3. QED
    BY <2>2
<1>4. ASSUME NEW w \in Worker, MarkAnchored(w) PROVE row'[r].tx # NoTx
  <2>1. run[w].tx # NoTx
    BY <1>4, AnchorV1Assumption DEF MarkAnchored, At, TypeInv, GoodRun
  <2>2. QED
    BY <1>1, <1>4, <2>1 DEF MarkAnchored, At, TypeInv, Row
<1>5. ASSUME NEW q \in Record, Create(q) PROVE row'[r].tx # NoTx
  BY <1>5 DEF Create, TypeInv, Row
<1>6. QED
  BY <1>2, <1>3, <1>4, <1>5
     DEF Next, WorkerStep, Take, Read, Send, AwaitReceipt, Return, Throw, Crash,
         Stalled, Mine, vars

\* Runs neither come to return nor to claim, and no job completes.
LEMMA ShownFrame ==
  ASSUME TypeInv, [Next]_vars, ShownInv,
         \A v \in Worker : run'[v].pc \in {"return", "claim"} =>
           run'[v].pc = run[v].pc /\ run'[v].rec = run[v].rec /\ run'[v].tx = run[v].tx,
         \A r \in Record : job'[r].state = "completed" => job[r].state = "completed"
  PROVE  ShownInv'
<1>1. \A r \in Record : row[r].tx # NoTx => row'[r].tx # NoTx
  BY TxKept
<1>2. \A v \in Worker : run[v].pc # "idle" => run[v].rec \in Record
  BY DEF TypeInv, GoodRun
<1>3. QED
  BY <1>1, <1>2 DEF ShownInv, At, rec

LEMMA ShownStep ==
  TypeInv /\ ChainInv /\ LockInv /\ ShownInv /\ [Next]_vars => ShownInv'
<1> SUFFICES ASSUME TypeInv, ChainInv, LockInv, ShownInv, [Next]_vars PROVE ShownInv'
  OBVIOUS
<1>1. /\ JobTable /\ \A r \in Record : job[r] \in Job /\ (row[r].tx # NoTx => row'[r].tx # NoTx)
      /\ \A v \in Worker : run[v].pc # "idle" => run[v].rec \in Record
  BY TxKept DEF LockInv, GoodJob, TypeInv, GoodRun
<1>2. ASSUME NEW w \in Worker, NEW r \in Record, Take(w, r) PROVE ShownInv'
  <2>1. \A v \in Worker : run'[v] = run[v] \/ run'[v].pc \in {"read", "failed"}
    BY <1>2, TakeRuns DEF Others
  <2>2. \A q \in Record : job'[q].state = job[q].state \/ job'[q].state \in {"active", "failed"}
    BY <1>1, <1>2 DEF Take, JobTable, Job
  <2>3. QED
    BY <2>1, <2>2, ShownFrame
<1>3. ASSUME NEW w \in Worker, Goes(w), run'[w].pc \notin {"return", "claim"}
      PROVE  ShownInv'
  BY <1>3, ShownFrame DEF Goes, Others
<1>4. ASSUME NEW w \in Worker, Goes(w),
             row'[run[w].rec].tx # NoTx \/ (run'[w].pc = "claim" /\ run'[w].tx = NoTx)
      PROVE  ShownInv'
  BY <1>1, <1>4 DEF Goes, Others, ShownInv, At, rec
<1>5. ASSUME NEW w \in Worker, Read(w) PROVE ShownInv'
  <2>1. Goes(w) /\ row' = row /\ rec(w) \in Record
    BY <1>1, <1>5, GoesStep DEF Read, At, rec
  <2>2. CASE row[rec(w)].state = "anchored"
    BY <1>4, <2>1, <2>2 DEF ChainInv, rec
  <2>3. CASE run' = [run EXCEPT ![w].pc = "claim", ![w].tx = row[rec(w)].tx]
    <3>1. run'[w].pc = "claim" /\ run'[w].tx = row[rec(w)].tx
      BY <2>3 DEF TypeInv, GoodRun, Run
    <3>2. QED
      BY <1>4, <2>1, <3>1 DEF rec
  <2>4. CASE Goto(w, "throw")
    BY <1>3, <2>1, <2>4, GotoRuns DEF TypeInv, PC
  <2>5. QED
    BY <1>5, <2>2, <2>3, <2>4 DEF Read, Throws
<1>6. ASSUME NEW w \in Worker, Claim(w) PROVE ShownInv'
  <2>1. Goes(w) /\ rec(w) \in Record
    BY <1>1, <1>6, GoesStep DEF Claim, At, rec
  <2>2. CASE Goto(w, "return") /\ run[w].tx # NoTx
    <3>1. row[rec(w)].tx # NoTx
      BY <1>6, <2>2 DEF Claim, ShownInv
    <3>2. QED
      BY <1>1, <1>4, <2>1, <3>1 DEF rec
  <2>3. CASE Goto(w, "throw") \/ Goto(w, "send")
    BY <1>3, <2>1, <2>3, GotoRuns DEF TypeInv, PC
  <2>4. QED
    BY <1>6, <2>2, <2>3 DEF Claim, Throws
<1>7. ASSUME NEW w \in Worker, MarkAnchored(w) PROVE ShownInv'
  <2>1. Goes(w) /\ rec(w) \in Record /\ run[w].tx # NoTx
    BY <1>1, <1>7, GoesStep, AnchorV1Assumption DEF MarkAnchored, At, rec, TypeInv, GoodRun
  <2>2. CASE Goto(w, "return") /\ row' = [row EXCEPT ![rec(w)] = [state |-> "anchored",
                                                              tx |-> run[w].tx]]
    BY <1>4, <2>1, <2>2 DEF TypeInv, rec
  <2>3. CASE Goto(w, "throw")
    BY <1>3, <2>1, <2>3, GotoRuns DEF TypeInv, PC
  <2>4. QED
    BY <1>7, <2>2, <2>3 DEF MarkAnchored, Throws
<1>8. ASSUME NEW w \in Worker, Send(w) \/ AwaitReceipt(w) PROVE ShownInv'
  <2>1. Goes(w)
    BY <1>8, GoesStep
  <2>2. run'[w].pc \in {"wait", "mark", "throw"}
    <3>1. ASSUME NEW t \in Tx, run' = [run EXCEPT ![w].pc = "wait", ![w].tx = t]
          PROVE  run'[w].pc = "wait"
      BY <3>1 DEF TypeInv, GoodRun, Run
    <3>2. QED
      BY <1>8, <3>1, GotoRuns DEF Send, AwaitReceipt, Throws, TypeInv, PC
  <2>3. QED
    BY <1>3, <2>1, <2>2
<1>9. ASSUME NEW w \in Worker, Return(w) PROVE ShownInv'
  <2>1. PICK r \in Record : Leaves(w, r)
    BY <1>9, LeavesStep
  <2>2. \A q \in Record : job'[q] = job[q] \/ q = r
    BY <1>1, <1>9, <2>1 DEF Return, Leaves, JobTable
  <2>3. row'[r].tx # NoTx
    BY <1>1, <1>9, <2>1 DEF Return, Leaves, ShownInv
  <2>4. QED
    BY <1>1, <2>1, <2>2, <2>3 DEF Leaves, Others, ShownInv, At, rec
<1>10. ASSUME NEW w \in Worker, Throw(w) \/ MarkAnchorFailed(w) \/ Crash(w) PROVE ShownInv'
  <2>1. PICK r \in Record : Leaves(w, r)
    BY <1>10, LeavesStep
  <2>2. \A q \in Record : job'[q].state = job[q].state \/ job'[q].state \in {"failed", "waiting"}
    BY <1>1, <1>10, <2>1 DEF Throw, MarkAnchorFailed, Crash, Leaves, JobTable, Job
  <2>3. QED
    BY <2>1, <2>2, ShownFrame DEF Leaves, Others
<1>11. ASSUME NEW r \in Record, Create(r) \/ Stalled(r) PROVE ShownInv'
  <2>1. \A q \in Record : job'[q].state = job[q].state \/ job'[q].state = "waiting"
    BY <1>1, <1>11 DEF Create, Stalled, JobTable, Job
  <2>2. \A v \in Worker : /\ run'[v].pc = run[v].pc /\ run'[v].rec = run[v].rec
                          /\ run'[v].tx = run[v].tx
    BY <1>11 DEF Create, Stalled, TypeInv, GoodRun, Run
  <2>3. QED
    BY <2>1, <2>2, ShownFrame
<1>12. CASE (\E t \in Tx : Mine(t)) \/ UNCHANGED vars
  BY <1>12, ShownFrame DEF Mine, vars
<1>13. QED
  BY <1>2, <1>5, <1>6, <1>7, <1>8, <1>9, <1>10, <1>11, <1>12 DEF Next, WorkerStep
-----------------------------------------------------------------------------
\* What starting and failing make of a job.
OtherJobs(r) == \A q \in Record \ {r} : job'[q] = job[q]

LEMMA TakeJob ==
  ASSUME TypeInv, LockInv, NEW w \in Worker, NEW r \in Record, Take(w, r)
  PROVE  /\ OtherJobs(r) /\ Others(w) /\ run[w].pc = "idle" /\ job[r].state = "waiting"
         /\ job'[r].stalls = job[r].stalls
         /\ \/ /\ job'[r].state = "active" /\ job'[r].made = job[r].made
               /\ run'[w].pc = "read" /\ run'[w].rec = r /\ run'[w].locked
            \/ /\ job'[r].state = "failed" /\ ~(job[r].stalls <= MaxStalled)
               /\ \/ run'[w] = run[w]
                  \/ /\ run'[w].pc = "failed" /\ run'[w].rec = r /\ ~run'[w].locked
                     /\ ~(job[r].made + 1 < Attempts)
<1>1. JobTable /\ job[r] \in Job
  BY DEF LockInv, GoodJob
<1>2. CASE job[r].stalls <= MaxStalled
  BY <1>1, <1>2 DEF Take, At, JobTable, Job, OtherJobs, Others, TypeInv
<1>3. CASE ~(job[r].stalls <= MaxStalled)
  <2>1. job'[r].state = "failed" /\ job'[r].stalls = job[r].stalls /\ OtherJobs(r)
    BY <1>1, <1>3 DEF Take, JobTable, Job, OtherJobs
  <2>2. CASE run' = run
    BY <1>3, <2>1, <2>2 DEF Take, At, Others
  <2>3. CASE /\ run' = [run EXCEPT ![w] = [Idle EXCEPT !.pc = "failed", !.rec = r]]
             /\ ~(job[r].made + 1 < Attempts)
    BY <1>3, <2>1, <2>3, FailedRun DEF Take, At, Others, TypeInv
  <2>4. QED
    BY <1>3, <2>2, <2>3 DEF Take
<1>4. QED
  BY <1>2, <1>3

LEMMA ThrowJob ==
  ASSUME TypeInv, LockInv, NEW w \in Worker, NEW r \in Record, r = rec(w), Throw(w),
         run[w].locked
  PROVE  /\ OtherJobs(r) /\ Others(w) /\ run[w].pc = "throw" /\ job[r].state = "active"
         /\ job'[r].stalls = job[r].stalls /\ ~run'[w].locked
         /\ \/ job'[r].state = "waiting" /\ run'[w].pc = "idle"
            \/ /\ job'[r].state = "failed" /\ run'[w].pc = "failed" /\ run'[w].rec = r
               /\ ~(job[r].made + 1 < Attempts)
<1>1. JobTable /\ job[r] \in Job /\ job[r].state = "active"
  BY DEF LockInv, GoodJob
<1>2. Idle.pc = "idle" /\ ~Idle.locked
  BY DEF Idle
<1>3. CASE job[r].made + 1 >= Attempts
  <2>1. run' = [run EXCEPT ![w] = [Idle EXCEPT !.pc = "failed", !.rec = r]]
    BY <1>3 DEF Throw
  <2>2. job'[r].state = "failed" /\ job'[r].stalls = job[r].stalls /\ OtherJobs(r)
    <3>1. job' = [job EXCEPT ![r].made = job[r].made + 1, ![r].state = "failed"]
      BY <1>1, <1>3 DEF Throw, JobTable
    <3>2. QED
      BY <1>1, <3>1 DEF JobTable, Job, OtherJobs
  <2>3. ~(job[r].made + 1 < Attempts)
    BY <1>1, <1>3, AnchorV1Assumption DEF Job
  <2>4. QED
    BY <1>1, <2>1, <2>2, <2>3, FailedRun DEF Throw, At, Others, TypeInv
<1>4. CASE ~(job[r].made + 1 >= Attempts)
  <2>1. run' = [run EXCEPT ![w] = Idle]
    BY <1>4 DEF Throw
  <2>2. job'[r].state = "waiting" /\ job'[r].stalls = job[r].stalls /\ OtherJobs(r)
    <3>1. job' = [job EXCEPT ![r].made = job[r].made + 1, ![r].state = "waiting"]
      BY <1>1, <1>4 DEF Throw, JobTable
    <3>2. QED
      BY <1>1, <3>1 DEF JobTable, Job, OtherJobs
  <2>3. QED
    BY <1>1, <1>2, <2>1, <2>2 DEF Throw, At, Others, TypeInv
<1>5. QED
  BY <1>3, <1>4

LEMMA CalmStep ==
  TypeInv /\ LockInv /\ AllLocked /\ CalmInv /\ [Next]_vars => CalmInv'
<1> SUFFICES ASSUME TypeInv, LockInv, AllLocked, CalmInv, [Next]_vars, Calm,
                    NEW r \in Record
             PROVE  /\ job'[r].state = "active" =>
                         \E w \in Worker : run'[w].locked /\ run'[w].rec = r
                    /\ job'[r].stalls = 0
                    /\ job'[r].state = "failed" =>
                         \/ "db" \in may \/ row'[r].state = "anchor_failed"
                         \/ \E w \in Worker : run'[w].pc = "failed" /\ run'[w].rec = r
  BY MayStays DEF CalmInv, Calm, Without, At, rec
<1> DEFINE Active == \E w \in Worker : run[w].locked /\ run[w].rec = r
           Failed == \/ "db" \in may
                     \/ \E w \in Worker : run[w].pc = "failed" /\ run[w].rec = r
           Ends == /\ job'[r].state = "active" => Active'
                   /\ job'[r].stalls = 0
                   /\ job'[r].state = "failed" =>
                        row'[r].state = "anchor_failed" \/ Failed'
<1>1. /\ job[r] \in Job /\ JobTable /\ job[r].stalls = 0
      /\ job[r].state = "active" => Active
      /\ job[r].state = "failed" => row[r].state = "anchor_failed" \/ Failed
      /\ "crash" \notin may /\ "stall" \notin may /\ may' = may
      /\ \A w \in Worker : run[w].pc \in Live => run[w].locked
      /\ \A w \in Worker : run[w].locked => run[w].pc \in Live /\ job[run[w].rec].state = "active"
  BY MayStays DEF CalmInv, Calm, Without, LockInv, GoodJob, AllLocked, At, rec
<1>2. ASSUME job'[r] = job[r], Active => Active', Failed => Failed',
             row[r].state = "anchor_failed" /\ job[r].state = "failed"
               => row'[r].state = "anchor_failed" \/ Failed'
      PROVE  Ends
  BY <1>1, <1>2
<1>3. ASSUME NEW w \in Worker, NEW q \in Record, Take(w, q) PROVE Ends
  <2>1. /\ OtherJobs(q) /\ Others(w) /\ run[w].pc = "idle" /\ ~run[w].locked
    BY <1>1, <1>3, TakeJob DEF Live
  <2>2. CASE q # r
    <3>1. job'[r] = job[r] /\ row' = row /\ (Active => Active') /\ (Failed => Failed')
      BY <1>3, <2>1, <2>2 DEF Take, OtherJobs, Others
    <3>2. QED
      BY <1>2, <3>1
  <2>3. CASE q = r
    <3>1. job[r].stalls <= MaxStalled
      BY <1>1, AnchorV1Assumption
    <3>2. /\ job'[r].state = "active" /\ job'[r].stalls = job[r].stalls
          /\ run'[w].locked /\ run'[w].rec = r
      BY <1>3, <2>3, <3>1, TakeJob
    <3>3. QED
      BY <1>1, <3>2
  <2>4. QED
    BY <2>2, <2>3
<1>4. ASSUME NEW w \in Worker,
             Read(w) \/ Claim(w) \/ Send(w) \/ AwaitReceipt(w) \/ MarkAnchored(w)
      PROVE  Ends
  <2>1. Goes(w)
    BY <1>4, GoesStep
  <2>2. job'[r] = job[r] /\ (Active => Active') /\ (Failed => Failed')
    BY <1>1, <2>1 DEF Goes, Others, Steps
  <2>3. run[w].rec \in Record /\ run[w].locked
    BY <1>1, <2>1 DEF Goes, TypeInv, GoodRun, Steps, Live
  <2>4. job[r].state = "failed" => run[w].rec # r
    BY <1>1, <2>3
  <2>5. job[r].state = "failed" => row'[r] = row[r]
    BY <1>4, <2>3, <2>4
       DEF Read, Claim, Send, AwaitReceipt, MarkAnchored, TypeInv, rec
  <2>6. QED
    BY <1>2, <2>2, <2>5
<1>5. ASSUME NEW w \in Worker, Return(w) PROVE Ends
  <2>1. PICK q \in Record : Leaves(w, q)
    BY <1>5, LeavesStep
  <2>2. run[w].locked /\ run[w].pc = "return" /\ row' = row
    BY <1>1, <1>5 DEF Return, At, Live
  <2>3. Failed => Failed'
    BY <1>1, <2>1, <2>2 DEF Leaves, Others
  <2>4. CASE q # r
    <3>1. job'[r] = job[r] /\ (Active => Active')
      BY <1>1, <1>5, <2>1, <2>4 DEF Return, Leaves, Others, JobTable, rec
    <3>2. QED
      BY <1>2, <2>2, <2>3, <3>1
  <2>5. CASE q = r
    <3>1. job'[r].state = "completed" /\ job'[r].stalls = job[r].stalls
      BY <1>1, <1>5, <2>1, <2>2, <2>5 DEF Return, Leaves, JobTable, Job
    <3>2. QED
      BY <1>1, <3>1
  <2>6. QED
    BY <2>4, <2>5
<1>6. ASSUME NEW w \in Worker, Throw(w) PROVE Ends
  <2>1. PICK q \in Record : Leaves(w, q)
    BY <1>6, LeavesStep
  <2>2. run[w].locked /\ run[w].pc = "throw" /\ row' = row
    BY <1>1, <1>6 DEF Throw, At, Live
  <2>3. /\ OtherJobs(q) /\ Others(w) /\ job'[q].stalls = job[q].stalls
        /\ \/ job'[q].state = "waiting" /\ run'[w].pc = "idle"
           \/ job'[q].state = "failed" /\ run'[w].pc = "failed" /\ run'[w].rec = q
    BY <1>6, <2>1, <2>2, ThrowJob DEF Leaves
  <2>4. Failed => Failed'
    BY <1>1, <2>2, <2>3 DEF Others
  <2>5. CASE q # r
    <3>1. job'[r] = job[r] /\ (Active => Active')
      BY <2>1, <2>3, <2>5 DEF OtherJobs, Leaves, Others, rec
    <3>2. QED
      BY <1>2, <2>2, <2>4, <3>1
  <2>6. CASE q = r
    BY <1>1, <2>3, <2>6
  <2>7. QED
    BY <2>5, <2>6
<1>7. ASSUME NEW w \in Worker, MarkAnchorFailed(w) PROVE Ends
  <2>1. PICK q \in Record : Leaves(w, q)
    BY <1>7, LeavesStep
  <2>2. /\ run[w].pc = "failed" /\ ~run[w].locked /\ job' = job
        /\ \/ row' = [row EXCEPT ![q].state = "anchor_failed"]
           \/ row' = row /\ "db" \in may
    BY <1>1, <1>7, <2>1 DEF MarkAnchorFailed, At, Live, Leaves
  <2>3. Active => Active'
    BY <2>1, <2>2 DEF Leaves, Others
  <2>4. \/ row'[r].state = IF r = q THEN "anchor_failed" ELSE row[r].state
        \/ row' = row /\ "db" \in may
    BY <2>2 DEF TypeInv, Row
  <2>5. Failed => Failed' \/ q = r
    BY <1>1, <2>1 DEF Leaves, Others, rec
  <2>6. QED
    BY <1>1, <2>2, <2>3, <2>4, <2>5
<1>8. ASSUME NEW q \in Record, Create(q) PROVE Ends
  <2>1. /\ run' = run
        /\ row'[r].state = IF r = q THEN "pending_anchor" ELSE row[r].state
    BY <1>8 DEF Create, TypeInv, Row
  <2>2. job[q].state = "none"
    BY <1>8 DEF Create, LockInv, NoJobYet
  <2>3. /\ job'[r].stalls = job[r].stalls
        /\ job'[r].state = job[r].state \/ (r = q /\ job'[r].state = "waiting")
    BY <1>1, <1>8 DEF Create, JobTable, Job
  <2>4. QED
    BY <1>1, <2>1, <2>2, <2>3
<1>9. ASSUME NEW q \in Record, Stalled(q) PROVE FALSE
  <2>1. \E w \in Worker : run[w].locked /\ rec(w) = q
    BY <1>9 DEF Stalled, CalmInv
  <2>2. QED
    BY <1>1, <1>9, <2>1 DEF Stalled
<1>10. ASSUME UNCHANGED <<row, job, run>> PROVE Ends
  BY <1>1, <1>2, <1>10
<1>11. QED
  BY <1>1, <1>3, <1>4, <1>5, <1>6, <1>7, <1>8, <1>9, <1>10
     DEF Next, WorkerStep, Crash, Mine, vars

LEMMA EndInv ==
  Spec => [](IInv /\ LockInv /\ AllLocked /\ ShownInv /\ CalmInv)
BY Invariance, LockInit, LockStep, LockedInit, AllLockedStep, ShownStep, CalmStep, PTL
   DEF Spec, IInv

\* What a job that has ended says of its record: completed, that the record
\* shows a mined transaction, whatever failed; failed, that it is marked so,
\* or about to be, if processes live, locks last and the database answers.
THEOREM EndedSettle == Spec => []EndedJobsSettle
<1>1. ASSUME IInv, ShownInv, CalmInv, NEW r \in Record
      PROVE  /\ job[r].state = "completed" => row[r].tx \in mined
             /\ job[r].state = "failed" /\ Without({"crash", "stall", "db"}) =>
                  \/ row[r].state = "anchor_failed"
                  \/ \E w \in Worker : At(w, "failed") /\ rec(w) = r
  BY <1>1 DEF IInv, ChainInv, ShownInv, CalmInv, Calm, Without
<1>2. IInv /\ ShownInv /\ CalmInv => EndedJobsSettle
  BY <1>1 DEF EndedJobsSettle
<1>3. QED
  BY EndInv, <1>2, PTL
-----------------------------------------------------------------------------
(***************************************************************************)
(* Final states. As long as locks last, statements do what they say, and   *)
(* processes do not die where the database fails, a live run is the only   *)
(* one of its record, a run that may still throw has not seen its record   *)
(* anchored, and a job that may be run again has not been tried in vain    *)
(* after its record was anchored.                                          *)
(***************************************************************************)
Mild   == Without({"stall", "lostReply"}) /\ ~ {"crash", "db"} \subseteq may
Before == {"claim", "send", "wait", "mark", "throw"}
Open   == {"none", "waiting", "active"}

Tame(r) ==
  /\ row[r].state = "anchor_failed" => job[r].state = "failed"
  /\ \A w \in Worker : run[w].rec = r /\ run[w].pc = "failed" =>
       job[r].state = "failed" /\ row[r].state # "anchored"
  /\ \A w \in Worker : run[w].rec = r /\ run[w].pc \in Before =>
       row[r].state # "anchored"
  /\ "crash" \notin may /\ row[r].state = "anchored" =>
       \/ job[r].state = "completed"
       \/ \E w \in Worker : run[w].rec = r /\ run[w].pc = "return"
  /\ "db" \notin may =>
       /\ \A w \in Worker : run[w].rec = r /\ run[w].pc = "throw" => ~Unclaimed(r)
       /\ ((\/ Unclaimed(r) \/ row[r].state = "anchored"
            \/ \E w \in Worker : run[w].rec = r /\ run[w].pc \in Carrying)
           /\ job[r].state \in Open) => job[r].made = 0

MildInv == Mild => \A r \in Record : Tame(r)

\* What is known of a record that a step is about.
Known(r) ==
  /\ job[r] \in Job /\ JobTable /\ Tame(r) /\ Mild /\ may' = may
  /\ row \in [Record -> Row] /\ run \in [Worker -> GoodRun]
  /\ job[r].state = "none" => job[r].made = 0
  /\ row[r].state = "absent" => job[r].state = "none"
  /\ \A w \in Worker : run[w].rec = r /\ run[w].pc \in Live => job[r].state = "active"
  /\ \A w \in Worker : run[w].rec = r /\ run[w].pc \in Carrying => ~Unclaimed(r)

\* A live run is the only one of its record.
Only(w, r) ==
  /\ r = run[w].rec /\ job[r].state = "active" /\ run[w].locked
  /\ \A v \in Worker \ {w} : run[v].rec = r => run[v].pc = "idle"

LEMMA KnownRecord ==
  ASSUME IInv, LockInv, AllLocked, MildInv, Mild, [Next]_vars, NEW r \in Record
  PROVE  Known(r)
<1>1. "stall" \notin may
  BY DEF Mild, Without
<1>2. job[r] \in Job /\ JobTable /\ (job[r].state = "none" => job[r].made = 0)
  BY DEF LockInv, GoodJob
<1>3. \A w \in Worker : run[w].pc \in Live => run[w].locked
  BY <1>1 DEF AllLocked
<1>4. QED
  BY <1>2, <1>3, MayStays DEF Known, MildInv, LockInv, GoodJob, NoJobYet, IInv, TypeInv,
                              SendInv, Carries, rec

LEMMA OnlyRun ==
  ASSUME IInv, LockInv, AllLocked, MildInv, Mild, NEW w \in Worker, run[w].pc \in Live
  PROVE  \E r \in Record : Only(w, r)
<1>1. PICK r \in Record : r = run[w].rec
  BY DEF IInv, TypeInv, GoodRun, Live
<1>2. \A v \in Worker : run[v].pc \in Live => run[v].locked
  BY DEF AllLocked, Mild, Without
<1>3. job[r].state = "active" /\ run[w].locked
  BY <1>1, <1>2 DEF LockInv, rec
<1>4. ASSUME NEW v \in Worker \ {w}, run[v].rec = r PROVE run[v].pc = "idle"
  <2>1. run[v].pc \notin Live
    BY <1>1, <1>2, <1>3, <1>4 DEF LockInv, rec
  <2>2. run[v].pc # "failed"
    BY <1>3, <1>4 DEF MildInv, Tame
  <2>3. run[v].pc \in PC
    BY DEF IInv, TypeInv, GoodRun, Run
  <2>4. QED
    BY <2>1, <2>2, <2>3 DEF PC, Live
<1>5. QED
  BY <1>1, <1>3, <1>4 DEF Only

\* A step about another record.
LEMMA TameFrame ==
  ASSUME NEW r \in Record, Tame(r), may' = may, row'[r] = row[r], job'[r] = job[r],
         \A v \in Worker : \/ run'[v] = run[v]
                           \/ /\ run[v].rec # r \/ run[v].pc = "idle"
                              /\ run'[v].rec # r
  PROVE  Tame(r)'
BY DEF Tame, Unclaimed, Before, Carrying

\* A live run that goes on: its record's other runs are idle, and its job is
\* left alone, so that Tame is about its own pc and its row only.
LEMMA TameRun ==
  ASSUME NEW r \in Record, NEW w \in Worker, Known(r), Only(w, r), Goes(w),
         run'[w].pc \in Before => row'[r].state # "anchored",
         row'[r].state # "anchor_failed",
         "crash" \notin may /\ row'[r].state = "anchored" => run'[w].pc = "return",
         "db" \notin may /\ run'[w].pc = "throw" => ~Unclaimed(r)',
         \/ "db" \in may \/ job[r].made = 0
         \/ ~Unclaimed(r)' /\ row'[r].state # "anchored" /\ run'[w].pc \notin Carrying
  PROVE  Tame(r)'
<1>1. \A v \in Worker \ {w} : run'[v] = run[v] /\ (run[v].rec = r => run[v].pc = "idle")
  BY DEF Only, Goes, Others
<1>2. job' = job /\ may' = may /\ run'[w].rec = r /\ run'[w].pc \in Live
  BY DEF Only, Goes, Known
<1>3. \A v \in Worker : run'[v].rec = r /\ run'[v].pc # "idle" => v = w
  BY <1>1
<1>4. QED
  BY <1>2, <1>3 DEF Tame, Before, Carrying, Live

LEMMA TameGoes ==
  ASSUME NEW w \in Worker, NEW r \in Record, Known(r), Only(w, r), Goes(w),
         Read(w) \/ Claim(w) \/ Send(w) \/ AwaitReceipt(w) \/ MarkAnchored(w)
  PROVE  Tame(r)'
<1>1. /\ job[r].state = "active" /\ row[r].state # "anchor_failed"
      /\ row[r].state # "absent" /\ r = run[w].rec /\ rec(w) = r
      /\ row[r] \in Row /\ row \in [Record -> Row] /\ run[w] \in GoodRun
      /\ run \in [Worker -> GoodRun]
      /\ "lostReply" \notin may /\ ("db" \in may => "crash" \notin may)
  BY DEF Known, Only, Tame, rec, Mild, Without
<1>2. "crash" \notin may /\ row[r].state = "anchored" => run[w].pc = "return"
  BY <1>1 DEF Known, Only, Tame
<1>3. run[w].pc \in Before => row[r].state # "anchored"
  BY <1>1 DEF Known, Tame
<1>4. \/ "db" \in may \/ job[r].made = 0
      \/ ~Unclaimed(r) /\ row[r].state # "anchored" /\ run[w].pc \notin Carrying
  BY <1>1 DEF Known, Tame, Open
<1>5. run[w].pc \in Carrying => ~Unclaimed(r)
  BY <1>1 DEF Known
<1>6. ASSUME NEW pc, Goto(w, pc) PROVE run'[w].pc = pc
  BY <1>1, <1>6 DEF Goto, GoodRun, Run
<1>7. CASE Read(w)
  <2>1. row' = row /\ run[w].pc = "read"
    BY <1>7 DEF Read, At
  <2>2. \/ row[r].state = "anchored" /\ run'[w].pc = "return"
        \/ row[r].state # "anchored" /\ run'[w].pc = "claim"
        \/ "db" \in may /\ run'[w].pc = "throw"
    BY <1>1, <1>6, <1>7 DEF Read, Throws, GoodRun, Run
  <2>3. QED
    BY <1>1, <1>2, <1>4, <2>1, <2>2, TameRun DEF Carrying, Before, Unclaimed
<1>8. CASE Claim(w)
  <2>1. run[w].pc = "claim" /\ row[r].state # "anchored"
    BY <1>3, <1>8 DEF Claim, At, Before
  <2>2. CASE row' = row /\ run'[w].pc \in {"return", "throw"}
             /\ (row[r].state # "pending_anchor" \/ "db" \in may)
    BY <1>1, <1>2, <1>4, <2>1, <2>2, TameRun DEF Carrying, Before, Unclaimed
  <2>3. CASE /\ row[r].state = "pending_anchor" /\ run'[w].pc = "send"
             /\ row' = [row EXCEPT ![r].state = "anchoring"]
    <3>1. row'[r].state = "anchoring"
      BY <1>1, <2>3 DEF Row
    <3>2. "db" \in may \/ job[r].made = 0
      BY <1>4, <2>3 DEF Unclaimed
    <3>3. QED
      BY <2>3, <3>1, <3>2, TameRun
  <2>4. QED
    BY <1>1, <1>6, <1>8, <2>2, <2>3 DEF Claim, Throws
<1>9. CASE Send(w) \/ AwaitReceipt(w)
  <2>1. run[w].pc \in Carrying /\ run[w].pc \in Before /\ row' = row
    BY <1>9 DEF Send, AwaitReceipt, At, Carrying, Before
  <2>2. run'[w].pc # "return"
    <3>1. ASSUME NEW t \in Tx, run' = [run EXCEPT ![w].pc = "wait", ![w].tx = t]
          PROVE  run'[w].pc = "wait"
      BY <1>1, <3>1 DEF GoodRun, Run
    <3>2. QED
      BY <1>6, <1>9, <3>1 DEF Send, AwaitReceipt, Throws
  <2>3. Unclaimed(r)' = Unclaimed(r)
    BY <2>1 DEF Unclaimed
  <2>4. QED
    BY <1>1, <1>3, <1>4, <1>5, <2>1, <2>2, <2>3, TameRun
<1>10. CASE MarkAnchored(w)
  <2>1. run[w].pc \in Carrying /\ run[w].pc \in Before
    BY <1>10 DEF MarkAnchored, At, Carrying, Before
  <2>2. CASE row' = row /\ "db" \in may
    BY <1>1, <1>3, <1>4, <2>1, <2>2, TameRun
  <2>3. CASE /\ row' = [row EXCEPT ![r] = [state |-> "anchored", tx |-> run[w].tx]]
             /\ run'[w].pc = "return"
    <3>1. row'[r].state = "anchored"
      BY <1>1, <2>3
    <3>2. "db" \in may \/ job[r].made = 0
      BY <1>4, <2>1
    <3>3. QED
      BY <2>3, <3>1, <3>2, TameRun DEF Before
  <2>4. QED
    BY <1>1, <1>6, <1>10, <2>2, <2>3 DEF MarkAnchored
<1>11. QED
  BY <1>7, <1>8, <1>9, <1>10

\* A run that ends, or dies: no other run of its record is left, or it was in
\* the handler of a job that has failed.
LEMMA TameEnds ==
  ASSUME NEW w \in Worker, NEW r \in Record, Known(r), Only(w, r), LockInv, TypeInv,
         Return(w) \/ Throw(w) \/ Crash(w), 1 < Attempts
  PROVE  Tame(r)'
<1>1. /\ job[r].state = "active" /\ row[r].state # "anchor_failed"
      /\ r = run[w].rec /\ rec(w) = r /\ row' = row /\ may' = may /\ run[w].locked
      /\ JobTable /\ job[r] \in Job
  BY DEF Known, Only, Tame, rec, Return, Throw, Crash
<1>2. \A v \in Worker \ {w} : run'[v] = run[v] /\ (run[v].rec = r => run[v].pc = "idle")
  BY LeavesStep DEF Only, Leaves, Others
<1>3. \A v \in Worker : run'[v].rec = r /\ run'[v].pc # "idle" => v = w
  BY <1>2
<1>4. "crash" \notin may /\ row[r].state = "anchored" => run[w].pc = "return"
  BY <1>1 DEF Known, Only, Tame
<1>5. Idle.pc = "idle"
  BY DEF Idle
<1>6. CASE Return(w)
  <2>1. job'[r].state = "completed"
    BY <1>1, <1>6 DEF Return, JobTable, Job
  <2>2. run'[w].pc = "idle"
    BY <1>5, <1>6 DEF Return, TypeInv
  <2>3. QED
    BY <1>1, <1>3, <2>1, <2>2 DEF Tame, Before, Carrying, Open
<1>7. CASE Throw(w)
  <2>1. run[w].pc = "throw" /\ row[r].state # "anchored"
    BY <1>1, <1>7 DEF Throw, At, Known, Tame, Before
  <2>2. "db" \notin may => ~Unclaimed(r)
    BY <1>1, <2>1 DEF Known, Tame
  <2>3. \/ job'[r].state = "waiting" /\ run'[w].pc = "idle"
        \/ job'[r].state = "failed" /\ run'[w].pc = "failed"
    BY <1>1, <1>7, ThrowJob
  <2>4. QED
    BY <1>1, <1>3, <2>1, <2>2, <2>3 DEF Tame, Before, Carrying, Open, Unclaimed
<1>8. CASE Crash(w)
  <2>1. job' = job /\ run'[w].pc = "idle" /\ "crash" \in may
    BY <1>5, <1>8 DEF Crash, TypeInv
  <2>2. \/ "db" \in may \/ job[r].made = 0
        \/ ~Unclaimed(r) /\ row[r].state # "anchored"
    BY <1>1 DEF Known, Tame, Open
  <2>3. QED
    BY <1>1, <1>3, <2>1, <2>2 DEF Tame, Before, Carrying, Unclaimed
<1>9. QED
  BY <1>6, <1>7, <1>8

LEMMA TameHandler ==
  ASSUME NEW w \in Worker, NEW r \in Record, Known(r), r = run[w].rec,
         run[w].pc = "failed", MarkAnchorFailed(w) \/ Crash(w)
  PROVE  Tame(r)' /\ (row[r].state = "anchor_failed" => row'[r] = row[r])
                  /\ row[r].state # "anchored"
<1>1. job[r].state = "failed" /\ row[r].state # "anchored" /\ row[r] \in Row
  BY DEF Known, Tame
<1>2. job' = job /\ may' = may
  BY DEF MarkAnchorFailed, Crash
<1>3. \/ row'[r] = row[r]
      \/ row'[r].state = "anchor_failed" /\ row'[r].tx = row[r].tx
  BY <1>1 DEF MarkAnchorFailed, Crash, Known, rec, Row
<1>4. \A v \in Worker : run'[v] = run[v] \/ run'[v].pc = "idle"
  BY DEF MarkAnchorFailed, Crash, Known, Idle
<1>5. \A v \in Worker : run[v].rec = r => run[v].pc \notin Live
  BY <1>1 DEF Known
<1>6. row[r].state = "anchor_failed" => row'[r] = row[r]
  BY <1>1 DEF MarkAnchorFailed, Crash, Known, rec, Row
<1>7. \A v \in Worker : run'[v].rec = r => run'[v].pc \notin Live
  BY <1>4, <1>5 DEF Live
<1>8. QED
  BY <1>1, <1>2, <1>3, <1>6, <1>7 DEF Tame, Before, Carrying, Live, Open

\* A record's job starts: it has no runs, or idle ones.
LEMMA TameTake ==
  ASSUME NEW w \in Worker, NEW r \in Record, Known(r), Take(w, r), LockInv, TypeInv,
         CalmInv, 1 < Attempts
  PROVE  Tame(r)'
<1>1. /\ job[r].state = "waiting" /\ row' = row /\ may' = may
      /\ row[r].state # "anchor_failed" /\ Others(w) /\ run[w].pc = "idle"
      /\ job[r].made \in Nat /\ job[r].stalls \in Nat
  <2>1. job[r].state = "waiting" /\ row' = row /\ run[w].pc = "idle" /\ Others(w)
    BY TakeJob, TakeRuns DEF Take, At
  <2>2. job[r] \in Job /\ may' = may /\ Tame(r)
    BY DEF Known
  <2>3. QED
    BY <2>1, <2>2 DEF Tame, Job
<1>2. \A v \in Worker : run[v].rec = r => run[v].pc = "idle"
  <2>1. \A v \in Worker : run[v].rec = r => run[v].pc \notin Live /\ run[v].pc # "failed"
    BY <1>1 DEF Known, Tame
  <2>2. \A v \in Worker : run[v].pc \in PC
    BY DEF TypeInv, GoodRun, Run
  <2>3. QED
    BY <2>1, <2>2 DEF PC, Live
<1>3. "crash" \notin may => row[r].state # "anchored"
  BY <1>1, <1>2 DEF Known, Tame
<1>4. "db" \notin may /\ (Unclaimed(r) \/ row[r].state = "anchored") => job[r].made = 0
  BY <1>1 DEF Known, Tame, Open
<1>5. \A v \in Worker : run'[v].rec = r /\ run'[v].pc # "idle" => v = w
  BY <1>1, <1>2 DEF Others
<1>6. CASE job'[r].state = "active" /\ job'[r].made = job[r].made /\ run'[w].pc = "read"
  BY <1>1, <1>3, <1>4, <1>5, <1>6 DEF Tame, Before, Carrying, Unclaimed
<1>7. CASE /\ job'[r].state = "failed" /\ ~(job[r].stalls <= MaxStalled)
           /\ \/ run'[w] = run[w]
              \/ run'[w].pc = "failed" /\ ~(job[r].made + 1 < Attempts)
  <2>1. "crash" \in may
    BY <1>7, AnchorV1Assumption DEF CalmInv, Calm, Known, Mild, Without
  <2>2. run'[w].pc = "failed" => row[r].state # "anchored"
    <3>1. "db" \notin may
      BY <2>1 DEF Known, Mild
    <3>2. run'[w].pc = "failed" => job[r].made # 0
      BY <1>1, <1>7
    <3>3. QED
      BY <1>4, <3>1, <3>2
  <2>3. run'[w].pc \in {"idle", "failed"}
    BY <1>1, <1>7
  <2>4. QED
    BY <1>1, <1>5, <1>7, <2>1, <2>2, <2>3 DEF Tame, Before, Carrying, Open
<1>8. QED
  BY <1>6, <1>7, TakeJob

LEMMA TameJob ==
  ASSUME NEW r \in Record, Known(r), Create(r) \/ Stalled(r), LockInv, TypeInv, AllLocked,
         CalmInv
  PROVE  Tame(r)'
<1>1. /\ job[r].state \in {"none", "active"} /\ row[r].state # "anchor_failed"
      /\ may' = may
  BY DEF Create, Stalled, Known, Tame
<1>2. \A v \in Worker : run[v].rec = r => run[v].pc # "failed"
  BY <1>1 DEF Known, Tame
<1>3. \A v \in Worker : run[v].rec = r => run[v].pc \notin Live
  <2>1. CASE Create(r)
    BY <2>1 DEF Create, Known
  <2>2. CASE Stalled(r)
    <3>1. \A v \in Worker : run[v].locked => run[v].rec # r
      BY <2>2 DEF Stalled, Known, Mild, Without, rec
    <3>2. \A v \in Worker : run[v].pc \in Live => run[v].locked
      BY DEF AllLocked, Known, Mild, Without
    <3>3. QED
      BY <3>1, <3>2
  <2>3. QED
    BY <2>1, <2>2
<1>4. \A v \in Worker : run'[v].pc = run[v].pc /\ run'[v].rec = run[v].rec
  BY DEF Create, Stalled, TypeInv, GoodRun, Run
<1>5. \A v \in Worker : run'[v].rec = r => run'[v].pc \notin Live /\ run'[v].pc # "failed"
  BY <1>2, <1>3, <1>4
<1>6. CASE Create(r)
  <2>1. row'[r].state = "pending_anchor"
    BY <1>6 DEF Create, TypeInv, Row
  <2>2. job'[r].made = 0
    BY <1>6 DEF Create, Known, JobTable, Job
  <2>3. QED
    BY <1>1, <1>5, <2>1, <2>2 DEF Tame, Before, Carrying, Live
<1>7. CASE Stalled(r)
  <2>1. row' = row /\ job'[r].made = job[r].made /\ job[r].state = "active"
    BY <1>7 DEF Stalled, Known, JobTable, Job
  <2>2. "crash" \in may
    BY <1>3, <2>1 DEF CalmInv, Calm, LockInv, Known, Mild, Without, rec
  <2>3. "db" \notin may /\ (Unclaimed(r) \/ row[r].state = "anchored") => job[r].made = 0
    BY <2>1 DEF Known, Tame, Open
  <2>4. QED
    BY <1>1, <1>5, <2>1, <2>2, <2>3 DEF Tame, Before, Carrying, Live, Unclaimed
<1>8. QED
  BY <1>6, <1>7

\* What a step about one record leaves of the others.
Apart(q) ==
  \A r \in Record \ {q} :
    /\ row'[r] = row[r] /\ job'[r] = job[r]
    /\ \A v \in Worker : \/ run'[v] = run[v]
                         \/ /\ run[v].rec # r \/ run[v].pc = "idle"
                            /\ run'[v].rec # r

LEMMA RunApart ==
  ASSUME TypeInv, LockInv, NEW w \in Worker, NEW q \in Record, q = run[w].rec,
         WorkerStep(w) \/ Crash(w)
  PROVE  Apart(q)
<1>1. Others(w) /\ (run'[w].rec = q \/ run'[w].rec = NoRecord)
  <2>1. Idle.rec = NoRecord
    BY DEF Idle
  <2>2. ASSUME Return(w) \/ Throw(w) \/ MarkAnchorFailed(w) \/ Crash(w)
        PROVE  Others(w) /\ (run'[w].rec = q \/ run'[w].rec = NoRecord)
    <3>1. CASE run' = [run EXCEPT ![w] = Idle]
      BY <2>1, <3>1 DEF Others, TypeInv
    <3>2. CASE run' = [run EXCEPT ![w] = [Idle EXCEPT !.pc = "failed", !.rec = q]]
      BY <3>2, FailedRun DEF Others, TypeInv
    <3>3. QED
      BY <2>2, <3>1, <3>2 DEF Return, Throw, MarkAnchorFailed, Crash, rec
  <2>3. QED
    BY <2>2, GoesStep DEF WorkerStep, Goes
<1>2. \A r \in Record \ {q} : row'[r] = row[r]
  BY DEF WorkerStep, Read, Claim, Send, AwaitReceipt, MarkAnchored, Return, Throw,
         MarkAnchorFailed, Crash, rec, TypeInv
<1>3. \A r \in Record \ {q} : job'[r] = job[r]
  <2>1. CASE Return(w)
    BY <2>1 DEF Return, rec, LockInv, JobTable
  <2>2. CASE Throw(w)
    BY <2>2, ThrowJob DEF Throw, OtherJobs, rec
  <2>3. QED
    BY <2>1, <2>2, GoesStep DEF WorkerStep, Goes, MarkAnchorFailed, Crash
<1>4. QED
  BY <1>1, <1>2, <1>3, AnchorV1Assumption DEF Apart, Others

LEMMA JobApart ==
  ASSUME TypeInv, LockInv, NEW q \in Record,
         Create(q) \/ Stalled(q) \/ \E w \in Worker : Take(w, q)
  PROVE  Apart(q)
<1>1. CASE Create(q)
  BY <1>1 DEF Create, Apart, LockInv, JobTable, TypeInv
<1>2. CASE Stalled(q)
  <2>1. \A v \in Worker : run[v].rec = q \/ run'[v] = run[v]
    BY <1>2 DEF Stalled, rec
  <2>2. \A v \in Worker : run'[v].rec = run[v].rec
    BY <1>2 DEF Stalled, TypeInv, GoodRun, Run
  <2>3. QED
    BY <1>2, <2>1, <2>2 DEF Stalled, Apart, LockInv, JobTable
<1>3. ASSUME NEW w \in Worker, Take(w, q) PROVE Apart(q)
  <2>1. OtherJobs(q) /\ Others(w) /\ run[w].pc = "idle" /\ row' = row
    BY <1>3, TakeJob DEF Take
  <2>2. run'[w] = run[w] \/ run'[w].rec = q
    BY <1>3, TakeRuns
  <2>3. CASE run'[w] = run[w]
    BY <2>1, <2>3 DEF Apart, OtherJobs, Others
  <2>4. CASE run'[w].rec = q
    BY <2>1, <2>4 DEF Apart, OtherJobs, Others
  <2>5. QED
    BY <2>1, <2>2, <2>3, <2>4
<1>4. QED
  BY <1>1, <1>2, <1>3

LEMMA MildInit == Init => MildInv
BY DEF Init, Idle, MildInv, Tame, Before, Carrying, Unclaimed

AllInv == IInv /\ LockInv /\ AllLocked /\ CalmInv /\ MildInv

LEMMA MildStep ==
  ASSUME 1 < Attempts, AllInv, [Next]_vars
  PROVE  MildInv'
<1> SUFFICES ASSUME Mild PROVE \A r \in Record : Tame(r)'
  BY MayStays DEF MildInv, Mild, Without
<1>1. TypeInv /\ LockInv /\ \A r \in Record : Known(r) /\ Tame(r) /\ may' = may
  BY KnownRecord DEF AllInv, IInv, Known
<1>2. ASSUME NEW q \in Record, Apart(q), Tame(q)' PROVE \A r \in Record : Tame(r)'
  <2>1. ASSUME NEW r \in Record \ {q} PROVE Tame(r)'
    BY <1>1, <1>2, TameFrame DEF Apart
  <2>2. QED
    BY <1>2, <2>1
<1>3. ASSUME NEW w \in Worker, NEW q \in Record, Only(w, q), WorkerStep(w) \/ Crash(w),
             ~MarkAnchorFailed(w)
      PROVE  \A r \in Record : Tame(r)'
  <2>1. Apart(q)
    BY <1>1, <1>3, RunApart DEF Only
  <2>2. Tame(q)'
    BY <1>1, <1>3, GoesStep, TameGoes, TameEnds DEF WorkerStep
  <2>3. QED
    BY <1>2, <2>1, <2>2
<1>4. ASSUME NEW w \in Worker, run[w].pc = "failed", MarkAnchorFailed(w) \/ Crash(w)
      PROVE  \A r \in Record : Tame(r)'
  <2>1. PICK q \in Record : q = run[w].rec
    BY <1>1, <1>4 DEF TypeInv, GoodRun
  <2>2. Apart(q) /\ Tame(q)'
    BY <1>1, <1>4, <2>1, RunApart, TameHandler DEF WorkerStep
  <2>3. QED
    BY <1>2, <2>2
<1>5. ASSUME NEW w \in Worker, WorkerStep(w) \/ Crash(w)
      PROVE  \A r \in Record : Tame(r)'
  <2>1. MarkAnchorFailed(w) => run[w].pc = "failed"
    BY DEF MarkAnchorFailed, At
  <2>2. run[w].pc \in Live \/ run[w].pc = "failed"
    <3>1. run[w].pc \in PC /\ run[w].pc # "idle"
      BY <1>1, <1>5
         DEF WorkerStep, Read, Claim, Send, AwaitReceipt, MarkAnchored, Return, Throw,
             MarkAnchorFailed, Crash, At, TypeInv, GoodRun, Run
    <3>2. QED
      BY <3>1 DEF PC, Live
  <2>3. CASE run[w].pc \in Live
    <3>1. \E q \in Record : Only(w, q)
      BY <2>3, OnlyRun DEF AllInv
    <3>2. ~MarkAnchorFailed(w)
      BY <2>1, <2>3 DEF Live
    <3>3. QED
      BY <1>3, <1>5, <3>1, <3>2
  <2>4. CASE run[w].pc = "failed"
    BY <1>4, <1>5, <2>4
       DEF WorkerStep, Read, Claim, Send, AwaitReceipt, MarkAnchored, Return, Throw, At
  <2>5. QED
    BY <2>2, <2>3, <2>4
<1>6. ASSUME NEW q \in Record, Create(q) \/ Stalled(q)
      PROVE  \A r \in Record : Tame(r)'
  BY <1>1, <1>2, <1>6, JobApart, TameJob DEF AllInv
<1>7. ASSUME NEW w \in Worker, NEW q \in Record, Take(w, q)
      PROVE  \A r \in Record : Tame(r)'
  BY <1>1, <1>2, <1>7, JobApart, TameTake DEF AllInv
<1>8. CASE UNCHANGED <<row, job, run>>
  BY <1>1, <1>8, TameFrame
<1>9. QED
  BY <1>5, <1>6, <1>7, <1>8 DEF Next, Mine, vars

LEMMA SettledStep ==
  ASSUME AllInv, [Next]_vars, Mild, NEW r \in Record, Settled(r)
  PROVE  row'[r] = row[r]
<1>1. TypeInv /\ LockInv /\ Known(r)
  BY KnownRecord DEF AllInv, IInv
<1>2. ASSUME NEW q \in Record \ {r}, Apart(q) PROVE row'[r] = row[r]
  BY <1>2 DEF Apart
<1>3. ASSUME NEW w \in Worker, WorkerStep(w) PROVE row'[r] = row[r]
  <2>1. run[w].pc # "idle" /\ run[w].rec \in Record
    BY <1>1, <1>3
       DEF WorkerStep, Read, Claim, Send, AwaitReceipt, MarkAnchored, Return, Throw,
           MarkAnchorFailed, At, TypeInv, GoodRun
  <2>2. CASE run[w].rec # r
    BY <1>1, <1>2, <1>3, <2>1, <2>2, RunApart
  <2>3. CASE run[w].rec = r
    <3>1. CASE MarkAnchorFailed(w)
      BY <1>1, <2>3, <3>1, TameHandler DEF MarkAnchorFailed, At, Settled
    <3>2. CASE Claim(w)
      BY <2>3, <3>2 DEF Claim, Settled, rec
    <3>3. CASE MarkAnchored(w)
      <4>1. run[w].pc = "mark" /\ job[r].state = "active"
        BY <1>1, <2>3, <3>3 DEF MarkAnchored, At, Known, Live
      <4>2. QED
        BY <1>1, <2>3, <4>1 DEF Known, Tame, Before, Settled
    <3>4. QED
      BY <1>3, <3>1, <3>2, <3>3 DEF WorkerStep, Read, Send, AwaitReceipt, Return, Throw
  <2>4. QED
    BY <2>2, <2>3
<1>4. ASSUME NEW q \in Record, Create(q) PROVE row'[r] = row[r]
  BY <1>1, <1>2, <1>4, JobApart DEF Create, Settled
<1>5. QED
  BY <1>3, <1>4 DEF Next, Take, Crash, Stalled, Mine, vars

\* No state comes after anchored or anchor_failed, although neither UPDATE asks
\* for the state, if a job is tried more than once, locks last, no reply is
\* lost, and processes do not die where the database fails.
THEOREM SettledFinal ==
  ASSUME 1 < Attempts
  PROVE  Spec => SettledIsFinal
<1>1. Init => MildInv
  BY MildInit
<1>2. AllInv /\ [Next]_vars => MildInv'
  BY MildStep
<1>3. AllInv /\ [Next]_vars =>
        [\A r \in Record :
           /\ Without({"stall", "lostReply"}) /\ ~ {"crash", "db"} \subseteq may
           /\ Settled(r)
           => row'[r] = row[r]]_vars
  BY SettledStep DEF Mild
<1>4. QED
  BY EndInv, <1>1, <1>2, <1>3, PTL DEF Spec, SettledIsFinal, AllInv
-----------------------------------------------------------------------------
(***************************************************************************)
(* What agents are told. An answer is the record of some moment, and what  *)
(* it says cannot be taken back: the chain only grows, a claimed record is *)
(* never unclaimed, and final states stay.                                 *)
(***************************************************************************)

\* A record has no hash before it is marked.
HashInv == \A r \in Record : row[r].state = "anchoring" => row[r].tx = NoTx

AnswerOf(r, ans) ==
  /\ ans.state # "absent" => row[r].state # "absent"
  /\ ans.state = "anchored" => ans.tx \in mined /\ sent[ans.tx] = r
  /\ ans.state = "anchoring" => ans.tx = NoTx /\ ~Unclaimed(r)
  /\ ans.terminal => ans.state \in {"anchored", "anchor_failed"}
  /\ ans.terminal /\ Mild => row[r] = [state |-> ans.state, tx |-> ans.tx]

HeldInv ==
  /\ heldState \in [Record -> Told]
  /\ \A r \in Record : AnswerOf(r, heldState[r])

LEMMA ChainGrows ==
  ASSUME TypeInv, [Next]_vars
  PROVE  /\ mined \subseteq mined'
         /\ \A t \in Tx : sent[t] # NoRecord => sent'[t] = sent[t]
BY DEF Next, WorkerStep, Take, Read, Claim, Send, AwaitReceipt, MarkAnchored, Return,
       Throw, MarkAnchorFailed, Crash, Create, Stalled, Mine, vars, TypeInv

\* How a step may change a record.
Changed(r) ==
  \/ row'[r] = row[r]
  \/ /\ row[r].state = "absent" /\ row'[r].state = "pending_anchor"
     /\ row'[r].tx = row[r].tx
  \/ /\ row[r].state = "pending_anchor" /\ row'[r].state = "anchoring"
     /\ row'[r].tx = row[r].tx
  \/ row'[r].state \in {"anchored", "anchor_failed"}

LEMMA RecordStep ==
  ASSUME TypeInv, [Next]_vars, NEW r \in Record
  PROVE  Changed(r)
<1>1. \A w \in Worker : run[w].pc # "idle" => rec(w) \in Record
  BY DEF TypeInv, GoodRun, rec
<1>2. ASSUME NEW w \in Worker, Claim(w) PROVE Changed(r)
  <2>1. PICK q \in Record : q = rec(w)
    BY <1>1, <1>2 DEF Claim, At
  <2>2. \/ row' = row
        \/ row[q].state = "pending_anchor" /\ row' = [row EXCEPT ![q].state = "anchoring"]
    BY <1>2, <2>1 DEF Claim
  <2>3. QED
    BY <2>2 DEF Changed, TypeInv, Row
<1>3. ASSUME NEW w \in Worker, MarkAnchored(w) \/ MarkAnchorFailed(w) PROVE Changed(r)
  <2>1. PICK q \in Record : q = rec(w)
    BY <1>1, <1>3 DEF MarkAnchored, MarkAnchorFailed, At
  <2>2. \/ row' = row
        \/ row' = [row EXCEPT ![q] = [state |-> "anchored", tx |-> run[w].tx]]
        \/ row' = [row EXCEPT ![q].state = "anchor_failed"]
    BY <1>3, <2>1 DEF MarkAnchored, MarkAnchorFailed
  <2>3. QED
    BY <2>2 DEF Changed, TypeInv, Row
<1>4. ASSUME NEW q \in Record, Create(q) PROVE Changed(r)
  BY <1>4 DEF Create, Changed, TypeInv, Row
<1>5. CASE row' = row
  BY <1>5 DEF Changed
<1>6. QED
  BY <1>2, <1>3, <1>4, <1>5
     DEF Next, WorkerStep, Take, Read, Send, AwaitReceipt, Return, Throw, Crash,
         Stalled, Mine, vars

LEMMA HashStep ==
  TypeInv /\ SendInv /\ HashInv /\ [Next]_vars => HashInv'
<1> SUFFICES ASSUME TypeInv, SendInv, HashInv, [Next]_vars, NEW r \in Record,
                    row'[r].state = "anchoring"
             PROVE  row'[r].tx = NoTx
  BY DEF HashInv
<1>1. QED
  BY RecordStep DEF Changed, HashInv, SendInv, Unclaimed

\* What was told of a record goes on to be so.
LEMMA AnswerStays ==
  ASSUME AllInv, [Next]_vars, NEW r \in Record, NEW ans \in Told, AnswerOf(r, ans)
  PROVE  /\ ans.state # "absent" => row'[r].state # "absent"
         /\ ans.state = "anchored" => ans.tx \in mined' /\ sent'[ans.tx] = r
         /\ ans.state = "anchoring" => ans.tx = NoTx /\ row'[r].state # "pending_anchor"
                                        /\ row'[r].state # "absent"
         /\ ans.terminal => ans.state \in {"anchored", "anchor_failed"}
         /\ ans.terminal /\ Mild => row'[r] = [state |-> ans.state, tx |-> ans.tx]
<1>1. TypeInv
  BY DEF AllInv, IInv
<1>2. Changed(r)
  BY <1>1, RecordStep
<1>3. ans.state # "absent" => row'[r].state # "absent"
  BY <1>2 DEF Changed, AnswerOf
<1>4. ans.state = "anchoring" => ans.tx = NoTx /\ row'[r].state # "pending_anchor"
                                 /\ row'[r].state # "absent"
  BY <1>2 DEF Changed, AnswerOf, Unclaimed
<1>5. ans.state = "anchored" => ans.tx \in mined' /\ sent'[ans.tx] = r
  <2>1. r # NoRecord
    BY AnchorV1Assumption
  <2>2. QED
    BY <1>1, <2>1, ChainGrows DEF AnswerOf, TypeInv
<1>6. ans.terminal /\ Mild => row'[r] = [state |-> ans.state, tx |-> ans.tx]
  <2> SUFFICES ASSUME ans.terminal, Mild
      PROVE  row'[r] = [state |-> ans.state, tx |-> ans.tx]
    OBVIOUS
  <2>1. row[r] = [state |-> ans.state, tx |-> ans.tx] /\ Settled(r)
    BY DEF AnswerOf, Settled
  <2>2. QED
    BY <2>1, SettledStep
<1>7. QED
  BY <1>3, <1>4, <1>5, <1>6 DEF AnswerOf

\* An answer is true of the record it is read from.
LEMMA FreshAnswer ==
  ASSUME AllInv, HashInv, NEW r \in Record, row[r].state # "absent"
  PROVE  /\ formatRecordResponse(r) \in Told
         /\ AnswerOf(r, formatRecordResponse(r))
<1> DEFINE ans == formatRecordResponse(r)
<1>1. row[r] \in Row
  BY DEF AllInv, IInv, TypeInv
<1>2. ans = [state |-> row[r].state, tx |-> row[r].tx,
             terminal |-> row[r].state \in {"anchored", "anchor_failed"}]
  BY DEF formatRecordResponse, buildAnchorBlock, getStateInfo
<1>3. row[r].state = "anchored" => row[r].tx \in mined /\ sent[row[r].tx] = r
  BY DEF AllInv, IInv, ChainInv
<1>4. row[r] = [state |-> row[r].state, tx |-> row[r].tx]
  BY <1>1 DEF Row
<1>5. ans \in Told
  BY <1>1, <1>2 DEF Told, Row
<1>6. /\ ans.state = row[r].state /\ ans.tx = row[r].tx
      /\ ans.terminal = (ans.state \in {"anchored", "anchor_failed"})
  BY <1>2
<1> HIDE DEF ans
<1>7. AnswerOf(r, ans)
  BY <1>3, <1>4, <1>6 DEF AnswerOf, HashInv, Unclaimed
<1>8. QED
  BY <1>5, <1>7 DEF ans

LEMMA HeldStep ==
  ASSUME AllInv, HashInv, HeldInv, WaitNext \/ UNCHANGED waitVars
  PROVE  HeldInv'
<1>1. HeldInv =>
        /\ heldState \in [Record -> Told]
        /\ \A r \in Record : AnswerOf(r, heldState[r])
  BY DEF HeldInv
<1>2. CASE [Next]_vars /\ heldState' = heldState
  <2>1. ASSUME NEW r \in Record PROVE AnswerOf(r, heldState[r])'
    <3>1. /\ heldState[r] \in Told /\ AnswerOf(r, heldState[r]) /\ may' = may
      BY <1>1, <1>2, MayStays
    <3>2. QED
      BY <1>2, <3>1, AnswerStays DEF AnswerOf, Unclaimed, Mild, Without
  <2>2. QED
    BY <1>1, <1>2, <2>1 DEF HeldInv
<1>3. ASSUME NEW r \in Record, NEW ans \in Told, AnswerOf(r, ans), Tell(r, ans)
      PROVE  HeldInv'
  <2>1. /\ UNCHANGED <<row, mined, sent, may>>
        /\ heldState' = [heldState EXCEPT ![r] = ans]
    BY <1>3 DEF Tell, vars
  <2>2. heldState' \in [Record -> Told]
    BY <1>1, <1>3, <2>1
  <2>3. ASSUME NEW q \in Record PROVE AnswerOf(q, heldState[q])'
    <3>1. AnswerOf(q, heldState'[q])
      BY <1>1, <1>3, <2>1
    <3>2. QED
      BY <2>1, <3>1 DEF AnswerOf, Unclaimed, Mild, Without
  <2>4. QED
    BY <2>2, <2>3 DEF HeldInv
<1>4. ASSUME NEW r \in Record, waitForAnchor(r) \/ getRecord(r) PROVE HeldInv'
  <2> DEFINE late == [state |-> "pending_anchor", tx |-> NoTx,
                      terminal |-> getStateInfo("pending_anchor")]
  <2>1. row[r].state # "absent"
    BY <1>4 DEF waitForAnchor, getRecord
  <2>2. late \in Told /\ AnswerOf(r, late)
    <3>1. late = [state |-> "pending_anchor", tx |-> NoTx, terminal |-> FALSE]
      <4>1. getStateInfo("pending_anchor") = FALSE
        BY DEF getStateInfo
      <4>2. QED
        BY <4>1
    <3> HIDE DEF late
    <3>2. QED
      BY <2>1, <3>1 DEF Told, State, AnswerOf
  <2>3. QED
    BY <1>3, <1>4, <2>1, <2>2, FreshAnswer DEF waitForAnchor, getRecord, late
<1>5. CASE UNCHANGED waitVars
  <2>1. UNCHANGED vars /\ heldState' = heldState
    BY <1>5 DEF waitVars, vars
  <2>2. QED
    BY <1>2, <2>1
<1>6. QED
  BY <1>2, <1>4, <1>5 DEF WaitNext, exportRecord, waitForRecord

LEMMA AskingStep == [WaitNext]_waitVars => [Next]_vars
BY DEF WaitNext, waitForAnchor, exportRecord, waitForRecord, getRecord, Tell,
       waitVars, vars

\* Waits, reads and exports are no part of the anchoring, so that it goes on as
\* specified while agents ask.
LEMMA AskingOnlyReads == WaitSpec => Spec
<1>1. WaitInit => Init
  BY DEF WaitInit
<1>2. QED
  BY <1>1, AskingStep, PTL DEF WaitSpec, Spec

\* What an agent is told of a v1 record, by a wait, a read, an export or the
\* SDK, holds ever after: anchored comes with the hash of a mined transaction
\* of the record, a final state is final (stateInfo.ts:11) where SettledIsFinal
\* has it so, and a record told anchoring never waits again.
THEOREM AnswersKept ==
  ASSUME 1 < Attempts
  PROVE  WaitSpec => []AnswersHold
<1>1. WaitInit => Init /\ MildInv /\ HashInv /\ HeldInv
  <2>1. WaitInit => HashInv
    BY DEF WaitInit, Init, HashInv
  <2>2. WaitInit => HeldInv
    BY DEF WaitInit, Init, HeldInv, Told, Nobody, State, AnswerOf
  <2>3. QED
    BY <2>1, <2>2, MildInit DEF WaitInit
<1>2. [WaitNext]_waitVars => [Next]_vars
  BY AskingStep
<1>3. WaitSpec => Spec
  BY AskingOnlyReads
<1>4. WaitSpec => []AllInv
  <2>1. AllInv /\ [Next]_vars => MildInv'
    BY MildStep
  <2>2. QED
    BY <1>1, <1>2, <1>3, <2>1, EndInv, PTL DEF WaitSpec, AllInv
<1>5. AllInv /\ HashInv /\ [WaitNext]_waitVars => HashInv'
  BY <1>2, HashStep DEF AllInv, IInv
<1>6. AllInv /\ HashInv /\ HeldInv /\ [WaitNext]_waitVars => HeldInv'
  BY HeldStep
<1>7. HeldInv => AnswersHold
  BY DEF HeldInv, AnswerOf, AnswersHold, Mild, Unclaimed
<1>8. QED
  BY <1>1, <1>4, <1>5, <1>6, <1>7, PTL DEF WaitSpec
=============================================================================
