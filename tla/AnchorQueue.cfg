SPECIFICATION QueueSpec
CONSTANTS
  Decl = {d1}
  NoDecl = NoDecl
  Worker = {w1, w2}
  Tx = {t1}
  NoTx = NoTx
  MaxAttempts = 2
  MaxFaults = 1
  FaultSets = {
    {"rpc", "prevLost", "unenqueued", "unlisted"},
    {"crash", "unrecorded", "stall", "db", "lostReply", "rpc", "prevLost",
     "unenqueued", "unlisted", "unrequeued"}}
  Extra = {e1, e2}
  NoJob = NoJob
  KeepCompleted = 1
  KeepFailed = 1
  MaxStalled = 1
  ReconcileLimit = 1
SYMMETRY Symmetry
INVARIANTS NeverStranded JobsAgree
PROPERTY ImplementsAnchoring
