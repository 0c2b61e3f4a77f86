SPECIFICATION FairQueueSpec
CONSTANTS
  Decl = {d1}
  NoDecl = NoDecl
  Worker = {w1}
  Tx = {t1, t2}
  NoTx = NoTx
  MaxAttempts = 2
  MaxFaults = 0
  FaultSets = {{"rpc", "prevLost", "unenqueued"}}
  Extra = {e1, e2, e3}
  NoJob = NoJob
  KeepCompleted = 1
  KeepFailed = 1
  MaxStalled = 1
  ReconcileLimit = 1
PROPERTY Settles
