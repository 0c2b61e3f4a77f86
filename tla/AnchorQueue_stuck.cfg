SPECIFICATION FairQueueSpec
CONSTANTS
  Decl = {d1}
  NoDecl = NoDecl
  Worker = {w1}
  Tx = {t1}
  NoTx = NoTx
  MaxAttempts = 1
  MaxFaults = 1
  FaultSets = {{"crash"}}
  Extra = {e1, e2}
  NoJob = NoJob
  KeepCompleted = 1
  KeepFailed = 1
  MaxStalled = 1
  ReconcileLimit = 1
PROPERTY CrashesAreHealed
