SPECIFICATION FairSpec
CONSTANTS
  Record = {r1}
  Worker = {w1, w2}
  Tx = {t1, t2}
  NoTx = NoTx
  NoRecord = NoRecord
  Attempts = 5
  MaxStalled = 2
  FaultSets = {{"rpc"}}
CHECK_DEADLOCK FALSE
INVARIANT FailedMeansTried
