SPECIFICATION Spec
CONSTANTS
  Decl = {d1}
  NoDecl = NoDecl
  Worker = {w1, w2}
  Tx = {t1, t2, t3}
  NoTx = NoTx
  MaxAttempts = 2
  MaxFaults = 2
  FaultSets = {
    {"crash", "unrecorded", "stall", "db", "lostReply", "rpc", "prevLost"},
    {"crash", "unrecorded", "db", "rpc", "prevLost"},
    {"crash", "unrecorded", "db", "rpc"},
    {"crash", "db", "rpc"},
    {"crash"}}
SYMMETRY Symmetry
INVARIANTS
  TypeOK AnchoredHasProof SpendBounded ReceiptsVerify
  ClaimIsExclusive AnchoredOnce FailedIsUnanchored
PROPERTIES SettledIsFinal RetryChecksRecordedTx ImplementsLifecycle
