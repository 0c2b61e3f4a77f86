SPECIFICATION MCSpec
CONSTANTS
  Content = {c1, c2}
  Nonce = {n1, n2}
  Transfer = {t1, t2}
  Spelling = {lower}
  Node = lower
  Usdc = {u1}
  NoPay = NoPay
  NoContent = NoContent
  NoNonce = NoNonce
  NoReq = NoReq
  Req = {r1, r2}
  FaultSets = {{}, {"lostReply", "crash"}}
  Mode = {"fee", "byo", "x402", "batch"}
  MaxRetries = 1
  NetFaultSets = {{"timeout", "reverted"}, {"unreached", "wallet"}}
  Digest = {d1, d2}
  NoClaim = NoClaim
  MaxBatch = 5
  MaxProof = 2
CHECK_DEADLOCK FALSE
INVARIANTS SdkTypeOK OutcomeIsTrue FeeLostOnlyToConflict ProofsBind
