SPECIFICATION Spec
CONSTANTS
  Content = {c1, c2}
  Nonce = {n1, n2}
  Transfer = {t1}
  Spelling = {lower}
  Usdc = {u1}
  NoPay = NoPay
  NoContent = NoContent
  NoNonce = NoNonce
  Req = {r1, r2}
  FaultSets = {{"rpc", "redis"}, {"rpc", "redis", "crash"},
               {"db", "lostReply", "crash"}}
SYMMETRY Symmetry
INVARIANTS RecordsArePaid AttemptsAreTrue MoneyLostOnlyToConflict
