SPECIFICATION Spec
CONSTANTS
  Content = {c1, c2}
  Nonce = {n1, n2}
  Transfer = {t1}
  Spelling = {lower, mixed}
  Usdc = {u1}
  NoPay = NoPay
  NoContent = NoContent
  NoNonce = NoNonce
  Req = {r1}
  FaultSets = {{}}
SYMMETRY Symmetry
INVARIANT OneRecordPerTransfer
