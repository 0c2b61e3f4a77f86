SPECIFICATION Spec
CONSTANTS
  Decl = {d1}
  NoDecl = NoDecl
  Worker = {w1, w2}
  Tx = {t1, t2, t3}
  NoTx = NoTx
  MaxAttempts = 2
  MaxFaults = 2
  FaultSets = {{"unrecorded"}}
SYMMETRY Symmetry
INVARIANT NeverTwice
