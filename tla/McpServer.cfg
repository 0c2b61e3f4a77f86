SPECIFICATION MCSpec
CONSTANTS
  Content = {c1, c2}
  Call = {k1, k2}
  Conf = {b1, b2}
  Fee = 2
  Gas = 1
  MaxGas = 1
  MaxTotal = 3
  MaxSpend = 6
  MaxRecords = 3
  MaxBatch = 2
  MaxPending = 1
  BatchSizes = {2}
  Dedup = TRUE
  MaxDropped = 1
  NoConf = NoConf
  FaultSets = {{"api", "fee"}, {"lost", "fee", "ledger", "crash"}}
SYMMETRY Symmetry
INVARIANTS
  TypeOK  LedgerIsComplete BatchReportIsTrue
