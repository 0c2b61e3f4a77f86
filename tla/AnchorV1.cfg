SPECIFICATION MCSpec
CONSTANTS
  Record = {r1}
  Worker = {w1, w2}
  Tx = {t1, t2}
  NoTx = NoTx
  NoRecord = NoRecord
  Attempts = 5
  MaxStalled = 2
  FaultSets <- MCFaultSets
  Wallet = {a1, a2}
  Registering = a1
  Hook = {h1, h2, h3}
  Change = {e1}
  NoWallet = NoWallet
  NoHook = NoHook
  NoChange = NoChange
  MAX_WEBHOOKS_PER_WALLET = 1
  AUTH_WINDOW = 1
  Ages <- MCAges
  Post = {p1, p2}
  Slot = {s1}
  HookAttempts = 2
  HookStalls = 1
  HookFaultSets = {{}, {"db", "key", "dns", "refused", "late"},
                   {"redis", "late", "crash"}}
CHECK_DEADLOCK FALSE
INVARIANTS
  TypeOK SentOnce AnchoredOnChain EndedJobsSettle AnswersHold
  OvershootBounded AttemptsAreDistinct HeardOrGivenUp
PROPERTIES SettledIsFinal EventuallySettled DeliveriesEnd
