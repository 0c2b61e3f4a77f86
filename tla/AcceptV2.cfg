SPECIFICATION Spec
CONSTANTS
  a1 = a1
  a2 = a2
  Agent = {a1, a2}
  Declaration <- MCDeclaration
  NoDecl = NoDecl
  Req = {r1, r2}
  AgentDailyQuota = 1
  GlobalDailyQuota = 2
SYMMETRY Symmetry
INVARIANTS TypeOK AnswersAreTrue ResubmissionIsIdempotent QuotasHold
