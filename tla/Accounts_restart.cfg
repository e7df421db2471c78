SPECIFICATION Spec
CONSTANTS
  u1 = u1
  u2 = u2
  t1 = t1
  p1 = p1
  Users <- TwoUsers
  Tokens <- OneToken
  Temps <- OneTemp
  MaxTime = 4
  MaxCount = 3
  Expiry = 2
  Retention = 3
  PendingTtl = 1
  LockTime = 2
  Threshold = 2
  Faults = {"save", "load"}
  NoToken = NoToken
  NoSession = NoSession
  NoPending = NoPending
SYMMETRY Swaps
INVARIANTS
  TypeOK
  RevokedStaysOut
  LockSurvives
