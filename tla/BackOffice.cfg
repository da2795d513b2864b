SPECIFICATION Spec
CONSTANTS
  Call = {c1, c2}
  Slot = {s1}
  MaxCalls = 3
  MaxStep = 2
  MaxAborts = 1
  Ip = {i1, i2}
  Attempt = {a1, a2}
  LOGIN_HARD_LOCK = 2
  MaxUnlocks = 2
  MaxUncounted = 1
  Stream = {p1, p2, p3}
  SSE_CAP_PER_USER = 2
  MaxRedisFaults = 1
  Caller = {k1, k2}
  Browser = {b1}
  MaxGrants = 2
  MaxTokens = 3
  newer = newer
  d1 = d1
  m1 = m1
  u1 = u1
  IdJob = {d1}
  ManualJob = {m1}
  MappedJob = {u1}
  OtherJob = {newer}
  StartQueues <- MCQueues
  PAGE = 2
  MaxMoves = 2
  Response <- MCResponse
  Sku = {"A", "B"}
  MaxResults = {1}
  MaxRequests = 1
  ApiToken = {t1, t2}
  Tenant = {h1, h2}
  Deal = {x1, x2}
  Address = {l1, l2}
  Header = {ik}
  NoHeader = NoHeader
  AnyDeal = AnyDeal
  Trigger = {r1, r2}
  MaxTriggers = 2
  MaxApiFaults = 1
  Editor = {e1, e2}
  Value = {1}
  DefaultValue = 0
  Unset = Unset
  MaxEdits = 2
  MaxPuts = 2
CHECK_DEADLOCK FALSE
INVARIANTS
  TypesOK
  CodesWorkOnce
  MfaAsLeft
  OldCredentialsEndSessions
  DeactivationIsFinal
  HardLockHolds
  SlotsCounted
  NewestTokensServe
  ErasureLeavesNothing
  AnswersAddUp
  DuplicatesAreDuplicates
PROPERTY SavesWhatWasEdited
