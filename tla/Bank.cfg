SPECIFICATION Spec
CONSTANTS
  jane = jane
  byId = byId
  byName = byName
  byPart = byPart
  byRest = byRest
  byNone = byNone
  Roster <- ListOrder
  Queries = {byId, byName, byPart, byRest, byNone}
  Exact <- ExactOf
  ByLast <- ByLastOf
  Matches <- MatchesOf
  PageSize = 1
  rest = rest
  d1 = d1
  d2 = d2
  k1 = k1
  k2 = k2
  k3 = k3
  teller = teller
  wrong = wrong
  None = None
  Members = {jane, rest}
  Restricted = {rest}
  Disputes = {d1, d2}
  DisputeOf <- JanesDisputes
  SeedFiled = {d2}
  Cards = {k1, k2, k3}
  CardOf <- JanesCards
  Business = {k3}
  SeedBlocked = {k2}
  RequireAuth = TRUE
  Users = {teller}
  Credentials = {teller, wrong}
  SessionTtl = 0
  TokenTtl = 0
  Limits = {0}
  HitCap = 1
  s1 = s1
  s2 = s2
  Slots = {s1, s2}
  Posts <- SomePosts
  MaxClock = 1
  MaxSessions = 1
  MaxTokens = 3
  MaxSeq = 2
INVARIANTS
  TypeOK
  TablesAgree
  EffectsWereReviewed
  OneRowPerReview
  HalfDoneIsFinishable
  PagesTellTheCore
PROPERTIES
  EffectSpendsItsReview
  AcceptedIsDone
SYMMETRY Waiting
CHECK_DEADLOCK FALSE
