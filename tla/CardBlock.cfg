\* block-and-reissue-card: two risky steps that the core refuses a second time.
\* One run, a dry run or one that asks a person, under more faults.
SPECIFICATION FairSpec
CONSTANTS
  r1 = r1
  r2 = r2
  k1 = k1
  k2 = k2
  None = None
  Runs = {r1}
  Keys = {k1}
  KeyOf <- OneKey
  N = 3
  Navigates = TRUE
  Confirms = {2, 3}
  Checked = {1, 2, 3}
  Unique = {2, 3}
  CardForms = {2, 3}
  MissStops = {}
  Budget = 2
  Approved = {}
  Attended = {r1}
  MayBeDry = {r1}
  MaxFaults = 3
  Many = 2
INVARIANTS
  ApprovedOnly
PROPERTY EndsOrAsks
