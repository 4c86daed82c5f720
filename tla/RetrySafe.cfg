\* DECISIONS.md D-010: a retry with the key of an ambiguous result is safe.
SPECIFICATION Spec
CONSTANTS
  r1 = r1
  r2 = r2
  k1 = k1
  k2 = k2
  None = None
  Runs = {r1, r2}
  Keys = {k1}
  KeyOf <- OneKey
  N = 2
  Navigates = FALSE
  Confirms = {2}
  Checked = {2}
  Unique = {}
  CardForms = {}
  MissStops = {1}
  Budget = 1
  Approved = {r1, r2}
  Attended = {}
  MayBeDry = {}
  MaxFaults = 1
  Many = 2
INVARIANT RetryIsSafe
