\* open-sub-account: the core opens as many as it is asked for. A run approved
\* in its options, or dry, and a run that asks a person, with one key.
SPECIFICATION Spec
CONSTANTS
  r1 = r1
  r2 = r2
  k1 = k1
  k2 = k2
  None = None
  Runs = {r1, r2}
  Keys = {k1}
  KeyOf <- OneKey
  N = 2
  Navigates = FALSE
  Confirms = {2}
  Checked = {2}
  Unique = {}
  CardForms = {}
  MissStops = {1}
  Budget = 1
  Approved = {r1}
  Attended = {r2}
  MayBeDry = {r1}
  MaxFaults = 2
  Many = 2
INVARIANTS
  TypeOK
  NoActionAfterSuccess
  SuccessIsReal
  OnceUnlessMoved
