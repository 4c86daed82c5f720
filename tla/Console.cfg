\* Two sessions at the console, a replay run with auto-resume and a discovery
\* run; two operators.
SPECIFICATION Spec
CONSTANTS
  s1 = s1
  s2 = s2
  p1 = p1
  p2 = p2
  teller01 = teller01
  teller02 = teller02
  Surfaces = {s1, s2}
  Planes = {p1, p2}
  SurfaceOf <- TwoSessions
  Discovering = {p2}
  Scripted = {}
  AutoResume = {p1}
  Ids = {i1, i2}
  Operators <- TwoTellersAndBlank
  None = None
SYMMETRY Sym
INVARIANTS OpenSlotIsAwaited OneHolderAtConsole
PROPERTIES OperatorIsKept
