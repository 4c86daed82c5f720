\* One session, a replay run at the console and a scripted one; three requests,
\* so that a nested escalation and a refused one fit in one behaviour.
SPECIFICATION Spec
CONSTANTS
  s1 = s1
  s2 = s2
  p1 = p1
  p2 = p2
  teller01 = teller01
  teller02 = teller02
  Surfaces = {s1}
  Planes = {p1, p2}
  SurfaceOf <- OneSession
  Discovering = {}
  Scripted = {p2}
  AutoResume = {}
  Ids = {i1, i2, i3}
  Operators = {teller01}
  None = None
SYMMETRY Sym
INVARIANTS TypeOK HeldByItsCall HumanDrivesWhilePaused RecordAgreesWithDecision RunsOnlyWhenHandedBack
PROPERTIES Lifecycle
