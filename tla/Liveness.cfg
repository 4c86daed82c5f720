\* Liveness: two runs on one session, one at the console and one scripted; no
\* symmetry.
SPECIFICATION FairSpec
CONSTANTS
  s1 = s1
  s2 = s2
  p1 = p1
  p2 = p2
  teller01 = teller01
  teller02 = teller02
  Surfaces = {s1}
  Planes = {p1, p2}
  SurfaceOf <- OneSession
  Discovering = {}
  Scripted = {p2}
  AutoResume = {}
  Ids = {i1, i2}
  Operators = {teller01}
  None = None
PROPERTIES EveryRequestAnswered SessionComesBack
