SPECIFICATION Spec
CONSTANTS
    p1 = p1  p2 = p2  k1 = k1  k2 = k2
    lookup = lookup  reissue = reissue  tenant9 = tenant9
    Processes = {p1, p2}
    Commands = {k1, k2}
    Caps = {lookup, reissue}
    Tenants = {tenant9}
    Window = 1
    Keep = 2
    Limits <- MCLimits
    DefaultLimits <- MCDefaultLimits
    Orders <- MCOrders
    MaxTime = 3
    MaxStarts = 3
SYMMETRY Symmetry
CONSTRAINT NothingVoid
INVARIANTS TypeOK NoHourOverflows KillStands
PROPERTIES LimiterKeepsPromise KilledPassesOnlyInTheGap
CHECK_DEADLOCK FALSE
