SPECIFICATION FairSpec
CONSTANTS
  a = a
  b = b
  w = w
  ua = ua
  g1 = g1
  g2 = g2
  g3 = g3
  s1 = s1
  s2 = s2
  Users = {a, b}
  Window = w
  UserGroups = {ua}
  WindowGroups <- MCWindowGroups
  Streams = {s1, s2}
  StreamOf <- MCStreamOf
  Size <- MCSize
  MaxInFlight = 2
  MaxOutputBytes = 3
  None = None
  MaxOps = 4
  MaxFaults = 1
INVARIANT ReservationsSettle
INVARIANT OwnersOutliveWork
PROPERTY QuarantineDisables
PROPERTY CallsReturn
CHECK_DEADLOCK FALSE
