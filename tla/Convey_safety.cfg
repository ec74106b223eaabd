\* One event of each kind.
CONSTANTS
  c1 = c1
  c2 = c2
  u1 = u1
  u2 = u2
  Workers = {w1, w2}
  Clients = {c1, c2}
  NoClient = NoClient
  Units = {u1, u2}
  NoUnit = NoUnit
  Fixed = {u2}
  Media = {internal, external}
  NoMedia = NoMedia
  UnitsOf <- OneEach
  Kinds = {"change", "inactive", "cancel", "clear"}
  MaxEvents = 1
SYMMETRY Symmetry
SPECIFICATION Spec
INVARIANTS
  UnitInOnePlace
  TableCountsUnits
  ClearWaits
  UnitsFollowMedium
\* clear() may throw, and a notification that is lost may leave main in poll().
CHECK_DEADLOCK FALSE
