\* One request with two units, one work routine, two changes of the media.
CONSTANTS
  c1 = c1
  c2 = c2
  u1 = u1
  u2 = u2
  Workers = {w1}
  Clients = {c1}
  NoClient = NoClient
  Units = {u1, u2}
  NoUnit = NoUnit
  Fixed = {}
  Media = {internal, external}
  NoMedia = NoMedia
  UnitsOf <- OneOfTwo
  Kinds = {"change", "inactive"}
  MaxEvents = 2
SPECIFICATION FairSpec
INVARIANTS
  SuccessMeansDone
PROPERTIES
  RequestEnds
\* When every request has ended all actors wait.
CHECK_DEADLOCK FALSE
