\* Three transactions queued: two that execute, on the diag device and on the AT
\* controller, and one that waits.
CONSTANTS
  Client = {t1, t2, t3, t4, t5, t6}
  Trans = {t1, t2, t3, t4, t5, t6}
  NoClient = null
  NoTrans = null
  Timer = {n1, n2}
  NoTimer = NoTimer
  MaxWire = 2
  MaxQueue = 3
  MaxEvents = 2
SYMMETRY Symmetry
SPECIFICATION Spec
INVARIANTS
  AtInv
  CommandOwned
  QueueMoves
  QueueHasAll
  ExecutedOnce
  QueriesGoOn
CHECK_DEADLOCK FALSE
