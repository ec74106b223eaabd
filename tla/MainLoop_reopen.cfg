\* Two log devices that are retried by timers with the same callback.
CONSTANTS
  Pipes = {p1, p2}
  Conns = {c1}
  Listener = Listener
  Monitor = Monitor
  Channel = Channel
  Diag = Diag
  NoHandler = NoHandler
  MaxClients = 1
  TimerIds = {t1, t2}
  NoTimer = NoTimer
  MaxLag = 2
SYMMETRY Symmetry
SPECIFICATION Spec
INVARIANTS
  ReopenPending
