\* A log device, the one client that is served at a time, a transaction and
\* the server of the states, with fewer timers than they could use
CONSTANTS
  Pipes = {p1}
  Conns = {c1}
  Listener = Listener
  Monitor = Monitor
  Channel = Channel
  Diag = Diag
  NoHandler = NoHandler
  MaxClients = 1
  TimerIds = {t1, t2}
  NoTimer = NoTimer
  MaxLag = 2
SPECIFICATION FairSpec
INVARIANTS
  DispatchLive
  TimersSorted
  NoStrayTimer
  ListenerPolled
PROPERTIES
  ThreadPolls
