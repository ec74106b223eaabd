------------------------------ MODULE MainLoop ------------------------------
(***************************************************************************)
(* The main thread: Multiplexer::run() (multiplexer.cpp) polls, runs the   *)
(* timers that are due and calls the handlers that poll() reported, one    *)
(* after the other.  All that these do is done to the table, the array of  *)
(* the round and the list of timers under the loop's feet.  The handlers   *)
(* here are those that differ in that:                                     *)
(*                                                                         *)
(*   Listener   accepts clients until there are too many (ClientManager)   *)
(*   Conns      client connections, which come and go (ClientHandler)      *)
(*   Pipes      log devices: closed, opened again, retried by a timer that *)
(*              nobody holds a pointer to (LogPipeHandler)                 *)
(*   Diag       the diag device of a transaction of a further subsystem,   *)
(*              with a timer that is put off (TransSaveSleepLog)           *)
(*   Monitor    the state of the subsystems, from a server that may go     *)
(*              away (CpStateHandler)                                      *)
(*   Channel    results of the I/O thread, which free blocks (IoChannel)   *)
(*                                                                         *)
(* A callback is one step.  Time passes while the thread polls.            *)
(***************************************************************************)
EXTENDS Multiplexer, TimerManager, FiniteSets

CONSTANTS
  Pipes, Conns, Listener, Monitor, Channel, Diag,
  MaxClients,     \* the number of clients served at a time
  TimerIds,       \* addresses of timers; bounds the timers pending at a time
  NoTimer,        \* the null Timer pointer
  MaxLag          \* bound: how long poll() takes

ASSUME LoopAssumption ==
  /\ NoHandler \notin Pipes \cup Conns \cup {Listener, Monitor, Channel, Diag}
  /\ (Pipes \cup {Listener, Monitor, Channel}) \cap (Conns \cup {Diag}) = {}
  /\ Listener \notin Pipes \cup {Monitor, Channel} /\ Diag \notin Conns
  /\ IsFiniteSet(Conns)
  /\ MaxClients \in Nat \ {0}
  /\ MaxLag \in Nat
  /\ NoTimer \notin TimerIds

Handlers == Pipes \cup Conns \cup {Listener, Monitor, Channel, Diag}

\* Intervals of the timers: of 300 ms, 3 s and (that of the monitor) 3 s.
ReopenTime == 1
IdleTime == 2
ConnectTime == 2

VARIABLES
  phase,       \* where run() is: "poll", "timers" or "dispatch"
  mux,         \* the multiplexer
  m_timers,    \* its timers
  opened,      \* the handlers that exist and have a descriptor (m_fd >= 0)
  logging,     \* pipes whose log_mode_ is LM_NORMAL
  working,     \* pipes whose m_cp_state is CWS_WORKING
  read_timer,  \* m_timer of the transaction on Diag
  client       \* the client that waits for that transaction, or NoHandler

vars == <<phase, mux, m_timers, opened, logging, working, read_timer, client>>
pipeVars == <<logging, working>>
diagVars == <<read_timer, client>>

Init ==
  /\ phase = "poll"
  /\ mux = PreparePollingArray(
             RegisterFd(RegisterFd(RegisterFd(EmptyMultiplexer, Channel), Monitor), Listener))
  /\ m_timers = <<>>
  /\ opened = {Channel, Monitor, Listener}
  /\ logging = {}
  /\ working = Pipes
  /\ read_timer = NoTimer
  /\ client = NoHandler

\* The ids of the timers not allocated; that of the timer whose callback runs
\* (busy) still is.
FreeIds(l, busy) == TimerIds \ ({l[i].id : i \in DOMAIN l} \cup busy)

------------------------------------------------------------------------------
(* Opening and closing.                                                    *)

\* A handler tries to open its descriptor: it is registered, or a timer will
\* try again.  m and l are the multiplexer and the timers before.
OpenOrRetry(h, m, l, busy, interval, cb) ==
  \/ /\ opened' = opened \cup {h}
     /\ mux' = RegisterFd(m, h)
     /\ m_timers' = l
  \/ \E id \in FreeIds(l, busy) :
       /\ m_timers' = CreateTimer(l, id, interval, cb, h)
       /\ mux' = m
       /\ opened' = opened \ {h}

OpenLogDev(p, m, l, busy) == OpenOrRetry(p, m, l, busy, ReopenTime, "reopen_log_dev")

\* CpStateHandler::init().
ConnectServer(m, l, busy) == OpenOrRetry(Monitor, m, l, busy, ConnectTime, "connect_server")

\* The transaction on Diag is over: its handler is deleted, and the client is
\* told and may send its next request.
StopDiagTrans(m) ==
  /\ opened' = opened \ {Diag}
  /\ mux' = AddEvents(UnregisterFd(m, Diag), client)
  /\ read_timer' = NoTimer
  /\ client' = NoHandler

------------------------------------------------------------------------------
(* The loop.                                                               *)

\* poll() returns with the handlers that are ready or, after a timeout, none.
Poll ==
  /\ phase = "poll"
  /\ \E ready \in SUBSET {mux.current[i].handler : i \in DOMAIN mux.current},
        d \in 0 .. MaxLag :
       /\ NoHandler \notin ready
       /\ ready = {} => m_timers # <<>> /\ Head(m_timers).due <= d
       /\ mux' = Reported(mux, ready)
       /\ m_timers' = Elapse(m_timers, d)
  /\ phase' = "timers"
  /\ UNCHANGED <<opened, pipeVars, diagVars>>

\* A timer is due whose callback is cb; l are the timers after it.
Due(cb) ==
  /\ phase = "timers"
  /\ TimerDue(m_timers)
  /\ Head(m_timers).cb = cb
  /\ UNCHANGED phase

ReopenLogDev ==
  /\ Due("reopen_log_dev")
  /\ LET p == Head(m_timers).param IN
       IF p \in logging \cap working
       THEN OpenLogDev(p, mux, Tail(m_timers), {Head(m_timers).id})
       ELSE m_timers' = Tail(m_timers) /\ UNCHANGED <<mux, opened>>
  /\ UNCHANGED <<pipeVars, diagVars>>

ConnectServerTimer ==
  /\ Due("connect_server")
  /\ ConnectServer(mux, Tail(m_timers), {Head(m_timers).id})
  /\ UNCHANGED <<pipeVars, diagVars>>

ReadTimeout ==
  /\ Due("read_timeout")
  /\ m_timers' = Tail(m_timers)
  /\ StopDiagTrans(mux)
  /\ UNCHANGED pipeVars

\* No timer is due (any more): TimerManager::run() returns.
TimersDone ==
  /\ phase = "timers"
  /\ ~TimerDue(m_timers)
  /\ phase' = "dispatch"
  /\ UNCHANGED <<mux, m_timers, opened, pipeVars, diagVars>>

\* The places of the array whose events are still to be delivered.
Pending == {i \in DOMAIN mux.current : mux.current[i].revents}

NextPlace == CHOOSE i \in Pending : \A j \in Pending : i <= j

\* The multiplexer when the next handler is called.  What is delivered is
\* cleared, in place of the loop's index.
Delivered == [mux EXCEPT !.current[NextPlace].revents = FALSE]

\* The loop calls process() of the next handler, h.
Process(h) ==
  /\ phase = "dispatch"
  /\ Pending # {}
  /\ mux.current[NextPlace].handler = h
  /\ UNCHANGED phase

\* The array is gone through; it is built anew if the table has changed.
RoundDone ==
  /\ phase = "dispatch"
  /\ Pending = {}
  /\ phase' = "poll"
  /\ mux' = IF mux.dirty THEN PreparePollingArray(mux) ELSE mux
  /\ UNCHANGED <<m_timers, opened, pipeVars, diagVars>>

------------------------------------------------------------------------------
(* The handlers.                                                           *)

Clients == Conns \cap opened

\* ClientManager::process().
Accept ==
  /\ Process(Listener)
  /\ \E c \in Conns \ opened :
       /\ opened' = opened \cup {c}
       /\ mux' = IF Cardinality(Clients) + 1 >= MaxClients
                 THEN DelEvents(RegisterFd(Delivered, c), Listener)
                 ELSE RegisterFd(Delivered, c)
  /\ UNCHANGED <<m_timers, pipeVars, diagVars>>

\* ClientManager::process_client_disconn().  Fault: the server socket stays
\* off.
ClientDisconn_off ==
  \E c \in Conns :
    /\ Process(c)
    /\ opened' = opened \ {c}
    /\ mux' = UnregisterFd(Delivered, c)
    /\ UNCHANGED <<m_timers, pipeVars, diagVars>>

\* ClientHandler::process_conn_closed() and
\* ClientManager::process_client_disconn(): the handler is deleted.
ClientDisconn ==
  \E c \in Conns :
    /\ Process(c)
    /\ opened' = opened \ {c}
    /\ mux' = IF Cardinality(Clients) - 1 < MaxClients
              THEN AddEvents(UnregisterFd(Delivered, c), Listener)
              ELSE UnregisterFd(Delivered, c)
    /\ UNCHANGED <<m_timers, pipeVars, diagVars>>

\* A request to start the log of a subsystem.
StartLogging ==
  \E c \in Conns, p \in Pipes \ logging :
    /\ Process(c)
    /\ logging' = logging \cup {p}
    /\ IF p \in working THEN OpenLogDev(p, Delivered, m_timers, {})
       ELSE mux' = Delivered /\ UNCHANGED <<m_timers, opened>>
    /\ UNCHANGED <<working, diagVars>>

\* A request to stop it.
StopLogging ==
  \E c \in Conns, p \in logging :
    /\ Process(c)
    /\ logging' = logging \ {p}
    /\ opened' = opened \ {p}
    /\ mux' = IF p \in opened THEN UnregisterFd(Delivered, p) ELSE Delivered
    /\ UNCHANGED <<m_timers, working, diagVars>>

\* A request that a transaction on the diag device answers; until then
\* nothing is read from the client.
StartDiagTrans ==
  \E c \in Conns, id \in FreeIds(m_timers, {}) :
    /\ Process(c)
    /\ Diag \notin opened
    /\ opened' = opened \cup {Diag}
    /\ mux' = DelEvents(RegisterFd(Delivered, Diag), c)
    /\ m_timers' = CreateTimer(m_timers, id, IdleTime, "read_timeout", Diag)
    /\ read_timer' = id
    /\ client' = c
    /\ UNCHANGED pipeVars

\* TransSaveSleepLog::process(): data, after which more is waited for.
DiagData ==
  /\ Process(Diag)
  /\ m_timers' = SetNewDueTime(m_timers, read_timer, IdleTime)
  /\ mux' = Delivered
  /\ UNCHANGED <<opened, pipeVars, diagVars>>

\* ... its end.  Fault: the timer is left.
DiagEnd_timer ==
  /\ Process(Diag)
  /\ StopDiagTrans(Delivered)
  /\ UNCHANGED <<m_timers, pipeVars>>

DiagEnd ==
  /\ Process(Diag)
  /\ m_timers' = DelTimer(m_timers, read_timer)
  /\ StopDiagTrans(Delivered)
  /\ UNCHANGED pipeVars

\* LogPipeHandler::process(): a read, or no block to read to.
PipeData ==
  \E p \in Pipes :
    /\ Process(p)
    /\ mux' \in {Delivered, DelEvents(Delivered, p)}
    /\ UNCHANGED <<m_timers, opened, pipeVars, diagVars>>

\* ... an error: the device is closed and opened again.
PipeError ==
  \E p \in Pipes :
    /\ Process(p)
    /\ OpenLogDev(p, UnregisterFd(Delivered, p), m_timers, {})
    /\ UNCHANGED <<pipeVars, diagVars>>

\* IoChannel::process(): blocks are free, buf_avail_callback().
BufferAvailable ==
  /\ Process(Channel)
  /\ \/ \E p \in logging \cap opened : mux' = AddEvents(Delivered, p)
     \/ mux' = Delivered
  /\ UNCHANGED <<m_timers, opened, pipeVars, diagVars>>

\* LogPipeHandler::close_on_assert().
CloseOnAssert ==
  \E p \in Pipes :
    /\ Process(Monitor)
    /\ working' = working \ {p}
    /\ opened' = opened \ {p}
    /\ mux' = IF p \in opened THEN UnregisterFd(Delivered, p) ELSE Delivered
    /\ UNCHANGED <<m_timers, logging, diagVars>>

\* LogPipeHandler::process_alive(): the timers of all pipes are deleted.
ProcessAlive ==
  \E p \in Pipes :
    /\ Process(Monitor)
    /\ working' = working \cup {p}
    /\ IF p \in logging \ opened
       THEN OpenLogDev(p, Delivered, DelTimersOf(m_timers, "reopen_log_dev"), {})
       ELSE mux' = Delivered /\ UNCHANGED <<m_timers, opened>>
    /\ UNCHANGED <<logging, diagVars>>

\* CpStateHandler::process_conn_closed().
ServerGone ==
  /\ Process(Monitor)
  /\ ConnectServer(UnregisterFd(Delivered, Monitor), m_timers, {})
  /\ UNCHANGED <<pipeVars, diagVars>>

------------------------------------------------------------------------------

Callback ==
  \/ ReopenLogDev \/ ConnectServerTimer \/ ReadTimeout
  \/ Accept \/ ClientDisconn \/ StartLogging \/ StopLogging
  \/ StartDiagTrans \/ DiagData \/ DiagEnd
  \/ PipeData \/ PipeError \/ BufferAvailable
  \/ CloseOnAssert \/ ProcessAlive \/ ServerGone

Next == Poll \/ TimersDone \/ RoundDone \/ Callback

Spec == Init /\ [][Next]_vars

\* The thread goes on until it polls again.
FairSpec == Spec /\ WF_vars(TimersDone \/ RoundDone \/ Callback)

------------------------------------------------------------------------------
(* Properties.                                                             *)

\* Handlers that are deleted when their descriptor is closed.
Deletable == Conns \cup {Diag}

\* What poll() reported is delivered only to a handler that is registered and
\* wants it, and that still exists, whatever the timers and the handlers before
\* it in the round closed, deleted or paused.  (A log device need not be open:
\* when its log is stopped and started again, the timer of the first time opens
\* it once more, and may fail.)
DispatchLive ==
  \A i \in DOMAIN mux.current :
    mux.current[i].revents =>
      /\ Wants(mux, mux.current[i].handler)
      /\ mux.current[i].handler \in Deletable => mux.current[i].handler \in opened

\* No timer waits behind one that is due later, which run() and next_time()
\* rely on: they look at the first only.
TimersSorted ==
  \A i, j \in DOMAIN m_timers : i < j => m_timers[i].due <= m_timers[j].due

\* The pointer to the timer of the transaction is null or that of its own
\* timer, and the timer does not outlive the transaction: addresses are used
\* again, so that del_timer() of an old pointer would hit the timer of another.
NoStrayTimer ==
  /\ read_timer # NoTimer =>
       \E i \in DOMAIN m_timers :
         m_timers[i] = TimerOf(read_timer, m_timers[i].due, "read_timeout", Diag)
  /\ \A i \in DOMAIN m_timers :
       m_timers[i].cb = "read_timeout" => m_timers[i].id = read_timer /\ Diag \in opened

\* The server socket is polled exactly while a client more can be served.
ListenerPolled == Wants(mux, Listener) <=> Cardinality(Clients) < MaxClients

\* A log device that could not be opened has a timer to try again
\* (log_pipe_hdl.cpp:310), whatever happens to other subsystems.
ReopenPending ==
  \A p \in (logging \cap working) \ opened :
    \E i \in DOMAIN m_timers : m_timers[i].cb = "reopen_log_dev" /\ m_timers[i].param = p

\* The thread always comes back to poll(): timers that callbacks create anew,
\* though they fail each time, do not keep run() from the handlers, nor one
\* handler from the next.
ThreadPolls == []<>(phase = "poll")
==============================================================================
