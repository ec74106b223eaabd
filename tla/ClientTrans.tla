----------------------------- MODULE ClientTrans -----------------------------
(***************************************************************************)
(* The control path: clients (client_hdl.cpp) request transactions of the  *)
(* log controller (log_ctrl.cpp), which have a part for each subsystem:    *)
(* logs are turned on and off, collected, or flushed after a while.  A     *)
(* part is done at once or reports later: after a timer, at the end of a   *)
(* dump, when its files are moved, or when the MODEM has answered.  When   *)
(* all parts have reported the client is answered and the transaction      *)
(* deleted.                                                                *)
(*                                                                         *)
(* A callback is one step with all it calls; the operators take the state  *)
(* (ctl) and give the state after the call.  How the MODEM's own queue     *)
(* orders its transactions is left open (ModemTrans), and so is what the   *)
(* convey workshop moves (LogConvey).                                      *)
(***************************************************************************)
EXTENDS EventNotifier

CONSTANTS
  Clients,        \* client connections
  NoClient,       \* no client
  MaxTrans,       \* bound: transactions at a time
  Handlers,       \* the sets of subsystems that may have a log handler
  Builds,         \* whether it is built with EXTERNAL_WCN
  Switched,       \* the sets of subsystems whose logs are turned on or off
  Collected,      \* the sets of subsystems whose logs are collected ({}: all)
  Watched,        \* the subsystems whose dumps clients want to be told of
  Watchers,       \* the clients that do
  MaxDumps        \* bound: memory dumps of a subsystem at a time

AllSubsystems == {"MODEM", "WCN", "PM_SH", "AGDSP", "GNSS"}

ASSUME ControlAssumption ==
  /\ NoClient \notin Clients
  /\ MaxTrans \in Nat \ {0}
  /\ Clients \cap (1 .. MaxTrans) = {}
  /\ Handlers \subseteq SUBSET AllSubsystems \ {{}} /\ Handlers # {}
  /\ Builds \subseteq BOOLEAN /\ Builds # {}
  /\ Switched \subseteq SUBSET AllSubsystems \ {{}}
  /\ Collected \subseteq SUBSET AllSubsystems
  /\ Watched \subseteq AllSubsystems
  /\ Watchers \subseteq Clients
  /\ MaxDumps \in Nat \ {0}

Trans == 1 .. MaxTrans
NoTrans == 0

VARIABLES
  m_log_pipes,  \* the subsystems with a log handler
  ctl,          \* clients, transactions and the queue of the controller, and
                \* who is told of dumps (below)
  log_mode,     \* log_mode_ of each handler
  config,       \* the log mode of each subsystem in the configuration
  cp_state,     \* m_cp_state of each handler
  dumps,        \* memory dumps of each subsystem in progress or queued
  external_wcn  \* this is a build with EXTERNAL_WCN

buildVars == <<m_log_pipes, external_wcn>>
modeVars == <<log_mode, config>>
cpVars == <<cp_state, dumps, buildVars>>
vars == <<ctl, modeVars, cpVars>>

Subsystems == m_log_pipes

Modes == {"LM_OFF", "LM_NORMAL", "LM_EVENT"}
Global == {"LOG_COLLECT", "ENABLE_LOG", "DISABLE_LOG", "WCN_LAST_LOG"}
OfModem == {"SAVE_MODEM_LAST_LOG", "START_EVENT_LOG"}

\* What the part of a subsystem waits for: "none" if there is none or it has
\* reported, "start" and "dump" for the start and the end of a dump, "move"
\* for its files.
Waits == {"none", "timer", "start", "dump", "move", "modem", "wcn"}
NoParts == [s \in Subsystems |-> "none"]
NoTransaction == [type |-> "none", client |-> NoClient, state |-> "TS_NOT_BEGIN",
                  wait |-> NoParts, missing |-> 0]

Absent == [state |-> "absent", reading |-> FALSE, cur_trans |-> NoTrans]

Init ==
  /\ m_log_pipes \in Handlers
  /\ ctl = [conn |-> [c \in Clients |-> Absent],
            trans |-> [t \in Trans |-> NoTransaction],
            transactions |-> <<>>,
            start |-> [s \in Subsystems |-> EmptyNotifier],
            end |-> [s \in Subsystems |-> EmptyNotifier]]
  /\ log_mode \in [Subsystems -> {"LM_OFF", "LM_NORMAL"}]
  /\ config = log_mode
  /\ cp_state = [s \in Subsystems |-> "CWS_WORKING"]
  /\ dumps = [s \in Subsystems |-> 0]
  /\ external_wcn \in IF "WCN" \in Subsystems THEN Builds ELSE {FALSE}

------------------------------------------------------------------------------
(* Results.                                                                *)

\* Fault: nothing is read from the client any more.
TransResult_deaf(k, t) ==
  LET c == k.trans[t].client IN
  [k EXCEPT !.conn[c] = [@ EXCEPT !.state = "CTS_IDLE", !.cur_trans = NoTrans],
            !.trans[t] = [NoTransaction EXCEPT !.wait = k.trans[t].wait]]

\* ClientHandler::trans_result(): the client is answered and the transaction
\* deleted, or the result is dropped.
TransResult(k, t) ==
  LET c == k.trans[t].client IN
  IF k.conn[c].state = "CTS_EXECUTING"
  THEN [k EXCEPT !.conn[c] = [@ EXCEPT !.state = "CTS_IDLE", !.reading = TRUE,
                                       !.cur_trans = NoTrans],
                 !.trans[t] = [NoTransaction EXCEPT !.wait = k.trans[t].wait]]
  ELSE k

\* Transaction::finish() of a transaction of LogController, which has the
\* trans_finished() of TransactionManager.
Finish(k, t) ==
  TransResult([k EXCEPT !.transactions = Without(@, {i \in DOMAIN @ : @[i] = t})], t)

\* The part of s has reported to the transaction.  Fault: the last one is
\* awaited for ever.
LogColResult_last(k, t, s) ==
  LET k1 == [k EXCEPT !.trans[t] = [@ EXCEPT !.wait[s] = "none",
                                        !.missing = k.trans[t].missing - 1]] IN
  IF k.trans[t].missing = 0 THEN Finish(k1, t) ELSE k1

\* TransLogCollect::log_col_result().
LogColResult(k, t, s) ==
  LET k1 == [k EXCEPT !.trans[t] = [@ EXCEPT !.wait[s] = "none",
                                        !.missing = k.trans[t].missing - 1]] IN
  IF k1.trans[t].missing = 0 THEN Finish(k1, t) ELSE k1

\* start_log_convey(): there is nothing to move, or the end is awaited.
StartLogConvey(k, t, s, out) ==
  IF out = "done" THEN LogColResult(k, t, s)
  ELSE [k EXCEPT !.trans[t] = [@ EXCEPT !.wait[s] = "move"]]

------------------------------------------------------------------------------
(* Dumps are announced.                                                    *)

\* TransIntWcnLogCollect::dump_start_callback().
DumpStartCallback(k, t, s) ==
  [k EXCEPT !.trans[t] = [@ EXCEPT !.wait[s] = "dump"],
            !.start[s] = RemoveClient(@, t)]

IntegratedWcn(s) == s = "WCN" /\ ~external_wcn

\* dump_end_callback() of the transactions that collect logs.
DumpEndCallback(k, t, s, out) ==
  LET k1 == [k EXCEPT !.end[s] = RemoveClient(@, t)]
      k2 == IF k.trans[t].wait[s] = "start" THEN [k1 EXCEPT !.start[s] = RemoveClient(@, t)]
            ELSE k1
  IN IF IntegratedWcn(s) THEN LogColResult(k2, t, s)
     ELSE StartLogConvey(k2, t, s, out)

\* EventNotifier::notify() for the start of a dump of s, which goes through
\* those that are in the list when it begins.  Clients are sent a message.
TellStart(k, s, i) ==
  LET e == k.start[s].evt_subs[i] IN
  IF e.removed \/ e.client \in Clients THEN k ELSE DumpStartCallback(k, e.client, s)

NotifyDumpStart(k, s) ==
  LET told[i \in 0 .. Len(k.start[s].evt_subs)] ==
        IF i = 0 THEN [k EXCEPT !.start[s] = BeginNotify(@)] ELSE TellStart(told[i - 1], s, i)
  IN [told[Len(k.start[s].evt_subs)] EXCEPT !.start[s] = EndNotify(@)]

\* ... for its end.  out says of each transaction whether files are to be moved.
TellEnd(k, s, out, i) ==
  LET e == k.end[s].evt_subs[i] IN
  IF e.removed \/ e.client \in Clients THEN k ELSE DumpEndCallback(k, e.client, s, out[e.client])

NotifyDumpEnd(k, s, out) ==
  LET told[i \in 0 .. Len(k.end[s].evt_subs)] ==
        IF i = 0 THEN [k EXCEPT !.end[s] = BeginNotify(@)] ELSE TellEnd(told[i - 1], s, out, i)
  IN [told[Len(k.end[s].evt_subs)] EXCEPT !.end[s] = EndNotify(@)]

\* ... to each of those told of the end of a dump of s.
Outcomes(s) == [Subscribed(ctl.end[s]) \ Clients -> {"done", "move"}]

------------------------------------------------------------------------------
(* Requests.                                                               *)

\* ClientHandler::process_data() and process_req(): c sends a request when
\* the last one has been answered.
Requesting(c) == ctl.conn[c].reading

FreeTrans == {t \in Trans : ctl.trans[t].type = "none" /\ ctl.trans[t].wait = NoParts}
NewId == CHOOSE t \in FreeTrans : \A u \in FreeTrans : t <= u

\* A transaction of c is created and the client waits for it.
Created(c, type, state, wait, missing) ==
  [ctl EXCEPT !.trans[NewId] = [type |-> type, client |-> c, state |-> state, wait |-> wait,
                                missing |-> missing],
              !.conn[c] = [@ EXCEPT !.state = "CTS_EXECUTING", !.reading = FALSE,
                                    !.cur_trans = NewId],
              !.transactions = IF type \in Global THEN Append(@, NewId) ELSE @]

\* It has to wait until the controller's queue is empty.
Enqueued(c, type) == Created(c, type, "TS_NOT_BEGIN", NoParts, 0)

\* The outcomes of a request to the MODEM, with its log mode: it is done at
\* once unless another transaction has the MODEM.
\* WanModemLogHandler::start_normal_log(), TransStartNormalLog::execute().
StartNormalLog == IF log_mode["MODEM"] = "LM_EVENT" THEN {"modem", "failed"} ELSE {"modem", "none"}

\* WanModemLogHandler::stop_log(), TransStopCellularLog::execute().
StopLog == IF log_mode["MODEM"] = "LM_EVENT" THEN {"modem", "failed"} ELSE {"modem", "none"}

\* ExtWcnLogHandler::stop_log(): its queue has the dump.
StopWcnLog ==
  IF external_wcn /\ dumps["WCN"] > 0 THEN "wcn" ELSE "none"

\* TransEnableLog::execute().  A MODEM that failed is written down all the
\* same.
ExecuteEnableLog(c, subsys) ==
  \E m \in IF "MODEM" \in subsys THEN StartNormalLog ELSE {"none"} :
    LET later == IF m = "modem" THEN {"MODEM"} ELSE {}
        failed == IF m = "failed" THEN {"MODEM"} ELSE {}
        Turned(modes, on) == [s \in Subsystems |-> IF s \in on THEN "LM_NORMAL" ELSE modes[s]]
    IN /\ log_mode' = Turned(log_mode, subsys \ (later \cup failed))
       /\ config' = Turned(config, subsys \ later)
       /\ ctl' = IF later = {} THEN ctl
                 ELSE Created(c, "ENABLE_LOG", "TS_EXECUTING",
                              [NoParts EXCEPT !["MODEM"] = m], 0)

\* LogController::enable_log(): now, or when the queue is empty.
EnableLog(c, want) ==
  IF ctl.transactions = <<>>
  THEN ExecuteEnableLog(c, {s \in want \cap Subsystems : log_mode[s] # "LM_NORMAL"})
  ELSE ctl' = Enqueued(c, "ENABLE_LOG") /\ UNCHANGED modeVars

ProcEnableLog(c) ==
  /\ Requesting(c)
  /\ FreeTrans # {}
  /\ \E want \in Switched : EnableLog(c, want)
  /\ UNCHANGED cpVars

\* TransDisableLog::execute().
ExecuteDisableLog(c, subsys) ==
  \E m \in IF "MODEM" \in subsys THEN StopLog ELSE {"none"} :
    LET wait == [s \in Subsystems |->
                   CASE s = "MODEM" /\ m = "modem" -> "modem"
                     [] s = "WCN" /\ s \in subsys -> StopWcnLog
                     [] OTHER -> "none"]
        off == {s \in subsys : wait[s] = "none" /\ (s = "MODEM" => m # "failed")}
        Turned(modes) == [s \in Subsystems |-> IF s \in off THEN "LM_OFF" ELSE modes[s]]
    IN /\ log_mode' = Turned(log_mode)
       /\ config' = Turned(config)
       /\ ctl' = IF wait = NoParts THEN ctl
                 ELSE Created(c, "DISABLE_LOG", "TS_EXECUTING", wait, 0)

\* LogController::disable_log().
DisableLog(c, want) ==
  IF ctl.transactions = <<>>
  THEN ExecuteDisableLog(c, {s \in want \cap Subsystems : log_mode[s] # "LM_OFF"})
  ELSE ctl' = Enqueued(c, "DISABLE_LOG") /\ UNCHANGED modeVars

ProcDisableLog(c) ==
  /\ Requesting(c)
  /\ FreeTrans # {}
  /\ \E want \in Switched : DisableLog(c, want)
  /\ UNCHANGED cpVars

\* What the part that collects the logs of a subsystem waits for after its
\* execute(); there may be nothing to move.
\* TransModemLogCollect: the MODEM is given time to send what it has.
CollectModem ==
  CASE cp_state["MODEM"] = "CWS_DUMP" -> {"dump"}
    [] cp_state["MODEM"] = "CWS_WORKING" /\ log_mode["MODEM"] = "LM_NORMAL" -> {"timer"}
    [] OTHER -> {"none", "move"}

\* TransIntWcnLogCollect: a WCN that works may be made to dump.
CollectIntWcn ==
  CASE cp_state["WCN"] = "CWS_DUMP" -> {"dump"}
    [] cp_state["WCN"] = "CWS_WORKING" -> {"none", "start"}
    [] OTHER -> {"none"}

\* TransExtWcnLogCollect.
CollectExtWcn == IF cp_state["WCN"] = "CWS_DUMP" THEN {"dump"} ELSE {"none", "move"}

\* TransPmShLogCollect.
CollectPmSh == IF cp_state["PM_SH"] = "CWS_DUMP" THEN {"dump"} ELSE {"none", "move"}

\* TransExtGnssLogCollect.
CollectGnss == IF cp_state["GNSS"] = "CWS_DUMP" THEN {"dump"} ELSE {"none", "move"}

\* TransAgDspLogCollect: a flush.
CollectAgDsp == {"none"}

\* TransLogCollect::create_transaction(), start_subsys_col().
StartSubsysCol(s) ==
  CASE s = "MODEM" -> CollectModem
    [] s = "WCN" -> IF external_wcn THEN CollectExtWcn ELSE CollectIntWcn
    [] s = "PM_SH" -> CollectPmSh
    [] s = "GNSS" -> CollectGnss
    [] s = "AGDSP" -> CollectAgDsp

\* TransLogCollect::execute(): the parts that have begun are awaited; those
\* that wait for a dump are told of it.
ExecuteLogCollect(c, wait) ==
  LET parts == {s \in Subsystems : wait[s] # "none"}
      k == Created(c, "LOG_COLLECT", "TS_EXECUTING", wait, Cardinality(parts))
      Told(n, waits) == [s \in Subsystems |-> IF wait[s] \in waits THEN AddClient(n[s], NewId)
                                              ELSE n[s]]
  IN IF parts = {} THEN ctl
     ELSE [k EXCEPT !.start = Told(@, {"start"}), !.end = Told(@, {"start", "dump"})]

\* LogController::start_log_collect(), which does not look at the queue.
StartLogCollect(c, want) ==
  LET cps == IF want = {} THEN Subsystems ELSE want \cap Subsystems
      May(s) == IF s \in cps THEN StartSubsysCol(s) ELSE {"none"}
  IN \E wait \in {w \in [Subsystems -> UNION {May(s) : s \in Subsystems}] :
                    \A s \in Subsystems : w[s] \in May(s)} :
       ctl' = ExecuteLogCollect(c, wait)

ProcCollectLog(c) ==
  /\ Requesting(c)
  /\ FreeTrans # {}
  /\ \E want \in Collected : StartLogCollect(c, want)
  /\ UNCHANGED <<modeVars, cpVars>>

\* TransWcnLastLog::execute().
ExecuteWcnLastLog(c) ==
  IF log_mode["WCN"] # "LM_NORMAL" THEN ctl
  ELSE Created(c, "WCN_LAST_LOG", "TS_EXECUTING", [NoParts EXCEPT !["WCN"] = "timer"], 0)

\* LogController::save_wcn_last_log().
SaveWcnLastLog(c) ==
  IF ctl.transactions = <<>> THEN ExecuteWcnLastLog(c) ELSE Enqueued(c, "WCN_LAST_LOG")

\* A transaction of the MODEM for the client itself.
ModemStarts(c, type) ==
  Created(c, type, "TS_EXECUTING", [NoParts EXCEPT !["MODEM"] = "modem"], 0)

\* TransModemLastLog::execute(), of which the MODEM must have its log on.
ExecuteModemLastLog(c) ==
  IF log_mode["MODEM"] = "LM_NORMAL" /\ cp_state["MODEM"] # "CWS_NOT_WORKING"
  THEN ModemStarts(c, "SAVE_MODEM_LAST_LOG") ELSE ctl

\* WanModemLogHandler::save_last_log(): now, or after what the MODEM is at.
SaveLastLog(c) == {ExecuteModemLastLog(c), ModemStarts(c, "SAVE_MODEM_LAST_LOG")}

ProcSaveLastLog(c) ==
  /\ Requesting(c)
  /\ FreeTrans # {}
  /\ \/ "WCN" \in Subsystems /\ ctl' = SaveWcnLastLog(c)
     \/ "MODEM" \in Subsystems /\ ctl' \in SaveLastLog(c)
  /\ UNCHANGED <<modeVars, cpVars>>

\* WanModemLogHandler::start_event_log() and TransStartEventLog::execute():
\* the MODEM is asked, or that fails at once.
StartEventLog(c) == {ModemStarts(c, "START_EVENT_LOG"), ctl}

\* ClientHandler::proc_enable_evt_log() and LogController::start_event_log().
ProcEnableEvtLog(c) ==
  /\ Requesting(c)
  /\ FreeTrans # {}
  /\ "MODEM" \in Subsystems
  /\ ctl' \in StartEventLog(c)
  /\ UNCHANGED <<modeVars, cpVars>>

ProcSubscribe(c) ==
  /\ Requesting(c)
  /\ c \in Watchers
  /\ \E s \in Watched \cap Subsystems :
       ctl' = [ctl EXCEPT !.start[s] = AddClient(@, c), !.end[s] = AddClient(@, c)]
  /\ UNCHANGED <<modeVars, cpVars>>

\* Nothing is told to c.
Forget(k, c, subsystems) ==
  [k EXCEPT !.start = [s \in Subsystems |-> IF s \in subsystems THEN RemoveClient(@[s], c) ELSE @[s]],
            !.end = [s \in Subsystems |-> IF s \in subsystems THEN RemoveClient(@[s], c) ELSE @[s]]]

ProcUnsubscribe(c) ==
  /\ Requesting(c)
  /\ c \in Watchers
  /\ \E s \in Watched \cap Subsystems : ctl' = Forget(ctl, c, {s})
  /\ UNCHANGED <<modeVars, cpVars>>

------------------------------------------------------------------------------
(* Connections.                                                            *)

Connect(c) ==
  /\ ctl.conn[c].state = "absent"
  /\ ctl' = [ctl EXCEPT !.conn[c] = [Absent EXCEPT !.state = "CTS_IDLE", !.reading = TRUE]]
  /\ UNCHANGED <<modeVars, cpVars>>

\* ClientHandler::process_conn_closed() and ~ClientHandler(), when the end of
\* the connection is read; that is not while a transaction is executed, so
\* that none is canceled.
ProcessConnClosed(c) ==
  /\ ctl.conn[c].reading
  /\ ctl' = [Forget(ctl, c, Subsystems) EXCEPT !.conn[c] = Absent]
  /\ UNCHANGED <<modeVars, cpVars>>

------------------------------------------------------------------------------
(* Parts report.                                                           *)

Waiting(t, s, w) ==
  /\ ctl.trans[t].type # "none"
  /\ ctl.trans[t].wait[s] = w

\* TransModemLogCollect::log_flush_callback(): the time for the flush is over.
LogFlushCallback(t) ==
  /\ Waiting(t, "MODEM", "timer")
  /\ \E out \in {"done", "move"} : ctl' = StartLogConvey(ctl, t, "MODEM", out)
  /\ UNCHANGED <<modeVars, cpVars>>

\* TransWcnLastLog::last_log_timeout().
LastLogTimeout(t) ==
  /\ Waiting(t, "WCN", "timer")
  /\ ctl' = Finish([ctl EXCEPT !.trans[t] = [@ EXCEPT !.wait["WCN"] = "none"]], t)
  /\ UNCHANGED <<modeVars, cpVars>>

\* TransIntWcnLogCollect::dump_timer().
DumpTimer(t, s) ==
  /\ Waiting(t, s, "start")
  /\ ctl' = LogColResult([ctl EXCEPT !.start[s] = RemoveClient(@, t),
                                     !.end[s] = RemoveClient(@, t)], t, s)
  /\ UNCHANGED <<modeVars, cpVars>>

\* log_convey_fin(): the files are moved, or that failed.
LogConveyFin(t, s) ==
  /\ Waiting(t, s, "move")
  /\ ctl' = LogColResult(ctl, t, s)
  /\ UNCHANGED <<modeVars, cpVars>>

\* The MODEM has done what t of the given type wanted, or failed.
ModemReports(t, type) ==
  /\ Waiting(t, "MODEM", "modem")
  /\ ctl.trans[t].type = type
  /\ LET k == [ctl EXCEPT !.trans[t] = [@ EXCEPT !.wait["MODEM"] = "none"]]
     IN ctl' = IF type \in Global THEN Finish(k, t) ELSE TransResult(k, t)
  /\ UNCHANGED cpVars

\* The log mode of the MODEM and the configuration.
SetModemMode(mode) ==
  /\ log_mode' = [log_mode EXCEPT !["MODEM"] = mode]
  /\ config' = [config EXCEPT !["MODEM"] = mode]

\* TransEnableLog::start_normal_log_result() after TransStartNormalLog.
StartNormalLogResult(t) ==
  /\ ModemReports(t, "ENABLE_LOG")
  /\ UNCHANGED modeVars \/ SetModemMode("LM_NORMAL")

\* Fault: the configuration is not changed with the log mode.
StopCellularLogResult_config(t) ==
  /\ ModemReports(t, "DISABLE_LOG")
  /\ log_mode' \in {log_mode, [log_mode EXCEPT !["MODEM"] = "LM_OFF"]}
  /\ UNCHANGED config

\* TransDisableLog::stop_cellular_log_result() after TransStopCellularLog.
StopCellularLogResult(t) ==
  /\ ModemReports(t, "DISABLE_LOG")
  /\ UNCHANGED modeVars \/ SetModemMode("LM_OFF")

\* TransStartEventLog::subscribe_result().
SubscribeResult(t) ==
  /\ ModemReports(t, "START_EVENT_LOG")
  /\ UNCHANGED modeVars \/ SetModemMode("LM_EVENT")

\* TransModemLastLog::last_log_timeout().
ModemLastLogTimeout(t) ==
  /\ ModemReports(t, "SAVE_MODEM_LAST_LOG")
  /\ UNCHANGED modeVars

------------------------------------------------------------------------------
(* The subsystems.                                                         *)

\* What process_assert() of s comes to: the state of the subsystem, whether a
\* dump is begun (or queued), and whether its start and its end are announced.
Dead == [cp |-> "CWS_NOT_WORKING", dump |-> 0, start |-> FALSE, end |-> TRUE]
DumpFailed == [Dead EXCEPT !.start = TRUE]
DumpBegun == [cp |-> "CWS_DUMP", dump |-> 1, start |-> TRUE, end |-> FALSE]
DumpQueued == [DumpFailed EXCEPT !.dump = 1]

\* WanModemLogHandler::process_assert(): its dumps have a queue.
AssertModem == {Dead, DumpFailed, IF dumps["MODEM"] = 0 THEN DumpBegun ELSE DumpQueued}

\* IntWcnLogHandler::process_assert(): no dump is read.
AssertIntWcn == IF cp_state["WCN"] = "CWS_NOT_WORKING" THEN {Dead} ELSE {Dead, DumpFailed}

\* ExtWcnLogHandler::process_assert().
AssertExtWcn ==
  CASE cp_state["WCN"] = "CWS_NOT_WORKING" \/ log_mode["WCN"] # "LM_NORMAL" -> {Dead}
    [] dumps["WCN"] > 0 -> {Dead, DumpFailed}
    [] OTHER -> {Dead, DumpFailed, DumpBegun}

\* PmSensorhubLogHandler::process_assert().
AssertPmSh ==
  IF cp_state["PM_SH"] = "CWS_NOT_WORKING" \/ log_mode["PM_SH"] # "LM_NORMAL" THEN {Dead}
  ELSE {Dead, DumpFailed, DumpBegun}

\* The handlers of GNSS and AGDSP do nothing.
ProcessAssert(s) ==
  CASE s = "MODEM" -> AssertModem
    [] s = "WCN" -> IF external_wcn THEN AssertExtWcn ELSE AssertIntWcn
    [] s = "PM_SH" -> AssertPmSh
    [] OTHER -> {}

\* LogController::process_cp_evt() for a subsystem that asserts.
Asserted(s) ==
  /\ cp_state[s] # "CWS_DUMP"
  /\ \E a \in ProcessAssert(s), out \in Outcomes(s) :
       /\ dumps[s] + a.dump <= MaxDumps
       /\ cp_state' = [cp_state EXCEPT ![s] = a.cp]
       /\ dumps' = [dumps EXCEPT ![s] = @ + a.dump]
       /\ LET k == IF a.start THEN NotifyDumpStart(ctl, s) ELSE ctl
          IN ctl' = IF a.end THEN NotifyDumpEnd(k, s, out) ELSE k
  /\ UNCHANGED <<modeVars, buildVars>>

\* The transaction whose request to stop the log of the WCN waits for a dump.
\* If it also waited for the MODEM and has ended with that, it is deleted, and
\* the result of the WCN goes to where it was: that is the end of the model.
StopWaits == {t \in Trans : "WCN" \in Subsystems /\ ctl.trans[t].wait["WCN"] = "wcn"}

\* dump_result() and end_dump().
DumpResult(s) ==
  /\ dumps[s] > 0
  /\ dumps' = [dumps EXCEPT ![s] = @ - 1]
  /\ cp_state' = [cp_state EXCEPT ![s] = "CWS_NOT_WORKING"]
  /\ UNCHANGED buildVars

DumpEnd(s) ==
  /\ DumpResult(s)
  /\ s = "WCN" => StopWaits = {}
  /\ \E out \in Outcomes(s) : ctl' = NotifyDumpEnd(ctl, s, out)
  /\ UNCHANGED modeVars

\* ... with ExtWcnLogHandler::trans_finished(), which stops the log, and
\* TransDisableLog::stop_wcn_log_result().
DumpEndStop ==
  /\ DumpResult("WCN")
  /\ \A t \in StopWaits : ctl.trans[t].type # "none"
  /\ \E t \in StopWaits, out \in Outcomes("WCN") :
       LET k == NotifyDumpEnd(ctl, "WCN", out) IN
       ctl' = Finish([k EXCEPT !.trans[t] = [@ EXCEPT !.wait["WCN"] = "none"]], t)
  /\ log_mode' = [log_mode EXCEPT !["WCN"] = "LM_OFF"]
  /\ config' = [config EXCEPT !["WCN"] = "LM_OFF"]

\* process_alive().
Alive(s) ==
  /\ cp_state[s] # "CWS_WORKING"
  /\ cp_state' = [cp_state EXCEPT ![s] = "CWS_WORKING"]
  /\ UNCHANGED <<ctl, modeVars, dumps, buildVars>>

------------------------------------------------------------------------------

Request(c) ==
  \/ ProcEnableLog(c) \/ ProcDisableLog(c) \/ ProcCollectLog(c) \/ ProcSaveLastLog(c)
  \/ ProcEnableEvtLog(c) \/ ProcSubscribe(c) \/ ProcUnsubscribe(c)

ModemDone(t) ==
  \/ StartNormalLogResult(t) \/ StopCellularLogResult(t) \/ SubscribeResult(t)
  \/ ModemLastLogTimeout(t) \/ LogFlushCallback(t)

PartReports(t) ==
  \/ \E s \in Subsystems : DumpTimer(t, s) \/ LogConveyFin(t, s)
  \/ "MODEM" \in Subsystems /\ ModemDone(t)
  \/ "WCN" \in Subsystems /\ LastLogTimeout(t)

Next ==
  \/ \E c \in Clients : Connect(c) \/ ProcessConnClosed(c) \/ Request(c)
  \/ \E t \in Trans : PartReports(t)
  \/ \E s \in Subsystems : Asserted(s) \/ DumpEnd(s) \/ Alive(s)
  \/ "WCN" \in Subsystems /\ DumpEndStop

Spec == Init /\ [][Next]_vars

------------------------------------------------------------------------------
(* Properties.                                                             *)

Live(t) == ctl.trans[t].type # "none"

\* A transaction belongs to a client that is connected and waits for it, and
\* a client that waits, from which nothing is read, has a transaction: no
\* answer is lost and no result goes to a client that is deleted.
TransHasClient ==
  /\ \A t \in Trans : Live(t) =>
       /\ ctl.trans[t].client \in Clients
       /\ ctl.conn[ctl.trans[t].client].state = "CTS_EXECUTING"
       /\ ctl.conn[ctl.trans[t].client].cur_trans = t
  /\ \A c \in Clients :
       ~ctl.conn[c].reading /\ ctl.conn[c].state # "absent" =>
         ctl.conn[c].cur_trans # NoTrans /\ Live(ctl.conn[c].cur_trans)

\* A transaction that has begun waits for a part that will report, one that
\* waits for the end of a dump only while there is a dump; a collection waits
\* for exactly the parts it has not counted.  The controller has exactly the
\* global ones in its queue.
WaitsForParts ==
  /\ \A t \in Trans : Live(t) /\ ctl.trans[t].state = "TS_EXECUTING" =>
       LET parts == {s \in Subsystems : ctl.trans[t].wait[s] # "none"} IN
       /\ parts # {}
       /\ ctl.trans[t].type = "LOG_COLLECT" => ctl.trans[t].missing = Cardinality(parts)
       /\ \A s \in parts : ctl.trans[t].wait[s] \in {"dump", "wcn"} => dumps[s] > 0
  /\ IsInjective(ctl.transactions)
  /\ Range(ctl.transactions) = {t \in Trans : ctl.trans[t].type \in Global}

\* Those who are told of dumps exist, and a transaction that is told of the
\* start or the end of a dump is one that waits for it.
SubscribersExist ==
  \A s \in Subsystems :
    /\ \A x \in Subscribed(ctl.start[s]) :
         IF x \in Clients THEN ctl.conn[x].state # "absent"
         ELSE Live(x) /\ ctl.trans[x].wait[s] = "start"
    /\ Subscribed(ctl.end[s]) \ Clients =
         {t \in Trans : Live(t) /\ ctl.trans[t].wait[s] \in {"start", "dump"}}

\* What is written down of a subsystem's log is what its handler does, even if
\* requests of several clients overlap; the one exception is a MODEM whose
\* event log could not be stopped when its log was turned on.
ModeWrittenDown ==
  \A s \in Subsystems :
    \/ config[s] = log_mode[s]
    \/ s = "MODEM" /\ log_mode[s] = "LM_EVENT" /\ config[s] = "LM_NORMAL"

\* The controller's transactions go on: the first one has begun.
FirstHasBegun ==
  ctl.transactions # <<>> => ctl.trans[Head(ctl.transactions)].state = "TS_EXECUTING"
=============================================================================
