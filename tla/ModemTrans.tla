----------------------------- MODULE ModemTrans -----------------------------
(***************************************************************************)
(* WanModemLogHandler (wan_modem_log.cpp) as a queue of transactions: what *)
(* clients ask of the modem, what the daemon asks itself (its version, its *)
(* time), and what the modem does (it asserts, comes back, reports         *)
(* events).  Transactions use the diagnosis device, one at a time, the AT  *)
(* controller, one command at a time, or just a timer.                     *)
(*                                                                         *)
(* Everything runs in the main thread.  A handler is a chain of calls that *)
(* branches into callbacks and loops over the queue; todo is what is left  *)
(* of it, a sequence of labels, and the action of the first label is next. *)
(* A new event is handled when todo is empty.                              *)
(***************************************************************************)
EXTENDS AtController, SequencesExt

CONSTANTS
  Trans,      \* transaction objects; a freed one is used again
  NoTrans,    \* a null pointer to one
  MaxQueue,   \* bound: no events that add a transaction when so many are queued
  MaxEvents   \* bound: requests, assertions, revivals and modem events

ASSUME TransAssumption ==
  /\ Client = Trans
  /\ NoTrans = NoClient
  /\ MaxQueue \in Nat \ {0}
  /\ MaxEvents \in Nat

VARIABLES
  transactions_,    \* transactions_, the queue
  type_,            \* type_ of each object, "FREE" when deleted
  state_,           \* state_; TS_FINISHED is split by result_ into SUCCESS and FAILURE
  armed,            \* objects with a timer of their own pending
  at_finished_,     \* SAVE_EVENT_LOG transactions whose command has ended
  m_diag_handler,   \* the transaction the diag handler is bound to, if there is one
  cur_diag_trans_,  \* cur_diag_trans_ (for a dump, its receiver)
  m_cp_state,       \* m_cp_state
  m_evt,            \* m_evt
  log_mode_,        \* log_mode_
  listening,        \* event_cb_ of the AT controller is set
  m_ver_state,      \* m_ver_state
  requeries,        \* number of requery_modem_ver timers pending
  trans_state_,     \* trans_state_ of the time synchronisation
  trans_ts_,        \* ... trans_ts_
  retry,            \* ... timer_ is pending
  tick,             \* time queries that were told the tick count
  ts,               \* ts_state_ with ts_: no time, the modem's tick, or zero
  todo,             \* the rest of the current handler
  events            \* events so far

queueVars == <<transactions_, type_, state_>>
diagVars == <<m_diag_handler, cur_diag_trans_, m_cp_state>>
ownVars == <<armed, at_finished_, tick>>
logVars == <<log_mode_, listening, m_evt>>
verVars == <<m_ver_state, requeries>>
timeVars == <<trans_state_, trans_ts_, retry, ts>>
transVars == <<queueVars, diagVars, ownVars, logVars, verVars, timeVars, todo, events>>

DiagTypes == {"VERSION_QUERY", "SAVE_SLEEP_LOG", "MEMORY_DUMP", "ORCA_ETB_DUMP"}
AtTypes == {"MODEM_TICK_QUERY", "START_EVENT_LOG", "START_NORMAL_LOG", "STOP_LOG", "SAVE_EVENT_LOG"}
Types == DiagTypes \cup AtTypes \cup {"SAVE_MODEM_LAST_LOG"}
Requests == {"START_NORMAL_LOG", "START_EVENT_LOG", "STOP_LOG", "SAVE_SLEEP_LOG", "SAVE_MODEM_LAST_LOG"}
CpEvents == {"CE_ASSERT", "CE_BLOCKED"}

ModemTypeOK ==
  /\ AtTypeOK
  /\ transactions_ \in Seq(Trans)
  /\ type_ \in [Trans -> Types \cup {"FREE"}]
  /\ state_ \in [Trans -> {"NOT_BEGIN", "EXECUTING", "SUCCESS", "FAILURE"}]
  /\ armed \subseteq Trans /\ at_finished_ \subseteq Trans /\ tick \subseteq Trans
  /\ {m_diag_handler, cur_diag_trans_, trans_ts_} \subseteq Trans \cup {NoTrans}
  /\ m_cp_state \in {"NOT_WORKING", "WORKING", "DUMP", "SAVE_SLEEP_LOG", "QUERY_VER"}
  /\ m_evt \in CpEvents \cup {"CE_NONE"}
  /\ log_mode_ \in {"LM_OFF", "LM_NORMAL", "LM_EVENT"}
  /\ listening \in BOOLEAN /\ retry \in BOOLEAN
  /\ m_ver_state \in {"NOT_BEGIN", "QUERY", "GOT", "FAILED"}
  /\ requeries \in Nat
  /\ trans_state_ \in {"NOT_BEGIN", "EXECUTING", "START_FAIL", "EXECUTING_FAIL", "SUCCESS"}
  /\ ts \in {"none", "tick", "zero"}
  /\ events \in 0 .. MaxEvents

------------------------------------------------------------------------------
(* Labels: a call op that concerns transaction t; ctx is what the caller   *)
(* or the callee needs to know besides.                                    *)

L(op, t, ctx) == [op |-> op, t |-> t, ctx |-> ctx]
Do(op) == L(op, NoTrans, "")
This == Head(todo)
At(ops) == todo # <<>> /\ This.op \in ops
Then(labels) == todo' = labels \o Tail(todo)
Crash == todo' = <<Do("crashed")>>   \* a null or dangling pointer is used
Idle == todo = <<>>

Queued == {transactions_[i] : i \in DOMAIN transactions_}
Free(t) ==
  /\ type_' = [type_ EXCEPT ![t] = "FREE"]
  /\ state_' = [state_ EXCEPT ![t] = "NOT_BEGIN"]
  /\ at_finished_' = at_finished_ \ {t}
  /\ tick' = tick \ {t}
Freed(t) == t # NoTrans /\ type_[t] = "FREE"
SetState(t, s) == state_' = [state_ EXCEPT ![t] = s]

\* Objects no pointer leads to, dangling ones included.
Unused == {t \in Trans : type_[t] = "FREE" /\ t \notin armed
                           /\ t \notin {m_diag_handler, cur_diag_trans_, client_}}

\* The system boots, with logging on or off: the time is queried first.
ModemInit ==
  /\ AtInit
  /\ transactions_ = <<>>
  /\ type_ = [t \in Trans |-> "FREE"]
  /\ state_ = [t \in Trans |-> "NOT_BEGIN"]
  /\ armed = {} /\ at_finished_ = {} /\ tick = {}
  /\ m_diag_handler = NoTrans /\ cur_diag_trans_ = NoTrans
  /\ m_cp_state = "WORKING"
  /\ m_evt = "CE_NONE"
  /\ log_mode_ = "LM_OFF"
  /\ listening = FALSE
  /\ m_ver_state = "NOT_BEGIN"
  /\ requeries = 0
  /\ trans_state_ = "NOT_BEGIN" /\ trans_ts_ = NoTrans /\ retry = FALSE /\ ts = "none"
  /\ todo \in {<<L("new", NoTrans, "time")>>, <<L("new", NoTrans, "time"), Do("start")>>}
  /\ events = 0

------------------------------------------------------------------------------
(* New transactions: start_event_log(), stop_log(), start_dump(),          *)
(* start_ver_query() and their like.  ctx says who wants it.               *)

TypeFor(ctx) ==
  CASE ctx \in {"version", "requery"} -> "VERSION_QUERY"
    [] ctx = "time" -> "MODEM_TICK_QUERY"
    [] ctx = "dump" -> "MEMORY_DUMP"
    [] ctx = "etb" -> "ORCA_ETB_DUMP"
    [] ctx = "event" -> "SAVE_EVENT_LOG"
    [] OTHER -> ctx

\* Two of them look whether the diag device is in use, the others at the queue.
MayRunNow(ty) ==
  IF ty \in {"VERSION_QUERY", "SAVE_SLEEP_LOG"}
  THEN cur_diag_trans_ = NoTrans
  ELSE transactions_ = <<>>

NewTrans ==
  /\ At({"new"})
  /\ Unused # {}   \* bound: the objects
  /\ LET ty == TypeFor(This.ctx)
         t == CHOOSE x \in Unused : TRUE
     IN /\ type_' = [type_ EXCEPT ![t] = ty]
        /\ IF MayRunNow(ty)
           THEN Then(<<L("execute", t, This.ctx)>>) /\ UNCHANGED transactions_
           ELSE Then(<<L("queued", t, This.ctx)>>) /\ transactions_' = Append(transactions_, t)
  /\ UNCHANGED <<atVars, state_, diagVars, ownVars, logVars, verVars, timeVars, events>>

\* It is queued, because it was started or because it has to wait.  A dump that
\* has to wait is taken for one that has ended.
NewBegun ==
  /\ At({"queued", "STARTED"})
  /\ This.ctx \notin {"loop", "canceled"}
  /\ transactions_' = IF This.op = "STARTED" THEN Append(transactions_, This.t) ELSE transactions_
  /\ m_ver_state' = IF This.ctx = "version" THEN "QUERY" ELSE m_ver_state
  /\ IF This.ctx = "time"
     THEN trans_state_' = "EXECUTING" /\ trans_ts_' = This.t
     ELSE UNCHANGED <<trans_state_, trans_ts_>>
  /\ Then(IF This.ctx = "dump" /\ This.op = "queued" THEN <<Do("end_dump")>> ELSE <<>>)
  /\ UNCHANGED <<atVars, type_, state_, diagVars, ownVars, logVars, requeries, retry, ts, events>>

\* It has ended at once, or failed to start.
NewEnded ==
  /\ At({"SUCCESS", "ERROR"})
  /\ This.ctx \notin {"loop", "canceled"}
  /\ Free(This.t)
  /\ m_ver_state' = IF This.ctx = "version" THEN "FAILED" ELSE m_ver_state
  /\ requeries' = requeries +
       (IF This.ctx = "requery" \/ (This.ctx = "version" /\ m_diag_handler = NoTrans) THEN 1 ELSE 0)
  /\ IF This.ctx = "time"
     THEN trans_state_' = "START_FAIL" /\ retry' = TRUE
     ELSE UNCHANGED <<trans_state_, retry>>
  /\ Then(IF This.ctx = "dump" THEN <<Do("end_dump")>> ELSE <<>>)
  /\ UNCHANGED <<atVars, transactions_, diagVars, armed, logVars, trans_ts_, ts, events>>

------------------------------------------------------------------------------
(* execute() of each kind of transaction.                                  *)

\* What needs no device: there is nothing to do, or it cannot be done now.
EndsAtOnce(t) ==
  CASE type_[t] = "SAVE_SLEEP_LOG" -> log_mode_ # "LM_NORMAL" \/ m_cp_state = "NOT_WORKING"
    [] type_[t] = "SAVE_EVENT_LOG" -> m_cp_state # "WORKING"
    [] type_[t] = "SAVE_MODEM_LAST_LOG" -> log_mode_ # "LM_NORMAL" \/ m_cp_state = "NOT_WORKING"
    [] type_[t] = "START_EVENT_LOG" -> log_mode_ = "LM_EVENT"
    [] type_[t] \in {"START_NORMAL_LOG", "STOP_LOG"} -> log_mode_ # "LM_EVENT"
    [] OTHER -> FALSE

ExecuteAtOnce ==
  /\ At({"execute"})
  /\ EndsAtOnce(This.t)
  /\ LET ty == type_[This.t]
     IN /\ SetState(This.t, IF ty \in {"SAVE_SLEEP_LOG", "SAVE_EVENT_LOG"} THEN "FAILURE" ELSE "SUCCESS")
        /\ Then((IF ty = "START_NORMAL_LOG" /\ log_mode_ = "LM_OFF" THEN <<Do("start")>> ELSE <<>>)
                \o (IF ty = "STOP_LOG" /\ log_mode_ = "LM_NORMAL" THEN <<Do("stop")>> ELSE <<>>)
                \o <<L("SUCCESS", This.t, This.ctx)>>)
  /\ UNCHANGED <<atVars, transactions_, type_, diagVars, ownVars, logVars, verVars, timeVars, events>>

DiagState(ty) ==
  CASE ty = "VERSION_QUERY" -> "QUERY_VER"
    [] ty = "SAVE_SLEEP_LOG" -> "SAVE_SLEEP_LOG"
    [] OTHER -> "DUMP"

\* m_cp_state when stop_diag_trans() is done with a transaction of this type.
AfterDiag(ty) == IF ty = "MEMORY_DUMP" THEN "NOT_WORKING" ELSE "WORKING"

\* stop_diag_trans(), of whatever transaction has the device.
StopDiagTrans ==
  IF cur_diag_trans_ = NoTrans
  THEN UNCHANGED diagVars
  ELSE /\ m_diag_handler' = NoTrans
       /\ cur_diag_trans_' = NoTrans
       /\ m_cp_state' = AfterDiag(type_[cur_diag_trans_])

\* start_diag_trans(), and the command or the file the transaction begins with.
\* One kind never says that it has begun.
ExecuteDiag ==
  LET t == This.t
      ty == type_[t]
      State(s) == IF ty = "ORCA_ETB_DUMP" THEN "NOT_BEGIN" ELSE s
  IN /\ At({"execute"})
     /\ ty \in DiagTypes /\ ~EndsAtOnce(t)
     /\ \/ \* the device is in use, or cannot be opened
           /\ SetState(t, "FAILURE")
           /\ Then(<<L("SUCCESS", t, This.ctx)>>)
           /\ UNCHANGED <<diagVars, armed>>
        \/ \* the command cannot be written
           /\ m_diag_handler = NoTrans
           /\ cur_diag_trans_' = NoTrans
           /\ m_cp_state' = AfterDiag(ty)
           /\ SetState(t, State("FAILURE"))
           /\ Then(<<L("SUCCESS", t, This.ctx)>>)
           /\ UNCHANGED <<m_diag_handler, armed>>
        \/ /\ m_diag_handler = NoTrans
           /\ m_diag_handler' = t
           /\ cur_diag_trans_' = t
           /\ m_cp_state' = DiagState(ty)
           /\ SetState(t, State("EXECUTING"))
           /\ armed' = armed \cup {t}
           /\ Then(<<L("STARTED", t, This.ctx)>>)
     /\ UNCHANGED <<atVars, transactions_, type_, at_finished_, tick, logVars, verVars, timeVars, events>>

CommandOf(ty) ==
  CASE ty = "MODEM_TICK_QUERY" -> "AT_SYNC_TIME"
    [] ty = "START_EVENT_LOG" -> "AT_SUBSCRIBE_EVENT"
    [] ty = "SAVE_EVENT_LOG" -> "AT_EXPORT_LOG"
    [] OTHER -> "AT_UNSUBSCRIBE_EVENT"

ExecuteCommand ==
  LET t == This.t
      ty == type_[t]
  IN /\ At({"execute"})
     /\ ty \in AtTypes /\ ~EndsAtOnce(t)
     /\ \/ /\ StartCommand(t, CommandOf(ty))
           /\ SetState(t, "EXECUTING")
           /\ armed' = IF ty = "SAVE_EVENT_LOG" THEN armed \cup {t} ELSE armed
           /\ Then(<<L("STARTED", t, This.ctx)>>)
        \/ /\ RefuseCommand(CommandOf(ty))
           /\ SetState(t, IF ty = "STOP_LOG" THEN state_[t] ELSE "FAILURE")
           /\ Then(<<L(IF ty \in {"MODEM_TICK_QUERY", "STOP_LOG"} THEN "ERROR" ELSE "SUCCESS",
                       t, This.ctx)>>)
           /\ UNCHANGED armed
        \/ \* the file of the event log cannot be created
           /\ ty = "SAVE_EVENT_LOG"
           /\ SetState(t, "FAILURE")
           /\ Then(<<L("SUCCESS", t, This.ctx)>>)
           /\ UNCHANGED <<atVars, armed>>
     /\ UNCHANGED <<transactions_, type_, diagVars, at_finished_, tick, logVars, verVars, timeVars, events>>

ExecuteLastLog ==
  /\ At({"execute"})
  /\ type_[This.t] = "SAVE_MODEM_LAST_LOG" /\ ~EndsAtOnce(This.t)
  /\ SetState(This.t, "EXECUTING")
  /\ armed' = armed \cup {This.t}
  /\ Then(<<L("STARTED", This.t, This.ctx)>>)
  /\ UNCHANGED <<atVars, transactions_, type_, diagVars, at_finished_, tick, logVars, verVars, timeVars, events>>

------------------------------------------------------------------------------
(* finish() and trans_finished(); cancel_trans() and on_trans_canceled().  *)

First == IF transactions_ = <<>> THEN NoTrans ELSE Head(transactions_)

Place(t) == CHOOSE i \in DOMAIN transactions_ : transactions_[i] = t

\* ll_remove().
Without(t) == IF t \in Queued THEN RemoveAt(transactions_, Place(t)) ELSE transactions_

After(t) ==
  IF Place(t) = Len(transactions_) THEN NoTrans ELSE transactions_[Place(t) + 1]

\* finish(), with the result in ctx: its client is told, and the next starts.
Finish ==
  /\ At({"finish"})
  /\ SetState(This.t, This.ctx)
  /\ transactions_' = Without(This.t)
  /\ listening' = IF type_[This.t] = "START_EVENT_LOG" THEN This.ctx = "SUCCESS" ELSE listening
  /\ Then(<<L("notify", This.t, ""), Do("begin")>>)
  /\ UNCHANGED <<atVars, type_, diagVars, ownVars, log_mode_, m_evt, verVars, timeVars, events>>

Begin ==
  /\ At({"begin"})
  /\ Then(<<L("loop", First, "")>>)
  /\ UNCHANGED <<atVars, queueVars, diagVars, ownVars, logVars, verVars, timeVars, events>>

\* The loop of trans_finished() at t: those that have begun are passed over.
\* Fault: they are not.
Loop_begun ==
  /\ At({"loop"})
  /\ Then(IF This.t = NoTrans THEN <<>> ELSE <<L("execute", This.t, "loop")>>)
  /\ UNCHANGED <<atVars, queueVars, diagVars, ownVars, logVars, verVars, timeVars, events>>

Loop ==
  /\ At({"loop"})
  /\ Then(IF This.t = NoTrans THEN <<>>
          ELSE IF state_[This.t] = "NOT_BEGIN" THEN <<L("execute", This.t, "loop")>>
          ELSE <<L("loop", After(This.t), "")>>)
  /\ UNCHANGED <<atVars, queueVars, diagVars, ownVars, logVars, verVars, timeVars, events>>

\* on_trans_canceled(): only the first of the queue is looked at.
FrontStarts ==
  /\ At({"front"})
  /\ Then(IF First # NoTrans /\ state_[First] = "NOT_BEGIN"
          THEN <<L("execute", First, "canceled")>>
          ELSE <<>>)
  /\ UNCHANGED <<atVars, queueVars, diagVars, ownVars, logVars, verVars, timeVars, events>>

\* Both go on until one has started.  Fault: they end with the first.
NextStarts_once == Then(<<L("notify", This.t, "")>>)

\* Fault: who asked for the transaction that could not start is not told.
NextStarts_silent == Then(<<IF This.ctx = "loop" THEN L("loop", After(This.t), "") ELSE Do("front")>>)

NextStarts ==
  Then(<<L("notify", This.t, ""),
         IF This.ctx = "loop" THEN L("loop", After(This.t), "") ELSE Do("front")>>)

LoopReturn ==
  /\ At({"STARTED", "SUCCESS", "ERROR"})
  /\ This.ctx \in {"loop", "canceled"}
  /\ IF This.op = "STARTED"
     THEN Then(<<>>) /\ UNCHANGED transactions_
     ELSE NextStarts /\ transactions_' = Without(This.t)
  /\ UNCHANGED <<atVars, type_, state_, diagVars, ownVars, logVars, verVars, timeVars, events>>

\* The callback of the client, which deletes the transaction.  A transaction
\* whose start failed may still have the result of one that succeeded.
Notify ==
  LET t == This.t
      failed == state_[t] = "FAILURE"
      timed == type_[t] = "MODEM_TICK_QUERY"
  IN /\ At({"notify"})
     /\ Free(t)
     /\ m_ver_state' = IF type_[t] # "VERSION_QUERY" THEN m_ver_state
                       ELSE IF failed THEN "FAILED" ELSE "GOT"
     /\ IF timed
        THEN /\ trans_ts_' = NoTrans
             /\ trans_state_' = IF failed THEN "EXECUTING_FAIL" ELSE "SUCCESS"
             /\ ts' = IF failed THEN ts ELSE IF t \in tick THEN "tick" ELSE "zero"
        ELSE UNCHANGED <<trans_ts_, trans_state_, ts>>
     /\ Then((IF timed /\ failed THEN <<L("new", NoTrans, "time")>> ELSE <<>>)
             \o (IF type_[t] = "MEMORY_DUMP" THEN <<Do("end_dump")>> ELSE <<>>))
     /\ UNCHANGED <<atVars, transactions_, diagVars, armed, logVars, requeries, retry, events>>

\* cancel_trans() and delete, of a transaction that uses the AT controller.
\* Fault: the command goes on.
CancelTrans_command ==
  /\ At({"cancel"})
  /\ UNCHANGED atVars
  /\ transactions_' = Without(This.t)
  /\ Free(This.t)
  /\ Then(<<Do("front")>>)
  /\ UNCHANGED <<diagVars, armed, logVars, verVars, timeVars, events>>

CancelTrans ==
  /\ At({"cancel"})
  /\ IF state_[This.t] = "EXECUTING" THEN CancelCommand ELSE UNCHANGED atVars
  /\ transactions_' = Without(This.t)
  /\ Free(This.t)
  /\ Then(<<Do("front")>>)
  /\ UNCHANGED <<diagVars, armed, logVars, verVars, timeVars, events>>

\* end_dump(), up to the state of the subsystem.
EndDump ==
  /\ At({"end_dump"})
  /\ m_cp_state' = "NOT_WORKING"
  /\ Then(<<>>)
  /\ UNCHANGED <<atVars, queueVars, m_diag_handler, cur_diag_trans_, ownVars, logVars, verVars, timeVars, events>>

------------------------------------------------------------------------------
(* start() and stop() of the log, and the version query they look after.   *)

Start ==
  /\ At({"start"})
  /\ log_mode_' = "LM_NORMAL"
  /\ Then(IF m_ver_state \in {"NOT_BEGIN", "FAILED"} THEN <<L("new", NoTrans, "version")>> ELSE <<>>)
  /\ UNCHANGED <<atVars, queueVars, diagVars, ownVars, listening, m_evt, verVars, timeVars, events>>

StopQuery(q) ==
  LET canceled == state_[q] = "EXECUTING"
      receiver == type_[q] = "MEMORY_DUMP"
  IN /\ transactions_' = IF receiver THEN transactions_ ELSE Without(q)
     /\ IF receiver THEN UNCHANGED <<type_, state_, at_finished_, tick>> ELSE Free(q)
     /\ armed' = IF canceled THEN armed \ {q} ELSE armed
     /\ IF canceled
        THEN cur_diag_trans_' = NoTrans /\ m_cp_state' = AfterDiag(type_[q])
        ELSE UNCHANGED <<cur_diag_trans_, m_cp_state>>
     /\ m_ver_state' = "NOT_BEGIN"

Dangling(q) == q = NoTrans \/ Freed(q) \/ (state_[q] = "EXECUTING" /\ m_diag_handler # q)

Stop ==
  /\ At({"stop"})
  /\ IF m_ver_state = "QUERY" /\ Dangling(cur_diag_trans_)
     THEN Crash /\ UNCHANGED <<queueVars, ownVars, diagVars, log_mode_, m_ver_state>>
     ELSE /\ IF m_ver_state = "QUERY"
             THEN StopQuery(cur_diag_trans_)
             ELSE UNCHANGED <<queueVars, ownVars, cur_diag_trans_, m_cp_state, m_ver_state>>
          /\ m_diag_handler' = NoTrans
          /\ log_mode_' = "LM_OFF"
          /\ Then(<<>>)
  /\ UNCHANGED <<atVars, listening, m_evt, requeries, timeVars, events>>

\* stop_log() cancels a version query that is alone in the queue before it asks
\* for its own transaction.
DropQuery ==
  LET q == This.t
  IN /\ At({"drop"})
     /\ IF state_[q] = "EXECUTING" /\ m_diag_handler # q
        THEN Crash /\ UNCHANGED <<queueVars, ownVars, diagVars, m_ver_state>>
        ELSE /\ transactions_' = Without(q)
             /\ Free(q)
             /\ armed' = armed \ {q}
             /\ IF state_[q] = "EXECUTING" THEN StopDiagTrans ELSE UNCHANGED diagVars
             /\ m_ver_state' = "NOT_BEGIN"
             /\ Then(<<>>)
     /\ UNCHANGED <<atVars, logVars, requeries, timeVars, events>>

\* The end of change_log_mode(LM_EVENT).
EventMode ==
  /\ At({"event_mode"})
  /\ log_mode_' = "LM_EVENT"
  /\ Then(<<>>)
  /\ UNCHANGED <<atVars, queueVars, diagVars, ownVars, listening, m_evt, verVars, timeVars, events>>

\* WanModemTimeSyncAtCmd::on_modem_assert().  Fault: the pointer is kept.
TimeAssert_kept ==
  /\ At({"time_assert"})
  /\ trans_state_' = "NOT_BEGIN"
  /\ retry' = FALSE
  /\ ts' = "none"
  /\ Then(IF trans_ts_ # NoTrans THEN <<L("cancel", trans_ts_, "")>> ELSE <<>>)
  /\ UNCHANGED <<atVars, queueVars, diagVars, ownVars, logVars, verVars, trans_ts_, events>>

TimeAssert ==
  /\ At({"time_assert"})
  /\ trans_state_' = "NOT_BEGIN"
  /\ retry' = FALSE
  /\ trans_ts_' = NoTrans
  /\ ts' = "none"
  /\ Then(IF trans_ts_ # NoTrans THEN <<L("cancel", trans_ts_, "")>> ELSE <<>>)
  /\ UNCHANGED <<atVars, queueVars, diagVars, ownVars, logVars, verVars, events>>

------------------------------------------------------------------------------
(* What the AT controller reports to the transaction that gave the command. *)

Consequence(ty) ==
  CASE ty = "START_EVENT_LOG" ->
         (IF log_mode_ = "LM_NORMAL" THEN <<Do("stop")>> ELSE <<>>) \o <<Do("event_mode")>>
    [] ty = "STOP_LOG" -> <<Do("stop")>>
    [] ty = "START_NORMAL_LOG" -> <<Do("start")>>
    [] OTHER -> <<>>

ResultOf(answer) == IF answer = "OK" THEN "SUCCESS" ELSE "FAILURE"

\* The result callback of each kind; ctx tells whether the answer was "OK".
CommandResult ==
  LET t == This.t
  IN /\ At({"result"})
     /\ type_[t] # "SAVE_EVENT_LOG"
     /\ Then(IF state_[t] # "EXECUTING" /\ type_[t] # "START_NORMAL_LOG" THEN <<>>
             ELSE (IF This.ctx = "OK" THEN Consequence(type_[t]) ELSE <<>>)
                  \o <<L("finish", t, ResultOf(This.ctx))>>)
     /\ UNCHANGED <<atVars, queueVars, diagVars, ownVars, logVars, verVars, timeVars, events>>

\* TransSaveEventLog waits for the answer and for the data.
ExportResult ==
  /\ At({"result"})
  /\ type_[This.t] = "SAVE_EVENT_LOG"
  /\ at_finished_' = at_finished_ \cup {This.t}
  /\ IF This.t \in armed
     THEN Then(<<>>)
     ELSE \E s \in {"SUCCESS", "FAILURE"} :
            (s = "SUCCESS" => This.ctx = "OK") /\ Then(<<L("finish", This.t, s)>>)
  /\ UNCHANGED <<atVars, queueVars, diagVars, armed, tick, logVars, verVars, timeVars, events>>

\* on_command_result(): its client is called.
ReportResult(ok) ==
  todo' = IF Running THEN <<L("result", client_, ok)>> ELSE <<>>

Answer ==
  /\ Idle
  /\ \/ AnswerArrives("RESULT_OK") /\ ReportResult("OK")
     \/ AnswerArrives("RESULT_ERROR") /\ ReportResult("FAIL")
  /\ UNCHANGED <<queueVars, diagVars, ownVars, logVars, verVars, timeVars, events>>

AtTimeout ==
  /\ Idle
  /\ \E n \in Timer : CommandTimeout(n)
  /\ ReportResult("FAIL")
  /\ UNCHANGED <<queueVars, diagVars, ownVars, logVars, verVars, timeVars, events>>

\* The time is for a time query, and client_ may be another transaction by now.
TickArrives ==
  /\ Idle
  /\ TimeInfo
  /\ IF ~int_result_cb_ THEN UNCHANGED <<tick, todo>>
     ELSE IF client_ # NoClient /\ type_[client_] = "MODEM_TICK_QUERY"
          THEN tick' = tick \cup {client_} /\ UNCHANGED todo
          ELSE Crash /\ UNCHANGED tick
  /\ UNCHANGED <<queueVars, diagVars, armed, at_finished_, logVars, verVars, timeVars, events>>

AtReset ==
  /\ Idle
  /\ ModemForgets
  /\ UNCHANGED transVars

------------------------------------------------------------------------------
(* Timers of transactions, and data from the diag device.                  *)

\* A transaction that has the diag device ends: it gives the device back first.
\* The receiver's failure is not that of the dump when the memory can be copied.
EndDiag(t, results) ==
  /\ armed' = armed \ {t}
  /\ StopDiagTrans
  /\ \E s \in results \cup (IF type_[t] = "MEMORY_DUMP" THEN {"SUCCESS"} ELSE {}) :
       todo' = <<L("finish", t, s)>>

\* ver_query_timeout(), sleep_log_read_timeout(), dump_read_check(), ...: all but
\* the sleep log may wait on, and need the handler for it.
DiagTimeout ==
  /\ Idle
  /\ \E t \in armed :
       /\ type_[t] \in DiagTypes \cup {"FREE"}
       /\ IF Freed(t) \/ Freed(cur_diag_trans_)
          THEN Crash /\ UNCHANGED <<armed, diagVars>>
          ELSE \/ EndDiag(t, {"FAILURE"})
               \/ /\ type_[t] # "SAVE_SLEEP_LOG"
                  /\ m_diag_handler # t
                  /\ Crash
                  /\ UNCHANGED <<armed, diagVars>>
  /\ UNCHANGED <<atVars, queueVars, at_finished_, tick, logVars, verVars, timeVars, events>>

\* process(), with the last of the data or with data that cannot be stored.
DiagData ==
  /\ Idle
  /\ m_diag_handler # NoTrans
  /\ IF Freed(m_diag_handler)
     THEN Crash /\ UNCHANGED <<armed, diagVars>>
     ELSE EndDiag(m_diag_handler,
                  IF type_[m_diag_handler] = "VERSION_QUERY" THEN {"SUCCESS"} ELSE {"SUCCESS", "FAILURE"})
  /\ UNCHANGED <<atVars, queueVars, at_finished_, tick, logVars, verVars, timeVars, events>>

\* last_log_timeout().
LastLogTimeout ==
  /\ Idle
  /\ \E t \in armed :
       /\ type_[t] = "SAVE_MODEM_LAST_LOG"
       /\ armed' = armed \ {t}
       /\ todo' = <<L("finish", t, "SUCCESS")>>
  /\ UNCHANGED <<atVars, queueVars, diagVars, at_finished_, tick, logVars, verVars, timeVars, events>>

\* The data of an event log ends, or one of its two timers is due.
EventLogData ==
  /\ Idle
  /\ \E t \in armed :
       /\ type_[t] = "SAVE_EVENT_LOG"
       /\ armed' = armed \ {t}
       /\ IF t \in at_finished_
          THEN \E s \in {"SUCCESS", "FAILURE"} : todo' = <<L("finish", t, s)>>
          ELSE UNCHANGED todo
  /\ UNCHANGED <<atVars, queueVars, diagVars, at_finished_, tick, logVars, verVars, timeVars, events>>

\* requery_modem_ver(), the timer.
RequeryModemVer ==
  /\ Idle
  /\ requeries > 0
  /\ Len(transactions_) < MaxQueue
  /\ requeries' = requeries - 1
  /\ todo' = <<L("new", NoTrans, "requery")>>
  /\ UNCHANGED <<atVars, queueVars, diagVars, ownVars, logVars, m_ver_state, timeVars, events>>

\* start_query(), the timer of the time query.
StartQuery ==
  /\ Idle
  /\ retry
  /\ Len(transactions_) < MaxQueue
  /\ retry' = FALSE
  /\ todo' = <<L("new", NoTrans, "time")>>
  /\ UNCHANGED <<atVars, queueVars, diagVars, ownVars, logVars, verVars, trans_state_, trans_ts_, ts, events>>

------------------------------------------------------------------------------
(* Requests, and what happens to the modem.                                *)

Event ==
  /\ Idle
  /\ events < MaxEvents
  /\ events' = events + 1
  /\ timers # Timer   \* so that the next command has a timer
  /\ UNCHANGED atVars

\* Starting and stopping the log are parts of global transactions, which run one
\* after the other.
GlobalTypes == {"START_NORMAL_LOG", "STOP_LOG"}

ClientRequest ==
  /\ Event
  /\ Len(transactions_) < MaxQueue
  /\ \E ty \in Requests :
       /\ ty \in GlobalTypes => \A t \in Queued : type_[t] \notin GlobalTypes
       /\ todo' = (IF ty = "STOP_LOG" /\ Len(transactions_) = 1 /\ type_[First] = "VERSION_QUERY"
                   THEN <<L("drop", First, "")>> ELSE <<>>)
                  \o <<L("new", NoTrans, ty)>>
  /\ UNCHANGED <<queueVars, diagVars, ownVars, logVars, verVars, timeVars>>

\* A client leaves while its global transaction runs.
ClientLeaves ==
  /\ Event
  /\ \E t \in Queued : type_[t] \in GlobalTypes /\ todo' = <<L("cancel", t, "")>>
  /\ UNCHANGED <<queueVars, diagVars, ownVars, logVars, verVars, timeVars>>

\* modem_event_notify().
ModemEvent ==
  /\ Event
  /\ at_open /\ listening
  /\ log_mode_ = "LM_EVENT"
  /\ Len(transactions_) < MaxQueue
  /\ todo' = <<L("new", NoTrans, "event")>>
  /\ UNCHANGED <<queueVars, diagVars, ownVars, logVars, verVars, timeVars>>

\* process_assert().  Whether dumps are saved is a setting.
ProcessAssert ==
  /\ Event
  /\ Len(transactions_) < MaxQueue
  /\ \E evt \in CpEvents, shall_dump \in BOOLEAN :
       /\ m_cp_state # "DUMP"
       /\ ~(m_cp_state = "NOT_WORKING" /\ m_evt = evt)
       /\ shall_dump => log_mode_ # "LM_OFF" \/ evt = "CE_BLOCKED"
       /\ m_evt' = evt
       /\ m_cp_state' = "DUMP"
       /\ todo' = (IF ~shall_dump THEN <<Do("end_dump")>>
                   ELSE (IF evt = "CE_BLOCKED" THEN <<L("new", NoTrans, "etb")>> ELSE <<>>)
                        \o <<L("new", NoTrans, "dump")>>)
                  \o <<Do("time_assert")>>
  /\ UNCHANGED <<queueVars, m_diag_handler, cur_diag_trans_, ownVars, log_mode_, listening, verVars, timeVars>>

\* process_alive().
ProcessAlive ==
  /\ Event
  /\ Len(transactions_) < MaxQueue
  /\ m_cp_state' = "WORKING"
  /\ LET again == trans_state_ \notin {"EXECUTING", "SUCCESS"}
     IN /\ retry' = (retry /\ ~again)
        /\ todo' = (IF again THEN <<L("new", NoTrans, "time")>> ELSE <<>>)
                   \o (IF log_mode_ # "LM_OFF" /\ m_ver_state \in {"NOT_BEGIN", "FAILED"}
                       THEN <<L("new", NoTrans, "version")>> ELSE <<>>)
  /\ UNCHANGED <<queueVars, m_diag_handler, cur_diag_trans_, ownVars, logVars, verVars,
                 trans_state_, trans_ts_, ts>>

MainStep ==
  \/ NewTrans \/ NewBegun \/ NewEnded
  \/ ExecuteAtOnce \/ ExecuteDiag \/ ExecuteCommand \/ ExecuteLastLog
  \/ Finish \/ Begin \/ Loop \/ FrontStarts \/ LoopReturn \/ Notify \/ CancelTrans \/ EndDump
  \/ Start \/ Stop \/ DropQuery \/ EventMode \/ TimeAssert
  \/ CommandResult \/ ExportResult

Next ==
  \/ MainStep
  \/ Answer \/ AtTimeout \/ TickArrives \/ AtReset
  \/ DiagTimeout \/ DiagData \/ LastLogTimeout \/ EventLogData
  \/ RequeryModemVer \/ StartQuery
  \/ ClientRequest \/ ClientLeaves \/ ModemEvent \/ ProcessAssert \/ ProcessAlive

modemVars == <<atVars, transVars>>
Spec == ModemInit /\ [][Next]_modemVars

------------------------------------------------------------------------------
(* Properties.                                                             *)

\* What t is waiting for will come: a timer of its own or the end of a command.
WillFinish(t) == t \in armed \/ (Running /\ client_ = t)

\* A diag transaction goes on whose handler was deleted, or the handler or the
\* pointer to the current transaction outlives it: stop() cancels whatever
\* transaction has the diag device, and a version query begun by
\* requery_modem_ver() not at all; and a transaction that never says that it has
\* begun is executed twice.
Astray ==
  \/ cur_diag_trans_ # NoTrans /\ cur_diag_trans_ \notin Queued
  \/ \E t \in Queued : type_[t] \in DiagTypes /\ state_[t] = "EXECUTING" /\ m_diag_handler # t

\* A command is the command of a transaction in the queue that waits for it and
\* is of its kind: the pointer client_ to which the result goes is not dangling.
\* Transactions are canceled, finish and start others inside callbacks.
CommandOwned ==
  Idle /\ Running =>
    /\ client_ \in Queued
    /\ state_[client_] = "EXECUTING"
    /\ type_[client_] \in AtTypes /\ CommandOf(type_[client_]) = action_
    /\ client_ \notin at_finished_

\* A transaction that executes will end: it has a timer or a command, which has
\* a timer (CommandHasTimer).  Except a dump whose receiver stop() deleted.
ExecutingWillEnd ==
  Idle /\ ~Astray => \A t \in Queued : state_[t] = "EXECUTING" => WillFinish(t)

\* The queue is not stuck.  The code takes a queue that is not empty for one in
\* which something executes ("Transaction executing", where it tests number()):
\* the new transaction is queued, and nobody but one that finishes starts it.
QueueMoves ==
  /\ ExecutingWillEnd
  /\ Idle /\ ~Astray /\ transactions_ # <<>> => \E t \in Queued : WillFinish(t)

\* Each object is in the queue at most once and none is forgotten: what is not
\* free is in the queue and will be notified or canceled.
QueueHasAll ==
  /\ ModemTypeOK
  /\ Idle => /\ IsInjective(transactions_)
             /\ Queued = {t \in Trans : type_[t] # "FREE"}

\* No transaction is executed a second time.  (The one that never says that it
\* has begun is.)
ExecutedOnce ==
  \A t \in Trans : todo # <<>> /\ This.op = "execute" /\ This.t = t /\ type_[t] # "ORCA_ETB_DUMP" =>
    state_[t] = "NOT_BEGIN" /\ ~WillFinish(t) /\ m_diag_handler # t

\* While m_ver_state says that the version is queried there is a query: it is
\* what makes stop() cancel one and start() and process_alive() begin none.
VersionState ==
  Idle /\ m_ver_state = "QUERY" => \E t \in Queued : type_[t] = "VERSION_QUERY"

\* The time query goes on until the time is known, through failures, assertions
\* and revivals: it runs or waits in the queue, waits for its timer, or the modem
\* has asserted and its revival starts it again.
TimeSyncGoesOn ==
  Idle => CASE trans_state_ = "EXECUTING" -> trans_ts_ \in Queued /\ type_[trans_ts_] = "MODEM_TICK_QUERY"
            [] trans_state_ = "START_FAIL" -> retry /\ trans_ts_ = NoTrans
            [] trans_state_ = "SUCCESS" -> ts # "none" /\ trans_ts_ = NoTrans
            [] trans_state_ = "NOT_BEGIN" -> ts = "none" /\ ~retry /\ trans_ts_ = NoTrans
            [] OTHER -> FALSE

\* What the daemon asks the MODEM of its own accord: the version and the time.
QueriesGoOn == VersionState /\ TimeSyncGoesOn
=============================================================================
