---------------------------- MODULE AtController ----------------------------
(***************************************************************************)
(* ModemAtController (modem_at_ctrl.cpp): one AT command at a time on the  *)
(* modem's TTY, the timer of the command, and the lines the modem sends.   *)
(*                                                                         *)
(* An answer ("OK", "ERROR") does not say what it answers.  The modem      *)
(* answers the commands in the order it got them; wire holds those it has  *)
(* not answered yet.  A command that timed out or was canceled stays       *)
(* there: own is TRUE for the command that is running, if any.             *)
(*                                                                         *)
(* The operations are what a client calls; on_command_result() calls the   *)
(* client back as its last act, so that what the client does then is a     *)
(* later step.                                                             *)
(***************************************************************************)
EXTENDS Naturals, Sequences

CONSTANTS
  Client, NoClient,   \* who gives commands
  Timer, NoTimer,     \* timers of the timer manager; bound: how many are pending
  MaxWire             \* bound: unanswered commands; of more, the modem answers the last ones

ASSUME AtAssumption ==
  /\ NoClient \notin Client
  /\ NoTimer \notin Timer
  /\ MaxWire \in Nat \ {0}

VARIABLES
  at_open,         \* fd() >= 0
  action_,         \* action_; state_ is BUSY iff it is not AT_NONE
  client_,         \* client_ and, with it, result_cb_
  int_result_cb_,  \* int_result_cb_ is set
  cmd_timer_,      \* cmd_timer_
  timers,          \* timers with at_cmd_timeout() that are pending
  wire             \* commands the modem has not answered, oldest first

atVars == <<at_open, action_, client_, int_result_cb_, cmd_timer_, timers, wire>>

Actions == {"AT_SUBSCRIBE_EVENT", "AT_UNSUBSCRIBE_EVENT", "AT_EXPORT_LOG", "AT_SYNC_TIME"}
Commands == [act : Actions, own : BOOLEAN, told : BOOLEAN]
Running == action_ # "AT_NONE"

AtTypeOK ==
  /\ at_open \in BOOLEAN
  /\ action_ \in Actions \cup {"AT_NONE"}
  /\ client_ \in Client \cup {NoClient}
  /\ int_result_cb_ \in BOOLEAN
  /\ cmd_timer_ \in Timer \cup {NoTimer}
  /\ timers \in SUBSET Timer
  /\ wire \in Seq(Commands)

AtInit ==
  /\ at_open = FALSE
  /\ action_ = "AT_NONE"
  /\ client_ = NoClient
  /\ int_result_cb_ = FALSE
  /\ cmd_timer_ = NoTimer
  /\ timers = {}
  /\ wire = <<>>

------------------------------------------------------------------------------
(* What a client calls.                                                    *)

Abandoned(w) == [i \in DOMAIN w |-> [w[i] EXCEPT !.own = FALSE]]
Sent(w, act) ==
  Append(IF Len(w) < MaxWire THEN w ELSE Tail(w), [act |-> act, own |-> TRUE, told |-> FALSE])

\* start_subscribe_event(), start_get_tick(), ... that return 0.
\* Fault: a command is started whatever is running.
StartCommand_busy(c, act) ==
  /\ \E n \in Timer \ timers : cmd_timer_' = n /\ timers' = timers \cup {n}
  /\ at_open' = TRUE
  /\ action_' = act
  /\ client_' = c
  /\ int_result_cb_' = (int_result_cb_ \/ act = "AT_SYNC_TIME")
  /\ wire' = Sent(wire, act)

StartCommand(c, act) ==
  /\ ~Running
  /\ \E n \in Timer \ timers : cmd_timer_' = n /\ timers' = timers \cup {n}
  /\ at_open' = TRUE
  /\ action_' = act
  /\ client_' = c
  /\ int_result_cb_' = (int_result_cb_ \/ act = "AT_SYNC_TIME")
  /\ wire' = Sent(wire, act)

\* ... and that return -1: busy, the device cannot be opened, or it cannot be
\* written; two of them close it then.
RefuseCommand(act) ==
  /\ \/ (Running \/ ~at_open) /\ at_open' = at_open
     \/ ~Running /\ at_open' = (act \in {"AT_UNSUBSCRIBE_EVENT", "AT_SYNC_TIME"})
  /\ UNCHANGED <<action_, client_, int_result_cb_, cmd_timer_, timers, wire>>

\* cancel_trans(): the timer goes on.
CancelCommand ==
  /\ action_' = "AT_NONE"
  /\ client_' = NoClient
  /\ int_result_cb_' = FALSE
  /\ wire' = Abandoned(wire)
  /\ UNCHANGED <<at_open, cmd_timer_, timers>>

------------------------------------------------------------------------------
(* What happens to the controller.                                         *)

\* parse_line() of "OK" or "ERROR": whatever command runs has ended.
TakeAnswer ==
  /\ timers' = timers \ {cmd_timer_}
  /\ cmd_timer_' = NoTimer
  /\ action_' = "AT_NONE"
  /\ wire' = Abandoned(Tail(wire))
  /\ UNCHANGED <<at_open, client_, int_result_cb_>>

\* The modem answers its oldest command; it tells the time before it says "OK".
AnswerArrives(res) ==
  /\ at_open
  /\ wire # <<>>
  /\ res = "RESULT_OK" /\ Head(wire).act = "AT_SYNC_TIME" => Head(wire).told
  /\ TakeAnswer

CommandTimeout(n) ==
  /\ n \in timers
  /\ timers' = timers \ {n}
  /\ cmd_timer_' = NoTimer
  /\ action_' = "AT_NONE"
  /\ wire' = Abandoned(wire)
  /\ UNCHANGED <<at_open, client_, int_result_cb_>>

\* "+SPTIMEINFO:", passed to client_ when int_result_cb_ is set.
TimeInfo ==
  /\ at_open
  /\ wire # <<>>
  /\ Head(wire).act = "AT_SYNC_TIME" /\ ~Head(wire).told
  /\ wire' = [wire EXCEPT ![1].told = TRUE]
  /\ UNCHANGED <<at_open, action_, client_, int_result_cb_, cmd_timer_, timers>>

\* The modem restarts: it forgets the commands it got.
ModemForgets ==
  /\ wire # <<>>
  /\ wire' = <<>>
  /\ UNCHANGED <<at_open, action_, client_, int_result_cb_, cmd_timer_, timers>>

AtNext ==
  \/ \E c \in Client, act \in Actions : StartCommand(c, act)
  \/ \E act \in Actions : RefuseCommand(act)
  \/ CancelCommand
  \/ \E res \in {"RESULT_OK", "RESULT_ERROR"} : AnswerArrives(res)
  \/ \E n \in Timer : CommandTimeout(n)
  \/ TimeInfo
  \/ ModemForgets

AtSpec == AtInit /\ [][AtNext]_atVars

------------------------------------------------------------------------------
\* A command that runs has its own timer, so that it ends even when the modem is
\* silent, whatever timers earlier commands left behind (cancel_trans() deletes
\* none): nobody has deleted it, and no stale one is taken for it.
CommandHasTimer == Running => cmd_timer_ \in timers

\* The pointer the controller deletes when an answer comes is not dangling.
TimerNotDangling == cmd_timer_ = NoTimer \/ cmd_timer_ \in timers

\* The answer to the running command is the last the modem owes: the answers to
\* commands that timed out or were canceled come first, and are taken for it.
OwnAnswerComesLast ==
  \A i \in DOMAIN wire : wire[i].own => i = Len(wire) /\ Running /\ wire[i].act = action_

\* What clients of the controller rely on, in every order of commands, answers,
\* timeouts and cancellations.
AtInv ==
  /\ AtTypeOK
  /\ CommandHasTimer
  /\ TimerNotDangling
  /\ OwnAnswerComesLast
=============================================================================
