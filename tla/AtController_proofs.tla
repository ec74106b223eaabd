------------------------- MODULE AtController_proofs -------------------------
(***************************************************************************)
(* Of AtController, for any clients, timers and bound of wire: the type    *)
(* invariant, that a running command has a timer, that the pointer to the  *)
(* timer does not dangle, and that the modem owes the running command its  *)
(* last answer.                                                            *)
(***************************************************************************)
EXTENDS AtController, TLAPS

LEMMA AbandonedType ==
  ASSUME NEW w \in Seq(Commands)
  PROVE  /\ Abandoned(w) \in Seq(Commands)
         /\ \A i \in DOMAIN Abandoned(w) : ~Abandoned(w)[i].own
<1>1. DOMAIN w = 1 .. Len(w) /\ Len(w) \in Nat
  OBVIOUS
<1>2. \A i \in 1 .. Len(w) : w[i] \in Commands
  OBVIOUS
<1>3. \A i \in 1 .. Len(w) : [w[i] EXCEPT !.own = FALSE] \in Commands
  BY <1>2 DEF Commands
<1>4. Abandoned(w) \in [1 .. Len(w) -> Commands]
  BY <1>1, <1>3 DEF Abandoned
<1>5. Abandoned(w) \in Seq(Commands) /\ DOMAIN Abandoned(w) = 1 .. Len(w)
  BY <1>1, <1>4
<1>6. ASSUME NEW i \in 1 .. Len(w)
      PROVE  ~Abandoned(w)[i].own
  <2>1. Abandoned(w)[i] = [w[i] EXCEPT !.own = FALSE]
    BY <1>1 DEF Abandoned
  <2>2. w[i] \in Commands
    BY <1>2
  <2> QED
    BY <2>1, <2>2 DEF Commands
<1> QED
  BY <1>5, <1>6

\* When no answer is owed to the running command, sending one makes its answer
\* the last that is owed.
LEMMA SentType ==
  ASSUME NEW w \in Seq(Commands), NEW act \in Actions,
         \A i \in DOMAIN w : ~w[i].own
  PROVE  /\ Sent(w, act) \in Seq(Commands)
         /\ \A i \in DOMAIN Sent(w, act) :
              Sent(w, act)[i].own => i = Len(Sent(w, act)) /\ Sent(w, act)[i].act = act
<1> DEFINE v == IF Len(w) < MaxWire THEN w ELSE Tail(w)
           new == [act |-> act, own |-> TRUE, told |-> FALSE]
<1>1. MaxWire \in Nat \ {0}
  BY AtAssumption
<1>2. v \in Seq(Commands) /\ \A i \in 1 .. Len(v) : ~v[i].own
  <2>1. CASE Len(w) < MaxWire
    BY <2>1
  <2>2. CASE ~(Len(w) < MaxWire)
    <3>1. w # <<>>
      BY <2>2, <1>1
    <3>2. Tail(w) \in Seq(Commands) /\ Len(Tail(w)) = Len(w) - 1
      BY <3>1
    <3>3. \A i \in 1 .. Len(Tail(w)) : Tail(w)[i] = w[i + 1] /\ i + 1 \in DOMAIN w
      BY <3>1, <3>2
    <3> QED
      BY <2>2, <3>2, <3>3
  <2> QED
    BY <2>1, <2>2
<1>3. new \in Commands
  BY DEF Commands
<1> HIDE DEF v, new
<1>4. /\ Append(v, new) \in Seq(Commands)
      /\ Len(Append(v, new)) = Len(v) + 1
      /\ \A i \in 1 .. Len(v) : Append(v, new)[i] = v[i]
      /\ Append(v, new)[Len(v) + 1] = new
  BY <1>2, <1>3
<1>5. \A i \in 1 .. Len(v) + 1 :
        Append(v, new)[i].own => i = Len(v) + 1 /\ Append(v, new)[i].act = act
  <2> SUFFICES ASSUME NEW i \in 1 .. Len(v) + 1, Append(v, new)[i].own
               PROVE  i = Len(v) + 1 /\ Append(v, new)[i].act = act
    OBVIOUS
  <2>1. CASE i \in 1 .. Len(v)
    BY <2>1, <1>2, <1>4
  <2>2. CASE i = Len(v) + 1
    BY <2>2, <1>4 DEF new
  <2> QED
    BY <2>1, <2>2, <1>2
<1>6. Sent(w, act) = Append(v, new)
  BY DEF Sent, v, new
<1>7. DOMAIN Append(v, new) = 1 .. Len(v) + 1
  BY <1>4
<1> QED
  BY <1>4, <1>5, <1>6, <1>7

------------------------------------------------------------------------------
\* AtInv is inductive: each part needs the type, and OwnAnswerComesLast says of a
\* controller that is not busy that it owns nothing on the wire.

LEMMA NothingOwned ==
  ASSUME AtTypeOK, OwnAnswerComesLast, ~Running
  PROVE  \A i \in DOMAIN wire : ~wire[i].own
BY DEF OwnAnswerComesLast

LEMMA AtInitInv == AtInit => AtInv
<1> SUFFICES ASSUME AtInit
             PROVE  AtInv
  OBVIOUS
<1>1. wire = <<>> /\ wire \in Seq(Commands)
  BY DEF AtInit
<1>2. AtTypeOK
  BY <1>1 DEF AtInit, AtTypeOK
<1>3. CommandHasTimer /\ TimerNotDangling /\ OwnAnswerComesLast
  BY <1>1 DEF AtInit, CommandHasTimer, TimerNotDangling, OwnAnswerComesLast, Running
<1> QED
  BY <1>2, <1>3 DEF AtInv

LEMMA AtStepInv == AtInv /\ [AtNext]_atVars => AtInv'
<1> SUFFICES ASSUME AtInv, [AtNext]_atVars
             PROVE  AtInv'
  OBVIOUS
<1> USE DEF AtInv
<1>1. ASSUME NEW c \in Client, NEW act \in Actions, StartCommand(c, act)
      PROVE  AtInv'
  <2>1. PICK n \in Timer \ timers : cmd_timer_' = n /\ timers' = timers \cup {n}
    BY <1>1 DEF StartCommand
  <2>2. /\ at_open' = TRUE /\ action_' = act /\ client_' = c
        /\ int_result_cb_' = (int_result_cb_ \/ act = "AT_SYNC_TIME")
        /\ wire' = Sent(wire, act)
    BY <1>1 DEF StartCommand
  <2>3. /\ Sent(wire, act) \in Seq(Commands)
        /\ \A i \in DOMAIN Sent(wire, act) :
             Sent(wire, act)[i].own => i = Len(Sent(wire, act)) /\ Sent(wire, act)[i].act = act
    <3>1. wire \in Seq(Commands)
      BY DEF AtTypeOK
    <3>2. \A i \in DOMAIN wire : ~wire[i].own
      BY <1>1, NothingOwned DEF StartCommand
    <3> QED
      BY <3>1, <3>2, SentType
  <2>4. act # "AT_NONE"
    BY DEF Actions
  <2>5. AtTypeOK'
    BY <2>1, <2>2, <2>3 DEF AtTypeOK
  <2>6. CommandHasTimer' /\ TimerNotDangling'
    BY <2>1 DEF CommandHasTimer, TimerNotDangling
  <2>7. OwnAnswerComesLast'
    BY <2>2, <2>3, <2>4 DEF OwnAnswerComesLast, Running
  <2> QED
    BY <2>5, <2>6, <2>7
<1>2. ASSUME NEW act \in Actions, RefuseCommand(act)
      PROVE  AtInv'
  <2>1. at_open' \in BOOLEAN
    <3> DEFINE stays == act \in {"AT_UNSUBSCRIBE_EVENT", "AT_SYNC_TIME"}
    <3>1. at_open \in BOOLEAN
      BY DEF AtTypeOK
    <3>2. stays \in BOOLEAN
      OBVIOUS
    <3>3. at_open' = at_open \/ at_open' = stays
      BY <1>2, Zenon DEF RefuseCommand
    <3> HIDE DEF stays
    <3> QED
      BY <3>1, <3>2, <3>3
  <2>2. UNCHANGED <<action_, client_, int_result_cb_, cmd_timer_, timers, wire>>
    BY <1>2 DEF RefuseCommand
  <2> QED
    BY <2>1, <2>2 DEF AtTypeOK, CommandHasTimer, TimerNotDangling, OwnAnswerComesLast, Running
<1>3. ASSUME action_' = "AT_NONE",
             \/ wire' = Abandoned(wire)
             \/ wire # <<>> /\ wire' = Abandoned(Tail(wire))
      PROVE  wire' \in Seq(Commands) /\ CommandHasTimer' /\ OwnAnswerComesLast'
  <2>1. PICK w \in Seq(Commands) : wire' = Abandoned(w)
    <3>1. wire \in Seq(Commands)
      BY DEF AtTypeOK
    <3>2. wire # <<>> => Tail(wire) \in Seq(Commands)
      BY <3>1
    <3> QED
      BY <1>3, <3>1, <3>2
  <2> QED
    BY <1>3, <2>1, AbandonedType DEF CommandHasTimer, OwnAnswerComesLast, Running
<1>4. CASE CancelCommand
  <2>1. wire' \in Seq(Commands) /\ CommandHasTimer' /\ OwnAnswerComesLast'
    BY <1>3, <1>4 DEF CancelCommand
  <2>2. AtTypeOK' /\ TimerNotDangling'
    BY <1>4, <2>1 DEF CancelCommand, AtTypeOK, TimerNotDangling
  <2> QED
    BY <2>1, <2>2
<1>5. ASSUME NEW res \in {"RESULT_OK", "RESULT_ERROR"}, AnswerArrives(res)
      PROVE  AtInv'
  <2>1. wire' \in Seq(Commands) /\ CommandHasTimer' /\ OwnAnswerComesLast'
    BY <1>3, <1>5 DEF AnswerArrives, TakeAnswer
  <2>2. AtTypeOK' /\ TimerNotDangling'
    BY <1>5, <2>1 DEF AnswerArrives, TakeAnswer, AtTypeOK, TimerNotDangling
  <2> QED
    BY <2>1, <2>2
<1>6. ASSUME NEW n \in Timer, CommandTimeout(n)
      PROVE  AtInv'
  <2>1. wire' \in Seq(Commands) /\ CommandHasTimer' /\ OwnAnswerComesLast'
    BY <1>3, <1>6 DEF CommandTimeout
  <2>2. AtTypeOK' /\ TimerNotDangling'
    BY <1>6, <2>1 DEF CommandTimeout, AtTypeOK, TimerNotDangling
  <2> QED
    BY <2>1, <2>2
<1>7. CASE TimeInfo
  <2>1. wire \in Seq(Commands) /\ wire # <<>> /\ wire' = [wire EXCEPT ![1].told = TRUE]
    BY <1>7 DEF TimeInfo, AtTypeOK
  <2>2. 1 \in DOMAIN wire /\ wire[1] \in Commands
    BY <2>1
  <2>3. [wire[1] EXCEPT !.told = TRUE] \in Commands
    BY <2>2 DEF Commands
  <2>4. wire' = [wire EXCEPT ![1] = [wire[1] EXCEPT !.told = TRUE]]
    BY <2>1
  <2>5. wire' \in Seq(Commands) /\ Len(wire') = Len(wire) /\ DOMAIN wire' = DOMAIN wire
    BY <2>1, <2>3, <2>4
  <2>6. \A i \in DOMAIN wire : wire'[i].own = wire[i].own /\ wire'[i].act = wire[i].act
    <3> SUFFICES ASSUME NEW i \in DOMAIN wire
                 PROVE  wire'[i].own = wire[i].own /\ wire'[i].act = wire[i].act
      OBVIOUS
    <3>1. CASE i = 1
      BY <3>1, <2>2, <2>4 DEF Commands
    <3>2. CASE i # 1
      BY <3>2, <2>4
    <3> QED
      BY <3>1, <3>2
  <2>7. UNCHANGED <<at_open, action_, client_, int_result_cb_, cmd_timer_, timers>>
    BY <1>7 DEF TimeInfo
  <2>8. AtTypeOK' /\ CommandHasTimer' /\ TimerNotDangling'
    BY <2>5, <2>7 DEF AtTypeOK, CommandHasTimer, TimerNotDangling, Running
  <2>9. OwnAnswerComesLast'
    BY <2>5, <2>6, <2>7 DEF OwnAnswerComesLast, Running
  <2> QED
    BY <2>8, <2>9
<1>8. CASE ModemForgets
  BY <1>8 DEF ModemForgets, AtTypeOK, CommandHasTimer, TimerNotDangling, OwnAnswerComesLast, Running
<1>9. CASE UNCHANGED atVars
  BY <1>9 DEF atVars, AtTypeOK, CommandHasTimer, TimerNotDangling, OwnAnswerComesLast, Running
<1> QED
  BY <1>1, <1>2, <1>4, <1>5, <1>6, <1>7, <1>8, <1>9 DEF AtNext

\* Commands, their timers and the answers the modem owes stay in step, whatever
\* is canceled, times out or is answered late.
THEOREM AtInvariant == AtSpec => []AtInv
BY AtInitInv, AtStepInv, PTL DEF AtSpec

\* The variables of the controller have their types.
THEOREM AtTypeCorrect == AtSpec => []AtTypeOK
BY AtInvariant, PTL DEF AtInv

\* A command that runs has a pending timer of its own, whatever timers canceled
\* commands left behind: modem_at_ctrl.cpp arms one with each command.
THEOREM RunningCommandHasTimer == AtSpec => []CommandHasTimer
BY AtInvariant, PTL DEF AtInv

\* cmd_timer_, which parse_line() passes to del_timer(), is null or pending.
THEOREM NoDanglingTimer == AtSpec => []TimerNotDangling
BY AtInvariant, PTL DEF AtInv

\* All the answers that come before that of the running command are those of
\* commands that timed out or were canceled.
THEOREM AnswersBeforeOwn == AtSpec => []OwnAnswerComesLast
BY AtInvariant, PTL DEF AtInv
=============================================================================
