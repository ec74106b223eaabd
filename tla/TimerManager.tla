---------------------------- MODULE TimerManager ----------------------------
(***************************************************************************)
(* TimerManager (timer_mgr.cpp): the list of one-shot timers of the main   *)
(* thread, as operators on the list.  A timer is                           *)
(*                                                                         *)
(*   [id, due, cb, param]                                                  *)
(*                                                                         *)
(* where id is the address that create_timer() returns, which a later      *)
(* timer may have again, and due is due_time less the time of the clock,   *)
(* 0 when it is over: time passes by Elapse.  run() is in MainLoop, for    *)
(* the callbacks are the handlers'.                                        *)
(***************************************************************************)
EXTENDS Naturals, Sequences, SequencesExt

TimerOf(id, interval, cb, param) ==
  [id |-> id, due |-> interval, cb |-> cb, param |-> param]

\* The place of timer t in list l when the search begins at place from: before
\* the first timer that is due later, or at the end.
PlaceFrom(l, t, from) ==
  CHOOSE k \in from .. Len(l) + 1 :
    /\ k <= Len(l) => t.due < l[k].due
    /\ \A j \in from .. k - 1 : t.due >= l[j].due

InsertTimer(l, t) == InsertAt(l, PlaceFrom(l, t, 1), t)

\* Fault: a new timer goes to the end of the list.
CreateTimer_last(l, id, interval, cb, param) ==
  Append(l, TimerOf(id, interval, cb, param))

\* Fault: the interval is rounded down to whole seconds, 300 ms to 0.
CreateTimer_seconds(l, id, interval, cb, param) ==
  InsertTimer(l, TimerOf(id, interval - 1, cb, param))

CreateTimer(l, id, interval, cb, param) ==
  InsertTimer(l, TimerOf(id, interval, cb, param))

\* The places of timer id: one or none.
FindTimer(l, id) == {i \in DOMAIN l : l[i].id = id}

DelTimer(l, id) ==
  IF FindTimer(l, id) = {} THEN l
  ELSE RemoveAt(l, CHOOSE i \in FindTimer(l, id) : TRUE)

\* del_timer() by callback deletes those of every object.
DelTimersOf(l, cb) ==
  LET kept[i \in 0 .. Len(l)] ==
        IF i = 0 THEN <<>>
        ELSE IF l[i].cb = cb THEN kept[i - 1] ELSE Append(kept[i - 1], l[i])
  IN kept[Len(l)]

\* The new place is looked for behind the old one only.
SetNewDueTime(l, id, interval) ==
  IF FindTimer(l, id) = {} THEN l
  ELSE LET i == CHOOSE j \in FindTimer(l, id) : TRUE
           t == [l[i] EXCEPT !.due = interval]
           rest == RemoveAt(l, i)
       IN InsertAt(rest, PlaceFrom(rest, t, i), t)

\* The first timer is due.
TimerDue(l) == l # <<>> /\ Head(l).due = 0

Elapse(l, d) ==
  [i \in DOMAIN l |-> [l[i] EXCEPT !.due = IF @ > d THEN @ - d ELSE 0]]
=============================================================================
