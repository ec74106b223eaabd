----------------------------- MODULE Multiplexer -----------------------------
(***************************************************************************)
(* Multiplexer (multiplexer.cpp): the table of the handlers and what each  *)
(* wants to be told, and the array that is built from it for poll().  As   *)
(* handlers change the table while a round goes through the array, every   *)
(* change is also made to the array.  The operations are operators on      *)
(*                                                                         *)
(*   polling   m_polling_hdl: [handler, events] in the order registered    *)
(*   dirty     m_dirty: the array is to be built anew before poll()        *)
(*   current   m_current_handlers and m_current_fds: [handler, revents]    *)
(*                                                                         *)
(* POLLIN is the only event that is ever asked for, so events and revents  *)
(* are truth values.                                                       *)
(***************************************************************************)
EXTENDS Naturals, Sequences, SequencesExt

CONSTANT NoHandler   \* the null pointer in m_current_handlers

EmptyMultiplexer == [polling |-> <<>>, dirty |-> TRUE, current |-> <<>>]

\* The places of handler h in the table: one or none.
FindHandler(m, h) == {i \in DOMAIN m.polling : m.polling[i].handler = h}

\* Whether poll() shall report POLLIN of h.
Wants(m, h) == \E i \in DOMAIN m.polling : m.polling[i] = [handler |-> h, events |-> TRUE]

\* The events of the first entry of h in the array are cleared, and the entry
\* is given another handler.
ClearCurrent(m, h, owner) ==
  LET at == {i \in DOMAIN m.current : m.current[i].handler = h}
  IN [i \in DOMAIN m.current |->
        IF i \in at /\ \A j \in at : i <= j
        THEN [handler |-> owner, revents |-> FALSE]
        ELSE m.current[i]]

RegisterFd(m, h) ==
  IF FindHandler(m, h) # {} THEN m
  ELSE [m EXCEPT !.polling = Append(@, [handler |-> h, events |-> TRUE]),
                 !.dirty = TRUE]

\* Fault: the array keeps what poll() reported of h.
UnregisterFd_reported(m, h) ==
  [m EXCEPT !.polling = SelectSeq(@, LAMBDA e : e.handler # h),
            !.dirty = TRUE]

UnregisterFd(m, h) ==
  IF FindHandler(m, h) = {} THEN m
  ELSE [polling |-> RemoveAt(m.polling, CHOOSE i \in FindHandler(m, h) : TRUE),
        dirty |-> TRUE,
        current |-> ClearCurrent(m, h, NoHandler)]

\* The table with POLLIN of h asked for or not.
WithEvents(m, h, on) ==
  [i \in DOMAIN m.polling |->
     IF m.polling[i].handler = h THEN [m.polling[i] EXCEPT !.events = on]
     ELSE m.polling[i]]

AddEvents(m, h) ==
  IF FindHandler(m, h) = {} \/ Wants(m, h) THEN m
  ELSE [m EXCEPT !.polling = WithEvents(m, h, TRUE), !.dirty = TRUE]

DelEvents(m, h) ==
  IF ~Wants(m, h) THEN m
  ELSE [polling |-> WithEvents(m, h, FALSE),
        dirty |-> TRUE,
        current |-> ClearCurrent(m, h, h)]

\* The array for poll(): the handlers that want to be told something, in the
\* order of the table.  The others leave gaps here, which the code closes.
PreparePollingArray(m) ==
  [m EXCEPT !.dirty = FALSE,
            !.current = [i \in DOMAIN m.polling |->
                           [handler |-> IF m.polling[i].events THEN m.polling[i].handler
                                        ELSE NoHandler,
                            revents |-> FALSE]]]

\* poll() reports the handlers ready.
Reported(m, ready) ==
  [m EXCEPT !.current = [i \in DOMAIN @ |->
     [handler |-> @[i].handler, revents |-> @[i].handler \in ready]]]
=============================================================================
