--------------------------- MODULE EventNotifier ---------------------------
(***************************************************************************)
(* EventNotifier (evt_notifier.cpp): the list of those that are told of an *)
(* event.  A client may unsubscribe, and be deleted, in a callback while   *)
(* the list is gone through: its entry is marked then and erased in the    *)
(* end.  Those who subscribe in a callback are not told this time.         *)
(***************************************************************************)
EXTENDS Naturals, Sequences, FiniteSets, SequencesExt

\* A list without its elements at the places in erased.
Without(list, erased) ==
  LET left[i \in 0 .. Len(list)] ==
        IF i = 0 THEN <<>>
        ELSE IF i \in erased THEN left[i - 1] ELSE Append(left[i - 1], list[i])
  IN left[Len(list)]

\* The places of a client's entries: one or none, as clients have one callback.
Places(n, client) == {i \in DOMAIN n.evt_subs : n.evt_subs[i].client = client}

EmptyNotifier == [evt_subs |-> <<>>, is_notifying |-> FALSE]

Entry(client) == [client |-> client, removed |-> FALSE]

AddClient(n, client) ==
  IF Places(n, client) # {} THEN n
  ELSE [n EXCEPT !.evt_subs = Append(@, Entry(client))]

\* Fault: the entry stays, and is called, while the list is gone through.
RemoveClient_marked(n, client) ==
  IF n.is_notifying THEN n
  ELSE [n EXCEPT !.evt_subs = Without(@, Places(n, client))]

RemoveClient(n, client) ==
  [n EXCEPT !.evt_subs =
     IF n.is_notifying
     THEN [i \in DOMAIN @ |-> IF i \in Places(n, client) THEN [@[i] EXCEPT !.removed = TRUE]
                              ELSE @[i]]
     ELSE Without(@, Places(n, client))]

BeginNotify(n) == [n EXCEPT !.is_notifying = TRUE]

EndNotify(n) ==
  [evt_subs |-> Without(n.evt_subs, {i \in DOMAIN n.evt_subs : n.evt_subs[i].removed}),
   is_notifying |-> FALSE]

\* Those that an event is for: the clients subscribed and not unsubscribed.
Subscribed(n) == {n.evt_subs[i].client : i \in {j \in DOMAIN n.evt_subs : ~n.evt_subs[j].removed}}
=============================================================================
