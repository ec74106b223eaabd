---------------------------- MODULE MainLoop_proofs ----------------------------
(***************************************************************************)
(* Of MainLoop, for any handlers, timers and bounds: what poll() reported  *)
(* is delivered only to handlers that are registered, want it and exist    *)
(* (DispatchLive).  The multiplexer is dealt with first: each operation    *)
(* keeps its table and its array sound with respect to each other.  Then   *)
(* the server is polled while it may accept (ListenerPolled), and the list *)
(* of timers: it is sorted, each timer is in it once, and a pointer that   *)
(* is kept is that of a pending timer (TimersSorted, NoStrayTimer).        *)
(***************************************************************************)
EXTENDS MainLoop, SequenceTheorems, FiniteSetTheorems, WellFoundedInduction, TLAPS

Entries == [handler : Handlers, events : BOOLEAN]
Slots == [handler : Handlers \cup {NoHandler}, revents : BOOLEAN]
Muxes == [polling : Seq(Entries), dirty : BOOLEAN, current : Seq(Slots)]

\* A handler is in the table once.
TableOnce(m) ==
  \A i, j \in DOMAIN m.polling : m.polling[i].handler = m.polling[j].handler => i = j

\* A handler is in the array once, so that clearing its first entry is enough.
ArrayOnce(m) ==
  \A i, j \in DOMAIN m.current :
    m.current[i].handler = m.current[j].handler => i = j \/ m.current[i].handler = NoHandler

\* What is still to be delivered is wanted.
ReportWanted(m) ==
  \A i \in DOMAIN m.current : m.current[i].revents => Wants(m, m.current[i].handler)

\* An array that needs not be built anew has only handlers that want something.
ArrayWanted(m) ==
  ~m.dirty => \A i \in DOMAIN m.current :
                m.current[i].handler # NoHandler => Wants(m, m.current[i].handler)

Sound(m) ==
  m \in Muxes /\ TableOnce(m) /\ ArrayOnce(m) /\ ReportWanted(m) /\ ArrayWanted(m)

\* The handlers in the table.
Registered(m) == {m.polling[i].handler : i \in DOMAIN m.polling}

------------------------------------------------------------------------------
(* The operations of the multiplexer.                                      *)

LEMMA NoHandlerIsNone == NoHandler \notin Handlers
BY LoopAssumption DEF Handlers

LEMMA RemoveAtElements ==
  ASSUME NEW S, NEW s \in Seq(S), NEW i \in DOMAIN s
  PROVE  /\ RemoveAt(s, i) \in Seq(S)
         /\ Len(RemoveAt(s, i)) = Len(s) - 1
         /\ \A k \in 1 .. Len(s) - 1 :
              RemoveAt(s, i)[k] = IF k < i THEN s[k] ELSE s[k + 1]
<1>1. i \in 1 .. Len(s) /\ Len(s) \in Nat
  OBVIOUS
<1>2. /\ SubSeq(s, 1, i - 1) \in Seq(S)
      /\ Len(SubSeq(s, 1, i - 1)) = i - 1
      /\ \A k \in 1 .. i - 1 : SubSeq(s, 1, i - 1)[k] = s[k]
  BY <1>1
<1>3. /\ SubSeq(s, i + 1, Len(s)) \in Seq(S)
      /\ Len(SubSeq(s, i + 1, Len(s))) = Len(s) - i
      /\ \A k \in 1 .. Len(s) - i : SubSeq(s, i + 1, Len(s))[k] = s[i + k]
  BY <1>1
<1> DEFINE a == SubSeq(s, 1, i - 1)
           b == SubSeq(s, i + 1, Len(s))
<1>4. a \in Seq(S) /\ Len(a) = i - 1 /\ \A k \in 1 .. i - 1 : a[k] = s[k]
  BY <1>2
<1>5. b \in Seq(S) /\ Len(b) = Len(s) - i /\ \A k \in 1 .. Len(s) - i : b[k] = s[i + k]
  BY <1>3
<1>6. RemoveAt(s, i) = a \o b
  BY DEF RemoveAt
<1> HIDE DEF a, b
<1>7. /\ a \o b \in Seq(S)
      /\ Len(a \o b) = Len(s) - 1
      /\ \A k \in 1 .. Len(s) - 1 : (a \o b)[k] = IF k <= i - 1 THEN a[k] ELSE b[k - (i - 1)]
  <2>1. /\ a \o b \in Seq(S) /\ Len(a \o b) = Len(a) + Len(b)
        /\ \A k \in 1 .. Len(a) + Len(b) : (a \o b)[k] = IF k <= Len(a) THEN a[k] ELSE b[k - Len(a)]
    BY <1>4, <1>5, ConcatProperties
  <2>2. Len(a) + Len(b) = Len(s) - 1
    BY <1>1, <1>4, <1>5
  <2> QED
    BY <1>4, <2>1, <2>2
<1>8. ASSUME NEW k \in 1 .. Len(s) - 1
      PROVE  (a \o b)[k] = IF k < i THEN s[k] ELSE s[k + 1]
  <2>1. CASE k < i
    BY <1>1, <1>4, <1>7, <2>1
  <2>2. CASE ~(k < i)
    <3>1. (a \o b)[k] = b[k - (i - 1)] /\ k - (i - 1) \in 1 .. Len(s) - i
      BY <1>1, <1>7, <2>2
    <3>2. i + (k - (i - 1)) = k + 1
      BY <1>1
    <3> QED
      BY <1>5, <2>2, <3>1, <3>2
  <2> QED
    BY <2>1, <2>2
<1> QED
  BY <1>6, <1>7, <1>8

LEMMA RegisterSound ==
  ASSUME NEW m, Sound(m), NEW h \in Handlers
  PROVE  /\ Sound(RegisterFd(m, h))
         /\ Registered(RegisterFd(m, h)) \subseteq Registered(m) \cup {h}
<1>1. CASE FindHandler(m, h) # {}
  BY <1>1 DEF RegisterFd
<1>2. CASE FindHandler(m, h) = {}
  <2> DEFINE e == [handler |-> h, events |-> TRUE]
             r == RegisterFd(m, h)
  <2>2. m.polling \in Seq(Entries) /\ e \in Entries /\ m \in Muxes /\ TableOnce(m)
    BY DEF Sound, Muxes, Entries
  <2>9. Append(m.polling, e) \in Seq(Entries)
    BY <2>2
  <2>10. r = [m EXCEPT !.polling = Append(m.polling, e), !.dirty = TRUE]
    BY <1>2 DEF RegisterFd
  <2> HIDE DEF e, r
  <2>1. /\ r \in Muxes /\ r.polling = Append(m.polling, e)
        /\ r.dirty /\ r.current = m.current
    BY <2>2, <2>9, <2>10 DEF Muxes
  <2>3. /\ DOMAIN r.polling = 1 .. Len(m.polling) + 1
        /\ DOMAIN m.polling = 1 .. Len(m.polling) /\ Len(m.polling) \in Nat
        /\ r.polling[Len(m.polling) + 1] = e
        /\ \A i \in 1 .. Len(m.polling) : r.polling[i] = m.polling[i]
    BY <2>1, <2>2, AppendProperties
  <2>4. \A i \in DOMAIN m.polling : m.polling[i].handler # h
    BY <1>2 DEF FindHandler
  <2>5. TableOnce(r)
    <3> SUFFICES ASSUME NEW i \in 1 .. Len(m.polling) + 1, NEW j \in 1 .. Len(m.polling) + 1,
                        r.polling[i].handler = r.polling[j].handler
                 PROVE  i = j
      BY <2>3 DEF TableOnce
    <3>1. e.handler = h
      BY DEF e
    <3>2. CASE i \in 1 .. Len(m.polling) /\ j \in 1 .. Len(m.polling)
      <4>1. m.polling[i].handler = m.polling[j].handler
        BY <2>3, <3>2
      <4> QED
        BY <2>2, <2>3, <3>2, <4>1 DEF TableOnce
    <3>3. CASE i = Len(m.polling) + 1 /\ j \in 1 .. Len(m.polling)
      BY <2>3, <2>4, <3>1, <3>3
    <3>4. CASE j = Len(m.polling) + 1 /\ i \in 1 .. Len(m.polling)
      BY <2>3, <2>4, <3>1, <3>4
    <3> QED
      BY <2>3, <3>2, <3>3, <3>4
  <2>6. \A g : Wants(m, g) => Wants(r, g)
    BY <2>3 DEF Wants
  <2>7. ArrayOnce(r) /\ ReportWanted(r) /\ ArrayWanted(r)
    BY <2>1, <2>6 DEF Sound, ArrayOnce, ReportWanted, ArrayWanted
  <2>8. Registered(r) \subseteq Registered(m) \cup {h}
    BY <2>3 DEF Registered, e
  <2> QED
    BY <2>1, <2>5, <2>7, <2>8 DEF Sound, r
<1> QED
  BY <1>1, <1>2

\* What is left of an array when h is cleared from it.
Cleared(m, h, owner, c) ==
  /\ c \in Seq(Slots)
  /\ DOMAIN c = DOMAIN m.current
  /\ \A i \in DOMAIN m.current :
       c[i] = IF m.current[i].handler = h THEN [handler |-> owner, revents |-> FALSE]
              ELSE m.current[i]

LEMMA ClearedArray ==
  ASSUME NEW m, Sound(m), NEW h \in Handlers, NEW owner \in {h, NoHandler}
  PROVE  Cleared(m, h, owner, ClearCurrent(m, h, owner))
<1> DEFINE c == ClearCurrent(m, h, owner)
<1>1. m.current \in Seq(Slots) /\ DOMAIN m.current = 1 .. Len(m.current) /\ Len(m.current) \in Nat
  BY DEF Sound, Muxes
<1>2. \A i, j \in DOMAIN m.current :
        m.current[i].handler = h /\ m.current[j].handler = h => i = j
  BY NoHandlerIsNone DEF Sound, ArrayOnce
<1>3. \A i \in DOMAIN m.current :
        c[i] = IF m.current[i].handler = h THEN [handler |-> owner, revents |-> FALSE]
               ELSE m.current[i]
  BY <1>1, <1>2 DEF ClearCurrent
<1>4. DOMAIN c = DOMAIN m.current
  BY DEF ClearCurrent
<1>5. [handler |-> owner, revents |-> FALSE] \in Slots
  BY DEF Slots
<1>6. \A i \in 1 .. Len(m.current) : m.current[i] \in Slots
  BY <1>1
<1>7. c \in [1 .. Len(m.current) -> Slots]
  <2>1. c = [i \in 1 .. Len(m.current) |-> c[i]]
    BY <1>1 DEF ClearCurrent
  <2>2. \A i \in 1 .. Len(m.current) : c[i] \in Slots
    BY <1>1, <1>3, <1>5, <1>6
  <2> QED
    BY <2>1, <2>2
<1>8. c \in Seq(Slots)
  BY <1>1, <1>7
<1> QED
  BY <1>3, <1>4, <1>8 DEF Cleared

LEMMA UnregisterSound ==
  ASSUME NEW m, Sound(m), NEW h \in Handlers
  PROVE  /\ Sound(UnregisterFd(m, h))
         /\ Registered(UnregisterFd(m, h)) \subseteq Registered(m) \ {h}
<1>1. CASE FindHandler(m, h) = {}
  BY <1>1 DEF UnregisterFd, FindHandler, Registered
<1>2. CASE FindHandler(m, h) # {}
  <2> DEFINE r == UnregisterFd(m, h)
             i == CHOOSE i \in FindHandler(m, h) : TRUE
             n == Len(m.polling)
  <2>1. /\ r.polling = RemoveAt(m.polling, i) /\ r.dirty
        /\ r.current = ClearCurrent(m, h, NoHandler)
        /\ r = [polling |-> r.polling, dirty |-> r.dirty, current |-> r.current]
        /\ r.dirty \in BOOLEAN
    BY <1>2 DEF UnregisterFd
  <2>2. i \in DOMAIN m.polling /\ m.polling[i].handler = h
    BY <1>2 DEF FindHandler
  <2>3. m.polling \in Seq(Entries) /\ DOMAIN m.polling = 1 .. n /\ n \in Nat
    BY DEF Sound, Muxes
  <2> HIDE DEF i, r
  <2>4. /\ r.polling \in Seq(Entries) /\ Len(r.polling) = n - 1
        /\ \A k \in 1 .. n - 1 :
             r.polling[k] = IF k < i THEN m.polling[k] ELSE m.polling[k + 1]
    BY <2>1, <2>2, <2>3, RemoveAtElements
  <2>5. DOMAIN r.polling = 1 .. n - 1
    BY <2>3, <2>4
  <2>6. /\ r.current \in Seq(Slots) /\ DOMAIN r.current = DOMAIN m.current
        /\ \A k \in DOMAIN m.current :
             r.current[k] = IF m.current[k].handler = h
                            THEN [handler |-> NoHandler, revents |-> FALSE] ELSE m.current[k]
    <3>1. Cleared(m, h, NoHandler, ClearCurrent(m, h, NoHandler))
      BY ClearedArray
    <3> QED
      BY <2>1, <3>1 DEF Cleared
  <2>7. r \in Muxes
    BY <2>1, <2>4, <2>6 DEF Muxes
  <2>8. TableOnce(m)
    BY DEF Sound
  <2> DEFINE at == [k \in 1 .. n - 1 |-> IF k < i THEN k ELSE k + 1]
  <2>at1. ASSUME NEW k \in 1 .. n - 1
          PROVE  at[k] \in 1 .. n /\ at[k] # i /\ r.polling[k] = m.polling[at[k]]
    <3>1. i \in 1 .. n
      BY <2>2, <2>3
    <3>2. CASE k < i
      <4>1. at[k] = k
        BY <3>2
      <4>2. k \in 1 .. n /\ k # i
        BY <2>3, <3>1, <3>2
      <4> HIDE DEF at
      <4> QED
        BY <2>4, <3>2, <4>1, <4>2
    <3>3. CASE ~(k < i)
      <4>1. at[k] = k + 1
        BY <3>3
      <4>2. k + 1 \in 1 .. n /\ k + 1 # i
        BY <2>3, <3>1, <3>3
      <4> HIDE DEF at
      <4> QED
        BY <2>4, <3>3, <4>1, <4>2
    <3> QED
      BY <3>2, <3>3
  <2>at2. \A k, l \in 1 .. n - 1 : at[k] = at[l] => k = l
    BY <2>2, <2>3
  <2> HIDE DEF at
  <2>9. TableOnce(r)
    <3> SUFFICES ASSUME NEW k \in 1 .. n - 1, NEW l \in 1 .. n - 1,
                        r.polling[k].handler = r.polling[l].handler
                 PROVE  k = l
      BY <2>5 DEF TableOnce
    <3>1. m.polling[at[k]].handler = m.polling[at[l]].handler
      BY <2>at1
    <3>2. at[k] = at[l]
      BY <2>3, <2>8, <2>at1, <3>1 DEF TableOnce
    <3> QED
      BY <2>at2, <3>2
  <2>10. ArrayOnce(r)
    BY <2>6 DEF Sound, ArrayOnce
  <2>11. ASSUME NEW g, g # h, Wants(m, g)
         PROVE  Wants(r, g)
    <3>1. PICK j \in DOMAIN m.polling : m.polling[j] = [handler |-> g, events |-> TRUE]
      BY <2>11 DEF Wants
    <3>2. j # i
      BY <2>2, <2>11, <3>1
    <3>3. CASE j < i
      BY <2>2, <2>3, <2>4, <2>5, <3>1, <3>3 DEF Wants
    <3>4. CASE j > i
      <4>1. j - 1 \in 1 .. n - 1 /\ ~(j - 1 < i) /\ (j - 1) + 1 = j
        BY <2>2, <2>3, <3>4
      <4> QED
        BY <2>4, <2>5, <3>1, <4>1 DEF Wants
    <3> QED
      BY <2>2, <2>3, <3>2, <3>3, <3>4
  <2>12. ReportWanted(r)
    <3> SUFFICES ASSUME NEW k \in DOMAIN r.current, r.current[k].revents
                 PROVE  Wants(r, r.current[k].handler)
      BY DEF ReportWanted
    <3>1. m.current[k].handler # h /\ r.current[k] = m.current[k]
      BY <2>6
    <3>2. Wants(m, m.current[k].handler)
      BY <2>6, <3>1 DEF Sound, ReportWanted
    <3> QED
      BY <2>11, <3>1, <3>2
  <2>13. ArrayWanted(r)
    BY <2>1 DEF ArrayWanted
  <2>14. Registered(r) \subseteq Registered(m) \ {h}
    <3> SUFFICES ASSUME NEW k \in DOMAIN r.polling
                 PROVE  r.polling[k].handler \in Registered(m) \ {h}
      BY DEF Registered
    <3>1. PICK j \in DOMAIN m.polling : j # i /\ r.polling[k] = m.polling[j]
      BY <2>3, <2>5, <2>at1
    <3> QED
      BY <2>2, <2>8, <3>1 DEF TableOnce, Registered
  <2> QED
    BY <2>7, <2>9, <2>10, <2>12, <2>13, <2>14 DEF Sound, r
<1> QED
  BY <1>1, <1>2

\* The table when POLLIN of h is asked for or not.
Changed(m, h, p) ==
  /\ p \in Seq(Entries)
  /\ DOMAIN p = DOMAIN m.polling
  /\ \A i \in DOMAIN m.polling :
       /\ p[i].handler = m.polling[i].handler
       /\ m.polling[i].handler # h => p[i] = m.polling[i]

LEMMA WithEventsElements ==
  ASSUME NEW m, Sound(m), NEW h, NEW on \in BOOLEAN
  PROVE  Changed(m, h, WithEvents(m, h, on))
<1> DEFINE p == WithEvents(m, h, on)
<1>1. /\ m.polling \in Seq(Entries) /\ DOMAIN m.polling = 1 .. Len(m.polling)
      /\ \A i \in DOMAIN m.polling : m.polling[i] \in Entries
  BY DEF Sound, Muxes
<1>2. \A i \in DOMAIN m.polling :
        /\ p[i] \in Entries
        /\ p[i].handler = m.polling[i].handler
        /\ m.polling[i].handler # h => p[i] = m.polling[i]
  BY <1>1 DEF WithEvents, Entries
<1>3. DOMAIN p = DOMAIN m.polling /\ p = [i \in DOMAIN m.polling |-> p[i]]
  BY DEF WithEvents
<1>4. p \in [1 .. Len(m.polling) -> Entries]
  BY <1>1, <1>2, <1>3
<1>5. p \in Seq(Entries)
  BY <1>1, <1>4
<1> QED
  BY <1>2, <1>3, <1>5 DEF Changed

LEMMA AddEventsSound ==
  ASSUME NEW m, Sound(m), NEW h
  PROVE  /\ Sound(AddEvents(m, h))
         /\ Registered(AddEvents(m, h)) = Registered(m)
<1>1. CASE FindHandler(m, h) = {} \/ Wants(m, h)
  BY <1>1 DEF AddEvents
<1>2. CASE ~(FindHandler(m, h) = {} \/ Wants(m, h))
  <2> DEFINE r == AddEvents(m, h)
  <2>1. /\ r.polling = WithEvents(m, h, TRUE) /\ r.dirty /\ r.current = m.current
        /\ r = [m EXCEPT !.polling = r.polling, !.dirty = TRUE]
    BY <1>2 DEF AddEvents, Sound, Muxes
  <2> HIDE DEF r
  <2>2. /\ r.polling \in Seq(Entries) /\ DOMAIN r.polling = DOMAIN m.polling
        /\ \A i \in DOMAIN m.polling :
             /\ r.polling[i].handler = m.polling[i].handler
             /\ m.polling[i].handler # h => r.polling[i] = m.polling[i]
    <3>1. Changed(m, h, WithEvents(m, h, TRUE))
      BY WithEventsElements
    <3> QED
      BY <2>1, <3>1 DEF Changed
  <2>3. r \in Muxes
    BY <2>1, <2>2 DEF Sound, Muxes
  <2>4. TableOnce(r) /\ ArrayOnce(r) /\ ArrayWanted(r)
    BY <2>1, <2>2 DEF Sound, TableOnce, ArrayOnce, ArrayWanted
  <2>5. \A g : Wants(m, g) => Wants(r, g)
    <3> SUFFICES ASSUME NEW g, Wants(m, g)
                 PROVE  Wants(r, g)
      OBVIOUS
    <3>1. g # h
      BY <1>2
    <3> QED
      BY <2>2, <3>1 DEF Wants
  <2>6. ReportWanted(r)
    BY <2>1, <2>5 DEF Sound, ReportWanted
  <2>7. Registered(r) = Registered(m)
    BY <2>2 DEF Registered
  <2> QED
    BY <2>3, <2>4, <2>6, <2>7 DEF Sound, r
<1> QED
  BY <1>1, <1>2

LEMMA DelEventsSound ==
  ASSUME NEW m, Sound(m), NEW h \in Handlers
  PROVE  /\ Sound(DelEvents(m, h))
         /\ Registered(DelEvents(m, h)) = Registered(m)
<1>1. CASE ~Wants(m, h)
  BY <1>1 DEF DelEvents
<1>2. CASE Wants(m, h)
  <2> DEFINE r == DelEvents(m, h)
  <2>1. /\ r.polling = WithEvents(m, h, FALSE) /\ r.dirty
        /\ r.current = ClearCurrent(m, h, h)
        /\ r = [polling |-> r.polling, dirty |-> r.dirty, current |-> r.current]
        /\ r.dirty \in BOOLEAN
    BY <1>2 DEF DelEvents
  <2> HIDE DEF r
  <2>2. /\ r.polling \in Seq(Entries) /\ DOMAIN r.polling = DOMAIN m.polling
        /\ \A i \in DOMAIN m.polling :
             /\ r.polling[i].handler = m.polling[i].handler
             /\ m.polling[i].handler # h => r.polling[i] = m.polling[i]
    <3>1. Changed(m, h, WithEvents(m, h, FALSE))
      BY WithEventsElements
    <3> QED
      BY <2>1, <3>1 DEF Changed
  <2>3. /\ r.current \in Seq(Slots) /\ DOMAIN r.current = DOMAIN m.current
        /\ \A k \in DOMAIN m.current :
             r.current[k] = IF m.current[k].handler = h
                            THEN [handler |-> h, revents |-> FALSE] ELSE m.current[k]
    <3>1. Cleared(m, h, h, ClearCurrent(m, h, h))
      BY ClearedArray
    <3> QED
      BY <2>1, <3>1 DEF Cleared
  <2>4. r \in Muxes
    BY <2>1, <2>2, <2>3 DEF Muxes
  <2>5. TableOnce(r) /\ ArrayWanted(r)
    BY <2>1, <2>2 DEF Sound, TableOnce, ArrayWanted
  <2>6. ArrayOnce(r)
    <3>1. \A k \in DOMAIN m.current : r.current[k].handler = m.current[k].handler
      BY <2>3
    <3> QED
      BY <2>3, <3>1 DEF Sound, ArrayOnce
  <2>7. ReportWanted(r)
    <3> SUFFICES ASSUME NEW k \in DOMAIN r.current, r.current[k].revents
                 PROVE  Wants(r, r.current[k].handler)
      BY DEF ReportWanted
    <3>1. m.current[k].handler # h /\ r.current[k] = m.current[k] /\ k \in DOMAIN m.current
      BY <2>3
    <3>2. Wants(m, m.current[k].handler)
      BY <3>1 DEF Sound, ReportWanted
    <3> QED
      BY <2>2, <3>1, <3>2 DEF Wants
  <2>8. Registered(r) = Registered(m)
    BY <2>2 DEF Registered
  <2> QED
    BY <2>4, <2>5, <2>6, <2>7, <2>8 DEF Sound, r
<1> QED
  BY <1>1, <1>2

\* The array is built anew.
LEMMA PrepareSound ==
  ASSUME NEW m, Sound(m)
  PROVE  /\ Sound(PreparePollingArray(m))
         /\ ~PreparePollingArray(m).dirty
         /\ Registered(PreparePollingArray(m)) = Registered(m)
<1> DEFINE r == PreparePollingArray(m)
           slot(i) == [handler |-> IF m.polling[i].events THEN m.polling[i].handler ELSE NoHandler,
                       revents |-> FALSE]
<1>1. /\ m.polling \in Seq(Entries) /\ DOMAIN m.polling = 1 .. Len(m.polling)
      /\ \A i \in DOMAIN m.polling : m.polling[i] \in Entries
      /\ m \in Muxes /\ TableOnce(m)
  BY DEF Sound, Muxes
<1>2. r = [m EXCEPT !.dirty = FALSE, !.current = [i \in DOMAIN m.polling |-> slot(i)]]
  BY DEF PreparePollingArray
<1> HIDE DEF r
<1>3. \A i \in DOMAIN m.polling : slot(i) \in Slots
  BY <1>1 DEF Entries, Slots
<1>4. [i \in DOMAIN m.polling |-> slot(i)] \in Seq(Slots)
  <2> HIDE DEF slot
  <2> QED
    BY <1>1, <1>3
<1>5. /\ r \in Muxes /\ r.polling = m.polling /\ ~r.dirty
      /\ DOMAIN r.current = DOMAIN m.polling
      /\ \A i \in DOMAIN m.polling : r.current[i] = slot(i)
  <2> HIDE DEF slot
  <2> QED
    BY <1>1, <1>2, <1>4 DEF Muxes
<1>slot. \A i \in DOMAIN m.polling :
           /\ ~r.current[i].revents
           /\ r.current[i].handler # NoHandler =>
                m.polling[i].events /\ r.current[i].handler = m.polling[i].handler
  <2> SUFFICES ASSUME NEW i \in DOMAIN m.polling
               PROVE  /\ ~r.current[i].revents
                      /\ r.current[i].handler # NoHandler =>
                           m.polling[i].events /\ r.current[i].handler = m.polling[i].handler
    OBVIOUS
  <2>1. r.current[i] = slot(i)
    BY <1>5
  <2>2. /\ slot(i).revents = FALSE
        /\ slot(i).handler = IF m.polling[i].events THEN m.polling[i].handler ELSE NoHandler
    OBVIOUS
  <2> HIDE DEF slot
  <2> QED
    BY <2>1, <2>2
<1> HIDE DEF slot
<1>6. TableOnce(r) /\ Registered(r) = Registered(m)
  BY <1>1, <1>5 DEF TableOnce, Registered
<1>7. ArrayOnce(r)
  BY <1>1, <1>5, <1>slot DEF TableOnce, ArrayOnce
<1>8. ReportWanted(r)
  BY <1>5, <1>slot DEF ReportWanted
<1>9. ArrayWanted(r)
  <2> SUFFICES ASSUME NEW i \in DOMAIN m.polling, r.current[i].handler # NoHandler
               PROVE  Wants(r, r.current[i].handler)
    BY <1>5 DEF ArrayWanted
  <2>1. m.polling[i].events /\ r.current[i].handler = m.polling[i].handler
    BY <1>slot
  <2>2. m.polling[i] = [handler |-> m.polling[i].handler, events |-> TRUE]
    BY <1>1, <2>1 DEF Entries
  <2> QED
    BY <1>5, <2>1, <2>2 DEF Wants
<1> QED
  BY <1>5, <1>6, <1>7, <1>8, <1>9 DEF Sound, r

\* An array in which only the events differ, and are wanted.
LEMMA EventsSound ==
  ASSUME NEW m, Sound(m), NEW c,
         c \in Seq(Slots), DOMAIN c = DOMAIN m.current,
         \A i \in DOMAIN m.current :
           /\ c[i].handler = m.current[i].handler
           /\ c[i].revents => Wants(m, m.current[i].handler)
  PROVE  /\ Sound([m EXCEPT !.current = c])
         /\ Registered([m EXCEPT !.current = c]) = Registered(m)
<1> DEFINE r == [m EXCEPT !.current = c]
<1>1. m \in Muxes
  BY DEF Sound
<1>2. r \in Muxes /\ r.polling = m.polling /\ r.dirty = m.dirty /\ r.current = c
  BY <1>1 DEF Muxes
<1> HIDE DEF r
<1>3. \A h : Wants(m, h) => Wants(r, h)
  BY <1>2 DEF Wants
<1>4. TableOnce(r) /\ Registered(r) = Registered(m)
  BY <1>2 DEF Sound, TableOnce, Registered
<1>5. ArrayOnce(r)
  BY <1>2 DEF Sound, ArrayOnce
<1>6. ReportWanted(r)
  BY <1>2, <1>3 DEF ReportWanted
<1>7. ArrayWanted(r)
  BY <1>2, <1>3 DEF Sound, ArrayWanted
<1> QED
  BY <1>2, <1>4, <1>5, <1>6, <1>7 DEF Sound, r

LEMMA ReportedSound ==
  ASSUME NEW m, Sound(m), ~m.dirty, NEW ready, NoHandler \notin ready
  PROVE  /\ Sound(Reported(m, ready))
         /\ Registered(Reported(m, ready)) = Registered(m)
<1> DEFINE c == [i \in DOMAIN m.current |->
                   [handler |-> m.current[i].handler, revents |-> m.current[i].handler \in ready]]
<1>1. /\ m \in Muxes /\ DOMAIN m.current = 1 .. Len(m.current)
      /\ \A i \in DOMAIN m.current : m.current[i] \in Slots
  BY DEF Sound, Muxes
<1>2. /\ DOMAIN c = DOMAIN m.current
      /\ \A i \in DOMAIN m.current :
           /\ c[i] \in Slots
           /\ c[i].handler = m.current[i].handler
           /\ c[i].revents => c[i].handler \in ready
  <2>1. DOMAIN c = DOMAIN m.current
    OBVIOUS
  <2>2. ASSUME NEW i \in DOMAIN m.current
        PROVE  c[i] = [handler |-> m.current[i].handler,
                       revents |-> m.current[i].handler \in ready]
    BY <2>2
  <2>3. ASSUME NEW i \in DOMAIN m.current
        PROVE  m.current[i].handler \in Handlers \cup {NoHandler}
    BY <1>1, <2>3 DEF Slots
  <2>4. ASSUME NEW i \in DOMAIN m.current
        PROVE  c[i] \in Slots
    <3>1. (m.current[i].handler \in ready) \in BOOLEAN
      OBVIOUS
    <3> QED
      BY <2>2, <2>3, <3>1 DEF Slots
  <2>5. ASSUME NEW i \in DOMAIN m.current
        PROVE  /\ c[i].handler = m.current[i].handler
               /\ c[i].revents = (m.current[i].handler \in ready)
    <3> DEFINE h == m.current[i].handler
               b == h \in ready
    <3>1. c[i] = [handler |-> h, revents |-> b]
      BY <2>2
    <3> HIDE DEF h, b, c
    <3>2. c[i].handler = h /\ c[i].revents = b
      BY <3>1
    <3> QED
      BY <3>2 DEF h, b
  <2> HIDE DEF c
  <2>6. ASSUME NEW i \in DOMAIN m.current
        PROVE  c[i].revents => c[i].handler \in ready
    BY <2>5, <2>6
  <2> QED
    BY <2>1, <2>4, <2>5, <2>6
<1>3. c \in Seq(Slots)
  <2>1. c \in [1 .. Len(m.current) -> Slots]
    BY <1>1, <1>2
  <2> HIDE DEF c
  <2> QED
    BY <1>1, <2>1
<1>4. \A i \in DOMAIN m.current : c[i].revents => Wants(m, m.current[i].handler)
  BY <1>2 DEF Sound, ArrayWanted
<1>5. Reported(m, ready) = [m EXCEPT !.current = c]
  BY <1>1 DEF Reported, Muxes
<1> HIDE DEF c
<1> QED
  BY <1>2, <1>3, <1>4, <1>5, EventsSound

LEMMA DeliveredSound ==
  ASSUME Sound(mux)
  PROVE  Sound(Delivered) /\ Registered(Delivered) = Registered(mux)
<1> DEFINE n == NextPlace
           c == [mux.current EXCEPT ![n].revents = FALSE]
<1>1. /\ mux \in Muxes /\ mux.current \in Seq(Slots) /\ DOMAIN mux.current = 1 .. Len(mux.current)
      /\ \A i \in DOMAIN mux.current : mux.current[i] \in Slots
  BY DEF Sound, Muxes
<1>2. Delivered = [mux EXCEPT !.current = c]
  BY DEF Delivered
<1> HIDE DEF n
<1>3. /\ DOMAIN c = DOMAIN mux.current
      /\ \A i \in DOMAIN mux.current :
           /\ c[i] \in Slots
           /\ c[i].handler = mux.current[i].handler
           /\ c[i].revents => mux.current[i].revents
  BY <1>1 DEF Slots
<1>4. c \in Seq(Slots)
  <2>1. c \in [1 .. Len(mux.current) -> Slots]
    BY <1>1, <1>3
  <2> HIDE DEF c
  <2> QED
    BY <1>1, <2>1
<1> HIDE DEF c
<1>5. \A i \in DOMAIN mux.current : c[i].revents => Wants(mux, mux.current[i].handler)
  BY <1>3 DEF Sound, ReportWanted
<1> QED
  BY <1>2, <1>3, <1>4, <1>5, EventsSound

------------------------------------------------------------------------------
(* The table and the descriptors.                                          *)

\* The handlers in the table that can be deleted are not.
Good(m, o) == Sound(m) /\ Registered(m) \cap Deletable \subseteq o

LEMMA GoodOperations ==
  ASSUME NEW m, NEW o, Good(m, o), NEW h \in Handlers
  PROVE  /\ Good(RegisterFd(m, h), o \cup {h})
         /\ Good(UnregisterFd(m, h), o \ {h})
         /\ Good(DelEvents(m, h), o)
<1>1. Sound(m) /\ Registered(m) \cap Deletable \subseteq o
  BY DEF Good
<1>2. Good(RegisterFd(m, h), o \cup {h})
  BY <1>1, RegisterSound DEF Good
<1>3. Good(UnregisterFd(m, h), o \ {h})
  BY <1>1, UnregisterSound DEF Good
<1>4. Good(DelEvents(m, h), o)
  BY <1>1, DelEventsSound DEF Good
<1> QED
  BY <1>2, <1>3, <1>4

LEMMA GoodAdd ==
  ASSUME NEW m, NEW o, Good(m, o), NEW h
  PROVE  Good(AddEvents(m, h), o)
BY AddEventsSound DEF Good

\* Of the descriptors only those of handlers that can be deleted matter.
LEMMA GoodFor ==
  ASSUME NEW m, NEW o, Good(m, o), NEW u, o \cap Deletable \subseteq u
  PROVE  Good(m, u)
BY DEF Good

LEMMA Lasting ==
  /\ Pipes \cup {Listener, Monitor, Channel} \subseteq Handlers
  /\ \A h \in Pipes \cup {Listener, Monitor, Channel} : h \notin Deletable
  /\ Conns \subseteq Handlers /\ Diag \in Handlers
BY LoopAssumption DEF Handlers, Deletable

\* Whether it succeeds or not, a handler that lasts may be opened.
LEMMA OpenGood ==
  ASSUME NEW m, Good(m, opened), NEW h \in Handlers, h \notin Deletable,
         NEW l, NEW busy, NEW interval, NEW cb,
         OpenOrRetry(h, m, l, busy, interval, cb)
  PROVE  Good(mux', opened')
<1>1. CASE opened' = opened \cup {h} /\ mux' = RegisterFd(m, h)
  BY <1>1, GoodOperations
<1>2. CASE mux' = m /\ opened' = opened \ {h}
  <2>1. Good(m, opened \ {h})
    BY GoodFor
  <2> QED
    BY <1>2, <2>1
<1> QED
  BY <1>1, <1>2 DEF OpenOrRetry

LEMMA StopDiagGood ==
  ASSUME NEW m, Good(m, opened), StopDiagTrans(m)
  PROVE  Good(mux', opened')
<1>1. Good(UnregisterFd(m, Diag), opened \ {Diag})
  BY Lasting, GoodOperations
<1>2. Good(AddEvents(UnregisterFd(m, Diag), client), opened \ {Diag})
  BY <1>1, GoodAdd
<1> QED
  BY <1>2 DEF StopDiagTrans

LEMMA GoodAtFirst ==
  ASSUME Init
  PROVE  Good(mux, opened) /\ ~mux.dirty
<1> DEFINE m0 == EmptyMultiplexer
           m1 == RegisterFd(m0, Channel)
           m2 == RegisterFd(m1, Monitor)
           m3 == RegisterFd(m2, Listener)
<1>1. mux = PreparePollingArray(m3) /\ opened = {Channel, Monitor, Listener}
  BY DEF Init
<1>2. Good(m0, {})
  <2>1. /\ <<>> \in Seq(Entries) /\ <<>> \in Seq(Slots)
        /\ DOMAIN m0.polling = {} /\ DOMAIN m0.current = {}
    BY DEF EmptyMultiplexer
  <2>2. m0 \in Muxes
    BY <2>1 DEF EmptyMultiplexer, Muxes
  <2> QED
    BY <2>1, <2>2 DEF Good, Sound, TableOnce, ArrayOnce, ReportWanted, ArrayWanted, Registered
<1> HIDE DEF m0
<1>3. Good(m1, {} \cup {Channel})
  BY <1>2, Lasting, GoodOperations
<1> HIDE DEF m1
<1>4. Good(m2, ({} \cup {Channel}) \cup {Monitor})
  BY <1>3, Lasting, GoodOperations
<1> HIDE DEF m2
<1>5. Good(m3, (({} \cup {Channel}) \cup {Monitor}) \cup {Listener})
  BY <1>4, Lasting, GoodOperations
<1> HIDE DEF m3
<1>6. Good(m3, opened)
  BY <1>1, <1>5, GoodFor
<1>7. Sound(PreparePollingArray(m3)) /\ ~PreparePollingArray(m3).dirty
      /\ Registered(PreparePollingArray(m3)) = Registered(m3)
  BY <1>6, PrepareSound DEF Good
<1> QED
  BY <1>1, <1>6, <1>7 DEF Good

\* The inductive invariant.
IInv ==
  /\ Good(mux, opened)
  /\ phase = "poll" => ~mux.dirty
  /\ logging \subseteq Pipes

LEMMA StepGood ==
  ASSUME IInv, Next
  PROVE  Good(mux', opened')
<1>1. Good(mux, opened) /\ Sound(mux) /\ logging \subseteq Pipes
  BY DEF IInv, Good
<1>2. Good(Delivered, opened)
  BY <1>1, DeliveredSound DEF Good
<1>3. CASE Poll
  <2>1. PICK ready : NoHandler \notin ready /\ mux' = Reported(mux, ready)
    BY <1>3 DEF Poll
  <2>2. ~mux.dirty /\ opened' = opened
    BY <1>3 DEF Poll, IInv
  <2> QED
    BY <1>1, <2>1, <2>2, ReportedSound DEF Good
<1>4. CASE TimersDone
  BY <1>1, <1>4 DEF TimersDone
<1>5. CASE RoundDone
  BY <1>1, <1>5, PrepareSound DEF RoundDone, Good
<1>6. CASE ReopenLogDev
  <2> DEFINE p == Head(m_timers).param
  <2>1. CASE p \in logging \cap working
    <3>1. OpenOrRetry(p, mux, Tail(m_timers), {Head(m_timers).id}, ReopenTime, "reopen_log_dev")
      BY <1>6, <2>1 DEF ReopenLogDev, OpenLogDev
    <3>2. p \in Handlers /\ p \notin Deletable
      BY <1>1, <2>1, Lasting
    <3> HIDE DEF p
    <3> QED
      BY <1>1, <3>1, <3>2, OpenGood
  <2>2. CASE p \notin logging \cap working
    BY <1>1, <1>6, <2>2 DEF ReopenLogDev
  <2> QED
    BY <2>1, <2>2
<1>7. CASE ConnectServerTimer
  <2>1. OpenOrRetry(Monitor, mux, Tail(m_timers), {Head(m_timers).id}, ConnectTime, "connect_server")
    BY <1>7 DEF ConnectServerTimer, ConnectServer
  <2> QED
    BY <1>1, <2>1, Lasting, OpenGood
<1>8. CASE ReadTimeout
  BY <1>1, <1>8, StopDiagGood DEF ReadTimeout
<1>9. CASE Accept
  <2>1. PICK c \in Conns \ opened :
          /\ opened' = opened \cup {c}
          /\ mux' = IF Cardinality(Clients) + 1 >= MaxClients
                    THEN DelEvents(RegisterFd(Delivered, c), Listener)
                    ELSE RegisterFd(Delivered, c)
    BY <1>9 DEF Accept
  <2>2. Good(RegisterFd(Delivered, c), opened \cup {c})
    BY <1>2, Lasting, GoodOperations
  <2>3. Good(DelEvents(RegisterFd(Delivered, c), Listener), opened \cup {c})
    BY <2>2, Lasting, GoodOperations
  <2> QED
    BY <2>1, <2>2, <2>3
<1>10. CASE ClientDisconn
  <2>1. PICK c \in Conns :
          /\ opened' = opened \ {c}
          /\ mux' = IF Cardinality(Clients) - 1 < MaxClients
                    THEN AddEvents(UnregisterFd(Delivered, c), Listener)
                    ELSE UnregisterFd(Delivered, c)
    BY <1>10 DEF ClientDisconn
  <2>2. Good(UnregisterFd(Delivered, c), opened \ {c})
    BY <1>2, Lasting, GoodOperations
  <2>3. Good(AddEvents(UnregisterFd(Delivered, c), Listener), opened \ {c})
    BY <2>2, GoodAdd
  <2> QED
    BY <2>1, <2>2, <2>3
<1>11. CASE StartLogging
  <2>1. PICK p \in Pipes : IF p \in working THEN OpenLogDev(p, Delivered, m_timers, {})
                           ELSE mux' = Delivered /\ opened' = opened
    BY <1>11 DEF StartLogging
  <2>2. CASE p \in working
    BY <1>2, <2>1, <2>2, Lasting, OpenGood DEF OpenLogDev
  <2>3. CASE p \notin working
    BY <1>2, <2>1, <2>3
  <2> QED
    BY <2>2, <2>3
<1>12. CASE StopLogging
  <2>1. PICK p \in Pipes : /\ opened' = opened \ {p}
                           /\ mux' = IF p \in opened THEN UnregisterFd(Delivered, p) ELSE Delivered
    BY <1>1, <1>12 DEF StopLogging
  <2>2. Good(UnregisterFd(Delivered, p), opened \ {p}) /\ Good(Delivered, opened \ {p})
    BY <1>2, Lasting, GoodOperations, GoodFor
  <2> QED
    BY <2>1, <2>2
<1>13. CASE StartDiagTrans
  <2>1. PICK c \in Conns : /\ opened' = opened \cup {Diag}
                           /\ mux' = DelEvents(RegisterFd(Delivered, Diag), c)
    BY <1>13 DEF StartDiagTrans
  <2>2. Good(RegisterFd(Delivered, Diag), opened \cup {Diag})
    BY <1>2, Lasting, GoodOperations
  <2>3. Good(DelEvents(RegisterFd(Delivered, Diag), c), opened \cup {Diag})
    BY <2>2, Lasting, GoodOperations
  <2> QED
    BY <2>1, <2>3
<1>14. CASE DiagData
  BY <1>2, <1>14 DEF DiagData
<1>15. CASE DiagEnd
  BY <1>2, <1>15, StopDiagGood DEF DiagEnd
<1>16. CASE PipeData
  <2>1. PICK p \in Pipes : opened' = opened /\ mux' \in {Delivered, DelEvents(Delivered, p)}
    BY <1>16 DEF PipeData
  <2>2. Good(DelEvents(Delivered, p), opened)
    BY <1>2, Lasting, GoodOperations
  <2> QED
    BY <1>2, <2>1, <2>2
<1>17. CASE PipeError
  <2>1. PICK p \in Pipes : OpenLogDev(p, UnregisterFd(Delivered, p), m_timers, {})
    BY <1>17 DEF PipeError
  <2>2. Good(UnregisterFd(Delivered, p), opened)
    <3>1. Good(UnregisterFd(Delivered, p), opened \ {p})
      BY <1>2, Lasting, GoodOperations
    <3> QED
      BY <3>1, GoodFor
  <2> QED
    BY <2>1, <2>2, Lasting, OpenGood DEF OpenLogDev
<1>18. CASE BufferAvailable
  <2>1. opened' = opened /\ (mux' = Delivered \/ \E p : mux' = AddEvents(Delivered, p))
    BY <1>18 DEF BufferAvailable
  <2> QED
    BY <1>2, <2>1, GoodAdd
<1>19. CASE CloseOnAssert
  <2>1. PICK p \in Pipes : /\ opened' = opened \ {p}
                           /\ mux' = IF p \in opened THEN UnregisterFd(Delivered, p) ELSE Delivered
    BY <1>19 DEF CloseOnAssert
  <2>2. Good(UnregisterFd(Delivered, p), opened \ {p}) /\ Good(Delivered, opened \ {p})
    BY <1>2, Lasting, GoodOperations, GoodFor
  <2> QED
    BY <2>1, <2>2
<1>20. CASE ProcessAlive
  <2>1. PICK p \in Pipes :
          IF p \in logging \ opened
          THEN OpenLogDev(p, Delivered, DelTimersOf(m_timers, "reopen_log_dev"), {})
          ELSE mux' = Delivered /\ opened' = opened
    BY <1>20 DEF ProcessAlive
  <2>2. CASE p \in logging \ opened
    BY <1>2, <2>1, <2>2, Lasting, OpenGood DEF OpenLogDev
  <2>3. CASE p \notin logging \ opened
    BY <1>2, <2>1, <2>3
  <2> QED
    BY <2>2, <2>3
<1>21. CASE ServerGone
  <2>1. OpenOrRetry(Monitor, UnregisterFd(Delivered, Monitor), m_timers, {}, ConnectTime,
                    "connect_server")
    BY <1>21 DEF ServerGone, ConnectServer
  <2>2. Good(UnregisterFd(Delivered, Monitor), opened)
    <3>1. Good(UnregisterFd(Delivered, Monitor), opened \ {Monitor})
      BY <1>2, Lasting, GoodOperations
    <3> QED
      BY <3>1, GoodFor
  <2> QED
    BY <2>1, <2>2, Lasting, OpenGood
<1> QED
  BY <1>3, <1>4, <1>5, <1>6, <1>7, <1>8, <1>9, <1>10, <1>11, <1>12, <1>13, <1>14, <1>15,
     <1>16, <1>17, <1>18, <1>19, <1>20, <1>21 DEF Next, Callback

\* The array is built anew before the thread polls again, and only pipes log.
LEMMA StepArray ==
  ASSUME IInv, Next
  PROVE  (phase' = "poll" => ~mux'.dirty) /\ logging' \subseteq Pipes
<1>1. Sound(mux) /\ logging \subseteq Pipes
  BY DEF IInv, Good
<1>2. CASE RoundDone
  BY <1>1, <1>2, PrepareSound DEF RoundDone, pipeVars
<1>3. CASE Poll \/ TimersDone
  BY <1>1, <1>3 DEF Poll, TimersDone, pipeVars
<1>4. CASE ReopenLogDev \/ ConnectServerTimer \/ ReadTimeout
  BY <1>1, <1>4 DEF ReopenLogDev, ConnectServerTimer, ReadTimeout, Due, pipeVars
<1>5. CASE \/ Accept \/ ClientDisconn \/ StartDiagTrans \/ DiagData \/ DiagEnd
           \/ PipeData \/ PipeError \/ BufferAvailable \/ ServerGone
  BY <1>1, <1>5 DEF Accept, ClientDisconn, StartDiagTrans, DiagData, DiagEnd,
     PipeData, PipeError, BufferAvailable, ServerGone, Process, pipeVars
<1>6. CASE StartLogging \/ StopLogging \/ CloseOnAssert \/ ProcessAlive
  BY <1>1, <1>6 DEF StartLogging, StopLogging, CloseOnAssert, ProcessAlive, Process
<1> QED
  BY <1>2, <1>3, <1>4, <1>5, <1>6 DEF Next, Callback

\* IInv holds of every state of the loop.
THEOREM LoopInvariant == Spec => []IInv
<1>1. Init => IInv
  BY GoodAtFirst DEF Init, IInv
<1>2. IInv /\ [Next]_vars => IInv'
  <2> SUFFICES ASSUME IInv, [Next]_vars
               PROVE  IInv'
    OBVIOUS
  <2>1. CASE Next
    BY <2>1, StepGood, StepArray DEF IInv
  <2>2. CASE UNCHANGED vars
    BY <2>2 DEF vars, pipeVars, diagVars, IInv
  <2> QED
    BY <2>1, <2>2
<1> QED
  BY <1>1, <1>2, PTL DEF Spec

\* What poll() reported is delivered only to handlers that are registered,
\* want it and, if they can be deleted, have not been.
THEOREM DispatchLiveHolds == Spec => []DispatchLive
<1>1. IInv => DispatchLive
  <2> SUFFICES ASSUME IInv, NEW i \in DOMAIN mux.current, mux.current[i].revents
               PROVE  /\ Wants(mux, mux.current[i].handler)
                      /\ mux.current[i].handler \in Deletable => mux.current[i].handler \in opened
    BY DEF DispatchLive
  <2>1. Wants(mux, mux.current[i].handler)
    BY DEF IInv, Good, Sound, ReportWanted
  <2>2. mux.current[i].handler \in Registered(mux)
    BY <2>1 DEF Wants, Registered
  <2> QED
    BY <2>1, <2>2 DEF IInv, Good
<1> QED
  BY <1>1, LoopInvariant, PTL

------------------------------------------------------------------------------
(* The server socket.                                                      *)

\* Of the Listener r has what m has.
SameListener(m, r) ==
  /\ Wants(r, Listener) <=> Wants(m, Listener)
  /\ Listener \in Registered(r) <=> Listener \in Registered(m)

LEMMA ListenerEntry ==
  /\ [handler |-> Listener, events |-> TRUE].handler = Listener
  /\ [handler |-> Listener, events |-> TRUE].events = TRUE
OBVIOUS

LEMMA SameAfterRegister ==
  ASSUME NEW m, Sound(m), NEW h \in Handlers, h # Listener
  PROVE  SameListener(m, RegisterFd(m, h))
<1>1. CASE FindHandler(m, h) # {}
  BY <1>1 DEF RegisterFd, SameListener
<1>2. CASE FindHandler(m, h) = {}
  <2> DEFINE e == [handler |-> h, events |-> TRUE]
             r == RegisterFd(m, h)
  <2>1. m.polling \in Seq(Entries) /\ e \in Entries /\ m \in Muxes
    BY DEF Sound, Muxes, Entries
  <2>2. r.polling = Append(m.polling, e)
    BY <1>2, <2>1 DEF RegisterFd, Muxes
  <2>3. e.handler # Listener /\ e # [handler |-> Listener, events |-> TRUE]
    OBVIOUS
  <2> HIDE DEF e, r
  <2>4. /\ DOMAIN r.polling = 1 .. Len(m.polling) + 1
        /\ DOMAIN m.polling = 1 .. Len(m.polling) /\ Len(m.polling) \in Nat
        /\ r.polling[Len(m.polling) + 1] = e
        /\ \A i \in 1 .. Len(m.polling) : r.polling[i] = m.polling[i]
    BY <2>1, <2>2, AppendProperties
  <2>5. \A i \in DOMAIN r.polling :
          \/ i \in DOMAIN m.polling /\ r.polling[i] = m.polling[i]
          \/ r.polling[i] = e
    BY <2>4
  <2>6. \A i \in DOMAIN m.polling : i \in DOMAIN r.polling /\ r.polling[i] = m.polling[i]
    BY <2>4
  <2>7. Wants(r, Listener) <=> Wants(m, Listener)
    BY <2>3, <2>5, <2>6 DEF Wants
  <2>8. Listener \in Registered(r) <=> Listener \in Registered(m)
    BY <2>3, <2>5, <2>6 DEF Registered
  <2> QED
    BY <2>7, <2>8 DEF SameListener, r
<1> QED
  BY <1>1, <1>2

LEMMA SameAfterUnregister ==
  ASSUME NEW m, Sound(m), NEW h \in Handlers, h # Listener
  PROVE  SameListener(m, UnregisterFd(m, h))
<1>1. CASE FindHandler(m, h) = {}
  BY <1>1 DEF UnregisterFd, SameListener
<1>2. CASE FindHandler(m, h) # {}
  <2> DEFINE r == UnregisterFd(m, h)
             i == CHOOSE i \in FindHandler(m, h) : TRUE
             n == Len(m.polling)
  <2>1. r.polling = RemoveAt(m.polling, i)
    BY <1>2 DEF UnregisterFd
  <2>2. i \in DOMAIN m.polling /\ m.polling[i].handler = h
    BY <1>2 DEF FindHandler
  <2>3. m.polling \in Seq(Entries) /\ n \in Nat /\ DOMAIN m.polling = 1 .. n
    BY DEF Sound, Muxes
  <2> HIDE DEF i, r
  <2>4. /\ DOMAIN r.polling = 1 .. n - 1
        /\ \A k \in 1 .. n - 1 :
             r.polling[k] = IF k < i THEN m.polling[k] ELSE m.polling[k + 1]
    BY <2>1, <2>2, <2>3, RemoveAtElements
  <2> HIDE DEF n
  <2>5. \A k \in DOMAIN r.polling : \E j \in DOMAIN m.polling : r.polling[k] = m.polling[j]
    <3> SUFFICES ASSUME NEW k \in 1 .. n - 1
                 PROVE  \E j \in 1 .. n : r.polling[k] = m.polling[j]
      BY <2>3, <2>4
    <3>1. k \in 1 .. n /\ k + 1 \in 1 .. n
      BY <2>3
    <3>2. r.polling[k] = m.polling[k] \/ r.polling[k] = m.polling[k + 1]
      BY <2>4
    <3> QED
      BY <3>1, <3>2
  <2>6. \A j \in DOMAIN m.polling :
          m.polling[j].handler = Listener => \E k \in DOMAIN r.polling : r.polling[k] = m.polling[j]
    <3> SUFFICES ASSUME NEW j \in DOMAIN m.polling, m.polling[j].handler = Listener
                 PROVE  \E k \in DOMAIN r.polling : r.polling[k] = m.polling[j]
      OBVIOUS
    <3>1. j # i
      BY <2>2
    <3>2. CASE j < i
      <4>1. j \in 1 .. n - 1
        BY <2>2, <2>3, <3>2
      <4> QED
        BY <2>4, <3>2, <4>1
    <3>3. CASE j > i
      <4>1. j - 1 \in 1 .. n - 1 /\ ~(j - 1 < i) /\ (j - 1) + 1 = j
        BY <2>2, <2>3, <3>3
      <4> QED
        BY <2>4, <4>1
    <3> QED
      BY <2>2, <2>3, <3>1, <3>2, <3>3
  <2>7. Wants(r, Listener) <=> Wants(m, Listener)
    <3>1. Wants(r, Listener) => Wants(m, Listener)
      BY <2>5 DEF Wants
    <3>2. ASSUME Wants(m, Listener)
          PROVE  Wants(r, Listener)
      <4>1. PICK j \in DOMAIN m.polling : m.polling[j] = [handler |-> Listener, events |-> TRUE]
        BY <3>2 DEF Wants
      <4>2. m.polling[j].handler = Listener
        BY <4>1
      <4>3. PICK k \in DOMAIN r.polling : r.polling[k] = m.polling[j]
        BY <2>6, <4>2
      <4> QED
        BY <4>1, <4>3 DEF Wants
    <3> QED
      BY <3>1, <3>2
  <2>8. Listener \in Registered(r) <=> Listener \in Registered(m)
    BY <2>5, <2>6 DEF Registered
  <2> QED
    BY <2>7, <2>8 DEF SameListener, r
<1> QED
  BY <1>1, <1>2

\* The table of r is that of m but for the events of h.
LEMMA SameTable ==
  ASSUME NEW m, NEW r, NEW h, Changed(m, h, r.polling), h # Listener
  PROVE  SameListener(m, r)
<1>1. \A i \in DOMAIN m.polling : m.polling[i].handler = Listener => r.polling[i] = m.polling[i]
  BY DEF Changed
<1>2. \A i \in DOMAIN m.polling : r.polling[i].handler = Listener => r.polling[i] = m.polling[i]
  BY DEF Changed
<1>3. DOMAIN r.polling = DOMAIN m.polling
  BY DEF Changed
<1>4. Wants(r, Listener) <=> Wants(m, Listener)
  BY <1>1, <1>2, <1>3, ListenerEntry DEF Wants
<1>5. Listener \in Registered(r) <=> Listener \in Registered(m)
  BY <1>1, <1>2, <1>3 DEF Registered
<1> QED
  BY <1>4, <1>5 DEF SameListener

LEMMA SameAfterEvents ==
  ASSUME NEW m, Sound(m), NEW h, h # Listener
  PROVE  SameListener(m, AddEvents(m, h)) /\ SameListener(m, DelEvents(m, h))
<1>1. Changed(m, h, WithEvents(m, h, TRUE)) /\ Changed(m, h, WithEvents(m, h, FALSE))
  BY WithEventsElements
<1>2. SameListener(m, AddEvents(m, h))
  <2>1. CASE FindHandler(m, h) = {} \/ Wants(m, h)
    BY <2>1 DEF AddEvents, SameListener
  <2>2. CASE ~(FindHandler(m, h) = {} \/ Wants(m, h))
    <3>1. AddEvents(m, h).polling = WithEvents(m, h, TRUE)
      BY <2>2 DEF AddEvents, Sound, Muxes
    <3> QED
      BY <1>1, <3>1, SameTable
  <2> QED
    BY <2>1, <2>2
<1>3. SameListener(m, DelEvents(m, h))
  <2>1. CASE ~Wants(m, h)
    BY <2>1 DEF DelEvents, SameListener
  <2>2. CASE Wants(m, h)
    <3>1. DelEvents(m, h).polling = WithEvents(m, h, FALSE)
      BY <2>2 DEF DelEvents
    <3> QED
      BY <1>1, <3>1, SameTable
  <2> QED
    BY <2>1, <2>2
<1> QED
  BY <1>2, <1>3

\* POLLIN of the Listener is asked for, and is not any more.
LEMMA ListenerSwitched ==
  ASSUME NEW m, Sound(m), Listener \in Registered(m)
  PROVE  /\ Wants(AddEvents(m, Listener), Listener) /\ ~Wants(DelEvents(m, Listener), Listener)
         /\ Listener \in Registered(AddEvents(m, Listener))
         /\ Listener \in Registered(DelEvents(m, Listener))
<1>1. /\ DOMAIN m.polling = 1 .. Len(m.polling)
      /\ \A i \in DOMAIN m.polling : m.polling[i] \in Entries
  BY DEF Sound, Muxes
<1>2. Wants(AddEvents(m, Listener), Listener)
  <2>1. FindHandler(m, Listener) # {}
    BY DEF Registered, FindHandler
  <2>2. CASE Wants(m, Listener)
    BY <2>2 DEF AddEvents
  <2>3. CASE ~Wants(m, Listener)
    <3> DEFINE r == AddEvents(m, Listener)
    <3>1. r.polling = WithEvents(m, Listener, TRUE)
      BY <2>1, <2>3 DEF AddEvents, Sound, Muxes
    <3>2. PICK i \in DOMAIN m.polling : m.polling[i].handler = Listener
      BY DEF Registered
    <3>3. i \in DOMAIN r.polling /\ r.polling[i] = [m.polling[i] EXCEPT !.events = TRUE]
      BY <3>1, <3>2 DEF WithEvents
    <3>4. r.polling[i] = [handler |-> Listener, events |-> TRUE]
      BY <1>1, <3>2, <3>3 DEF Entries
    <3> QED
      BY <3>3, <3>4 DEF Wants
  <2> QED
    BY <2>2, <2>3
<1>3. ~Wants(DelEvents(m, Listener), Listener)
  <2>1. CASE ~Wants(m, Listener)
    BY <2>1 DEF DelEvents
  <2>2. CASE Wants(m, Listener)
    <3> DEFINE p == WithEvents(m, Listener, FALSE)
    <3>1. DelEvents(m, Listener).polling = p
      BY <2>2 DEF DelEvents
    <3>2. DOMAIN p = DOMAIN m.polling
      BY DEF WithEvents
    <3>3. ASSUME NEW i \in DOMAIN m.polling
          PROVE  p[i] # [handler |-> Listener, events |-> TRUE]
      <4>1. CASE m.polling[i].handler = Listener
        <5>1. p[i] = [m.polling[i] EXCEPT !.events = FALSE]
          BY <3>3, <4>1 DEF WithEvents
        <5>2. p[i].events = FALSE
          BY <1>1, <3>3, <5>1 DEF Entries
        <5> QED
          BY <5>2, ListenerEntry
      <4>2. CASE m.polling[i].handler # Listener
        <5>1. p[i] = m.polling[i]
          BY <3>3, <4>2 DEF WithEvents
        <5> QED
          BY <4>2, <5>1, ListenerEntry
      <4> QED
        BY <4>1, <4>2
    <3> HIDE DEF p
    <3> QED
      BY <3>1, <3>2, <3>3 DEF Wants
  <2> QED
    BY <2>1, <2>2
<1> QED
  BY <1>2, <1>3, <1>1, AddEventsSound, DelEventsSound DEF Handlers

\* What holds of the Listener besides: the counts of ListenerPolled, that it is
\* in the table, and that the client that waits is not the Listener.
Served(m, o) ==
  /\ Listener \in Registered(m)
  /\ Wants(m, Listener) <=> Cardinality(Conns \cap o) < MaxClients

LInv == IInv /\ Served(mux, opened) /\ client \in Conns \cup {NoHandler}

LEMMA ServedSame ==
  ASSUME NEW m, NEW o, Served(m, o), NEW r, SameListener(m, r), NEW u, Conns \cap u = Conns \cap o
  PROVE  Served(r, u)
BY DEF Served, SameListener

LEMMA NotListener ==
  /\ Listener \in Handlers
  /\ \A h \in Pipes \cup Conns \cup {Monitor, Channel, Diag} : h \in Handlers /\ h # Listener
  /\ NoHandler # Listener
  /\ \A h \in Pipes \cup {Monitor, Diag} : h \notin Conns
BY LoopAssumption DEF Handlers

LEMMA OpenServed ==
  ASSUME NEW m, Sound(m), Served(m, opened), NEW h \in Pipes \cup {Monitor},
         NEW l, NEW busy, NEW interval, NEW cb,
         OpenOrRetry(h, m, l, busy, interval, cb)
  PROVE  Served(mux', opened')
<1>1. h \in Handlers /\ h # Listener /\ h \notin Conns
  BY NotListener
<1>2. SameListener(m, RegisterFd(m, h)) /\ SameListener(m, m)
  BY <1>1, SameAfterRegister DEF SameListener
<1>3. Conns \cap opened' = Conns \cap opened
  BY <1>1 DEF OpenOrRetry
<1> QED
  BY <1>2, <1>3, ServedSame DEF OpenOrRetry

LEMMA StopDiagServed ==
  ASSUME NEW m, Sound(m), Served(m, opened), client \in Conns \cup {NoHandler}, StopDiagTrans(m)
  PROVE  Served(mux', opened')
<1> DEFINE r == UnregisterFd(m, Diag)
<1>1. Sound(r) /\ SameListener(m, r)
  BY NotListener, UnregisterSound, SameAfterUnregister
<1> HIDE DEF r
<1>2. SameListener(r, AddEvents(r, client))
  BY <1>1, NotListener, SameAfterEvents
<1>3. SameListener(m, AddEvents(r, client))
  BY <1>1, <1>2 DEF SameListener
<1>4. Conns \cap opened' = Conns \cap opened
  BY NotListener DEF StopDiagTrans
<1> QED
  BY <1>3, <1>4, ServedSame DEF StopDiagTrans, r

LEMMA LeastOf ==
  ASSUME NEW S \in SUBSET Nat, S # {}
  PROVE  \E i \in S : \A j \in S : i <= j
<1> DEFINE R == {ss \in Nat \X Nat : ss[1] < ss[2]}
<1>1. IsWellFoundedOn(R, Nat)
  <2>1. IsWellFoundedOn(OpToRel(<, Nat), Nat)
    BY NatLessThanWellFounded
  <2>2. OpToRel(<, Nat) = R
    BY DEF OpToRel
  <2> QED
    BY <2>1, <2>2
<1>2. \A x, y \in Nat : <<x, y>> \in R <=> x < y
  OBVIOUS
<1> HIDE DEF R
<1>3. PICK i \in S : \A j \in S : ~(<<j, i>> \in R)
  BY <1>1, WFMin
<1>4. ASSUME NEW j \in S
      PROVE  i <= j
  <2>1. i \in Nat /\ j \in Nat
    OBVIOUS
  <2>2. ~(j < i)
    BY <1>2, <1>3, <2>1
  <2> QED
    BY <2>1, <2>2
<1> QED
  BY <1>4

\* A client that is called exists.
LEMMA CalledIsOpen ==
  ASSUME IInv, NEW c \in Conns, Process(c)
  PROVE  c \in opened
<1>1. Pending \in SUBSET Nat /\ Pending # {}
  <2>1. DOMAIN mux.current = 1 .. Len(mux.current) /\ Len(mux.current) \in Nat
    BY DEF IInv, Good, Sound, Muxes
  <2> QED
    BY <2>1 DEF Pending, Process
<1>2. NextPlace \in Pending
  BY <1>1, LeastOf DEF NextPlace
<1>3. mux.current[NextPlace].revents /\ mux.current[NextPlace].handler = c
      /\ NextPlace \in DOMAIN mux.current
  BY <1>2 DEF Pending, Process
<1>4. Wants(mux, c)
  BY <1>3 DEF IInv, Good, Sound, ReportWanted
<1>5. c \in Registered(mux)
  BY <1>4 DEF Wants, Registered
<1> QED
  BY <1>5 DEF IInv, Good, Deletable

LEMMA DeliveredServed ==
  ASSUME Sound(mux), Served(mux, opened)
  PROVE  Served(Delivered, opened)
<1>1. Delivered.polling = mux.polling
  BY DEF Delivered, Sound, Muxes
<1>2. SameListener(mux, Delivered)
  BY <1>1 DEF SameListener, Wants, Registered
<1> QED
  BY <1>2, ServedSame

LEMMA StepServed ==
  ASSUME LInv, Next
  PROVE  Served(mux', opened')
<1>1. Sound(mux) /\ Served(mux, opened) /\ client \in Conns \cup {NoHandler}
      /\ logging \subseteq Pipes
  BY DEF LInv, IInv, Good
<1>2. Sound(Delivered) /\ Served(Delivered, opened)
  BY <1>1, DeliveredSound, DeliveredServed
<1>fin. \A o : IsFiniteSet(Conns \cap o) /\ Cardinality(Conns \cap o) \in Nat
  <2>1. \A o : Conns \cap o \in SUBSET Conns
    OBVIOUS
  <2> QED
    BY <2>1, LoopAssumption, FS_Subset, FS_CardinalityType
<1>max. MaxClients \in Nat
  BY LoopAssumption
<1>3. CASE Poll
  <2>1. PICK ready : mux' = Reported(mux, ready)
    BY <1>3 DEF Poll
  <2>2. mux'.polling = mux.polling /\ opened' = opened
    BY <1>1, <1>3, <2>1 DEF Poll, Reported, Sound, Muxes
  <2>3. SameListener(mux, mux')
    BY <2>2 DEF SameListener, Wants, Registered
  <2> QED
    BY <1>1, <2>2, <2>3, ServedSame
<1>4. CASE TimersDone
  BY <1>1, <1>4 DEF TimersDone
<1>5. CASE RoundDone
  <2>1. mux'.polling = mux.polling /\ opened' = opened
    BY <1>1, <1>5 DEF RoundDone, PreparePollingArray, Sound, Muxes
  <2>2. SameListener(mux, mux')
    BY <2>1 DEF SameListener, Wants, Registered
  <2> QED
    BY <1>1, <2>1, <2>2, ServedSame
<1>6. CASE ReopenLogDev
  <2> DEFINE p == Head(m_timers).param
  <2>1. CASE p \in logging \cap working
    <3>1. OpenOrRetry(p, mux, Tail(m_timers), {Head(m_timers).id}, ReopenTime, "reopen_log_dev")
      BY <1>6, <2>1 DEF ReopenLogDev, OpenLogDev
    <3>2. p \in Pipes
      BY <1>1, <2>1
    <3> HIDE DEF p
    <3> QED
      BY <1>1, <3>1, <3>2, OpenServed
  <2>2. CASE p \notin logging \cap working
    BY <1>1, <1>6, <2>2 DEF ReopenLogDev
  <2> QED
    BY <2>1, <2>2
<1>7. CASE ConnectServerTimer
  <2>1. OpenOrRetry(Monitor, mux, Tail(m_timers), {Head(m_timers).id}, ConnectTime, "connect_server")
    BY <1>7 DEF ConnectServerTimer, ConnectServer
  <2> QED
    BY <1>1, <2>1, OpenServed
<1>8. CASE ReadTimeout
  BY <1>1, <1>8, StopDiagServed DEF ReadTimeout
<1>9. CASE Accept
  <2>1. PICK c \in Conns \ opened :
          /\ opened' = opened \cup {c}
          /\ mux' = IF Cardinality(Clients) + 1 >= MaxClients
                    THEN DelEvents(RegisterFd(Delivered, c), Listener)
                    ELSE RegisterFd(Delivered, c)
    BY <1>9 DEF Accept
  <2> DEFINE r == RegisterFd(Delivered, c)
  <2>2. Sound(r) /\ SameListener(Delivered, r)
    BY <1>2, NotListener, RegisterSound, SameAfterRegister
  <2>3. Conns \cap opened' = Clients \cup {c} /\ c \notin Clients
    BY <2>1 DEF Clients
  <2>4. Cardinality(Conns \cap opened') = Cardinality(Clients) + 1
    BY <1>fin, <2>3, FS_AddElement DEF Clients
  <2>5. Cardinality(Clients) \in Nat /\ Clients = Conns \cap opened
    BY <1>fin DEF Clients
  <2>6. Listener \in Registered(r) /\ (Wants(r, Listener) <=> Cardinality(Clients) < MaxClients)
    BY <1>2, <2>2, <2>5 DEF SameListener, Served
  <2> HIDE DEF r
  <2>7. CASE Cardinality(Clients) + 1 >= MaxClients
    <3>1. Listener \in Registered(mux') /\ ~Wants(mux', Listener)
      BY <2>1, <2>2, <2>6, <2>7, ListenerSwitched DEF r
    <3> QED
      BY <1>max, <2>4, <2>5, <2>7, <3>1 DEF Served
  <2>8. CASE ~(Cardinality(Clients) + 1 >= MaxClients)
    <3>1. mux' = r
      BY <2>1, <2>8 DEF r
    <3> QED
      BY <1>max, <2>4, <2>5, <2>6, <2>8, <3>1 DEF Served
  <2> QED
    BY <2>7, <2>8
<1>10. CASE ClientDisconn
  <2>1. PICK c \in Conns :
          /\ Process(c)
          /\ opened' = opened \ {c}
          /\ mux' = IF Cardinality(Clients) - 1 < MaxClients
                    THEN AddEvents(UnregisterFd(Delivered, c), Listener)
                    ELSE UnregisterFd(Delivered, c)
    BY <1>10 DEF ClientDisconn
  <2> DEFINE r == UnregisterFd(Delivered, c)
  <2>2. Sound(r) /\ SameListener(Delivered, r)
    BY <1>2, NotListener, UnregisterSound, SameAfterUnregister
  <2>3. Conns \cap opened' = Clients \ {c} /\ c \in Clients
    BY <2>1, CalledIsOpen DEF Clients, LInv
  <2>4. Cardinality(Conns \cap opened') = Cardinality(Clients) - 1
    BY <1>fin, <2>3, FS_RemoveElement DEF Clients
  <2>5. Cardinality(Clients) \in Nat /\ Clients = Conns \cap opened
    BY <1>fin DEF Clients
  <2>6. Listener \in Registered(r) /\ (Wants(r, Listener) <=> Cardinality(Clients) < MaxClients)
    BY <1>2, <2>2, <2>5 DEF SameListener, Served
  <2> HIDE DEF r
  <2>7. CASE Cardinality(Clients) - 1 < MaxClients
    <3>1. Listener \in Registered(mux') /\ Wants(mux', Listener)
      BY <2>1, <2>2, <2>6, <2>7, ListenerSwitched DEF r
    <3> QED
      BY <1>max, <2>4, <2>5, <2>7, <3>1 DEF Served
  <2>8. CASE ~(Cardinality(Clients) - 1 < MaxClients)
    <3>1. mux' = r
      BY <2>1, <2>8 DEF r
    <3> QED
      BY <1>max, <2>4, <2>5, <2>6, <2>8, <3>1 DEF Served
  <2> QED
    BY <2>7, <2>8
<1>11. CASE StartLogging
  <2>1. PICK p \in Pipes : IF p \in working THEN OpenLogDev(p, Delivered, m_timers, {})
                           ELSE mux' = Delivered /\ opened' = opened
    BY <1>11 DEF StartLogging
  <2>2. CASE p \in working
    BY <1>2, <2>1, <2>2, OpenServed DEF OpenLogDev
  <2>3. CASE p \notin working
    BY <1>2, <2>1, <2>3
  <2> QED
    BY <2>2, <2>3
<1>12. CASE StopLogging \/ CloseOnAssert
  <2>1. PICK p \in Pipes : /\ opened' = opened \ {p}
                           /\ mux' = IF p \in opened THEN UnregisterFd(Delivered, p) ELSE Delivered
    BY <1>1, <1>12 DEF StopLogging, CloseOnAssert
  <2>2. SameListener(Delivered, UnregisterFd(Delivered, p)) /\ SameListener(Delivered, Delivered)
    BY <1>2, NotListener, SameAfterUnregister DEF SameListener
  <2>3. Conns \cap opened' = Conns \cap opened
    BY <2>1, NotListener
  <2> QED
    BY <1>2, <2>1, <2>2, <2>3, ServedSame
<1>13. CASE StartDiagTrans
  <2>1. PICK c \in Conns : /\ opened' = opened \cup {Diag}
                           /\ mux' = DelEvents(RegisterFd(Delivered, Diag), c)
    BY <1>13 DEF StartDiagTrans
  <2> DEFINE r == RegisterFd(Delivered, Diag)
  <2>2. Sound(r) /\ SameListener(Delivered, r)
    BY <1>2, NotListener, RegisterSound, SameAfterRegister
  <2> HIDE DEF r
  <2>3. SameListener(Delivered, DelEvents(r, c))
    <3>1. SameListener(r, DelEvents(r, c))
      BY <2>2, NotListener, SameAfterEvents
    <3> QED
      BY <2>2, <3>1 DEF SameListener
  <2>4. Conns \cap opened' = Conns \cap opened
    BY <2>1, NotListener
  <2> QED
    BY <1>2, <2>1, <2>3, <2>4, ServedSame DEF r
<1>14. CASE DiagData
  BY <1>2, <1>14 DEF DiagData
<1>15. CASE DiagEnd
  BY <1>1, <1>2, <1>15, StopDiagServed DEF DiagEnd
<1>16. CASE PipeData
  <2>1. PICK p \in Pipes : opened' = opened /\ mux' \in {Delivered, DelEvents(Delivered, p)}
    BY <1>16 DEF PipeData
  <2>2. SameListener(Delivered, DelEvents(Delivered, p)) /\ SameListener(Delivered, Delivered)
    BY <1>2, NotListener, SameAfterEvents DEF SameListener
  <2> QED
    BY <1>2, <2>1, <2>2, ServedSame
<1>17. CASE PipeError
  <2>1. PICK p \in Pipes : OpenLogDev(p, UnregisterFd(Delivered, p), m_timers, {})
    BY <1>17 DEF PipeError
  <2>2. Sound(UnregisterFd(Delivered, p)) /\ SameListener(Delivered, UnregisterFd(Delivered, p))
    BY <1>2, NotListener, UnregisterSound, SameAfterUnregister
  <2>3. Served(UnregisterFd(Delivered, p), opened)
    BY <1>2, <2>2, ServedSame
  <2> QED
    BY <2>1, <2>2, <2>3, OpenServed DEF OpenLogDev
<1>18. CASE BufferAvailable
  <2>1. opened' = opened /\ (mux' = Delivered \/ \E p \in Pipes : mux' = AddEvents(Delivered, p))
    BY <1>1, <1>18 DEF BufferAvailable
  <2>2. \A p \in Pipes : SameListener(Delivered, AddEvents(Delivered, p))
    BY <1>2, NotListener, SameAfterEvents
  <2>3. SameListener(Delivered, Delivered)
    BY DEF SameListener
  <2> QED
    BY <1>2, <2>1, <2>2, <2>3, ServedSame
<1>19. CASE ProcessAlive
  <2>1. PICK p \in Pipes :
          IF p \in logging \ opened
          THEN OpenLogDev(p, Delivered, DelTimersOf(m_timers, "reopen_log_dev"), {})
          ELSE mux' = Delivered /\ opened' = opened
    BY <1>19 DEF ProcessAlive
  <2>2. CASE p \in logging \ opened
    BY <1>2, <2>1, <2>2, OpenServed DEF OpenLogDev
  <2>3. CASE p \notin logging \ opened
    BY <1>2, <2>1, <2>3
  <2> QED
    BY <2>2, <2>3
<1>20. CASE ServerGone
  <2>1. OpenOrRetry(Monitor, UnregisterFd(Delivered, Monitor), m_timers, {}, ConnectTime,
                    "connect_server")
    BY <1>20 DEF ServerGone, ConnectServer
  <2>2. Sound(UnregisterFd(Delivered, Monitor))
        /\ SameListener(Delivered, UnregisterFd(Delivered, Monitor))
    BY <1>2, NotListener, UnregisterSound, SameAfterUnregister
  <2>3. Served(UnregisterFd(Delivered, Monitor), opened)
    BY <1>2, <2>2, ServedSame
  <2> QED
    BY <2>1, <2>2, <2>3, OpenServed
<1> QED
  BY <1>3, <1>4, <1>5, <1>6, <1>7, <1>8, <1>9, <1>10, <1>11, <1>12, <1>13, <1>14, <1>15,
     <1>16, <1>17, <1>18, <1>19, <1>20 DEF Next, Callback

LEMMA StepClient ==
  ASSUME client \in Conns \cup {NoHandler}, Next
  PROVE  client' \in Conns \cup {NoHandler}
<1>1. CASE StartDiagTrans
  BY <1>1 DEF StartDiagTrans
<1>2. CASE ReadTimeout \/ DiagEnd
  BY <1>2 DEF ReadTimeout, DiagEnd, StopDiagTrans
<1>3. CASE Poll \/ TimersDone \/ RoundDone \/ ReopenLogDev \/ ConnectServerTimer
  BY <1>3 DEF Poll, TimersDone, RoundDone, ReopenLogDev, ConnectServerTimer, diagVars
<1>4. CASE \/ Accept \/ ClientDisconn \/ StartLogging \/ StopLogging \/ DiagData
           \/ PipeData \/ PipeError \/ BufferAvailable \/ CloseOnAssert \/ ProcessAlive \/ ServerGone
  BY <1>4 DEF Accept, ClientDisconn, StartLogging, StopLogging, DiagData, PipeData, PipeError,
     BufferAvailable, CloseOnAssert, ProcessAlive, ServerGone, diagVars
<1> QED
  BY <1>1, <1>2, <1>3, <1>4 DEF Next, Callback

LEMMA ServedAtFirst ==
  ASSUME Init
  PROVE  Served(mux, opened)
<1> DEFINE m0 == EmptyMultiplexer
           m1 == RegisterFd(m0, Channel)
           m2 == RegisterFd(m1, Monitor)
           m3 == RegisterFd(m2, Listener)
<1>1. mux = PreparePollingArray(m3) /\ opened = {Channel, Monitor, Listener}
  BY DEF Init
<1>2. Sound(m0)
  <2>1. /\ <<>> \in Seq(Entries) /\ <<>> \in Seq(Slots)
        /\ DOMAIN m0.polling = {} /\ DOMAIN m0.current = {}
    BY DEF EmptyMultiplexer
  <2>2. m0 \in Muxes
    BY <2>1 DEF EmptyMultiplexer, Muxes
  <2> QED
    BY <2>1, <2>2 DEF Sound, TableOnce, ArrayOnce, ReportWanted, ArrayWanted
<1>3. Listener \notin Registered(m0)
  BY DEF EmptyMultiplexer, Registered
<1> HIDE DEF m0
<1>4. Sound(m1) /\ Listener \notin Registered(m1)
  BY <1>2, <1>3, NotListener, RegisterSound, Lasting
<1> HIDE DEF m1
<1>5. Sound(m2) /\ Listener \notin Registered(m2)
  BY <1>4, NotListener, RegisterSound
<1> HIDE DEF m2
<1>6. Sound(m3)
  BY <1>5, NotListener, RegisterSound
<1>7. Listener \in Registered(m3) /\ Wants(m3, Listener)
  <2> DEFINE e == [handler |-> Listener, events |-> TRUE]
             k == Len(m2.polling) + 1
  <2>1. m2.polling \in Seq(Entries) /\ e \in Entries
    BY <1>5, NotListener DEF Sound, Muxes, Entries
  <2>2. FindHandler(m2, Listener) = {}
    BY <1>5 DEF FindHandler, Registered
  <2>3. m3.polling = Append(m2.polling, e)
    BY <1>5, <2>2 DEF RegisterFd, Sound, Muxes
  <2> HIDE DEF e, m3
  <2>4. k \in DOMAIN m3.polling /\ m3.polling[k] = e
    BY <2>1, <2>3, AppendProperties
  <2>5. e = [handler |-> Listener, events |-> TRUE] /\ e.handler = Listener
    BY DEF e
  <2> QED
    BY <2>4, <2>5 DEF Wants, Registered
<1> HIDE DEF m3
<1>8. mux.polling = m3.polling
  BY <1>1, <1>6 DEF PreparePollingArray, Sound, Muxes
<1>9. Listener \in Registered(mux) /\ Wants(mux, Listener)
  BY <1>7, <1>8 DEF Registered, Wants
<1>10. Conns \cap opened = {}
  BY <1>1, LoopAssumption
<1>11. Cardinality(Conns \cap opened) = 0 /\ MaxClients \in Nat \ {0}
  BY <1>10, FS_EmptySet, LoopAssumption
<1> QED
  BY <1>9, <1>11 DEF Served

\* The server socket is polled exactly while a client more can be served, for
\* any number of clients, though it is switched by clients that come and go in
\* one round.
THEOREM ListenerPolledHolds == Spec => []ListenerPolled
<1>1. Init => LInv
  <2>1. Init => IInv
    BY GoodAtFirst DEF Init, IInv
  <2> QED
    BY <2>1, ServedAtFirst DEF LInv, Init
<1>2. LInv /\ [Next]_vars => LInv'
  <2> SUFFICES ASSUME LInv, [Next]_vars
               PROVE  LInv'
    OBVIOUS
  <2>1. CASE Next
    <3>1. IInv'
      BY <2>1, StepGood, StepArray DEF IInv, LInv
    <3> QED
      BY <2>1, <3>1, StepServed, StepClient DEF LInv
  <2>2. CASE UNCHANGED vars
    BY <2>2 DEF vars, LInv, IInv
  <2> QED
    BY <2>1, <2>2
<1>3. LInv => ListenerPolled
  BY DEF LInv, Served, ListenerPolled, Clients
<1> QED
  BY <1>1, <1>2, <1>3, PTL DEF Spec

------------------------------------------------------------------------------
(* The timers.                                                             *)

Callbacks == {"reopen_log_dev", "connect_server", "read_timeout"}
Timers == [id : TimerIds, due : Nat, cb : Callbacks, param : Handlers]

\* The timers of list l.
TimersOf(l) == {l[i] : i \in DOMAIN l}

Sorted(l) == \A i, j \in DOMAIN l : i < j => l[i].due <= l[j].due

\* An address is that of one timer.
IdsOnce(l) == \A i, j \in DOMAIN l : l[i].id = l[j].id => i = j

\* A timer that is put off was not due later than its new time.
InTime(l) == \A t \in TimersOf(l) : t.cb = "read_timeout" => t.due <= IdleTime

SoundTimers(l) == l \in Seq(Timers) /\ Sorted(l) /\ IdsOnce(l) /\ InTime(l)

LEMMA TimerFields ==
  ASSUME NEW t \in Timers
  PROVE  t.id \in TimerIds /\ t.due \in Nat /\ t.cb \in Callbacks /\ t.param \in Handlers
BY DEF Timers

LEMMA InsertAtElements ==
  ASSUME NEW S, NEW s \in Seq(S), NEW e \in S, NEW i \in 1 .. Len(s) + 1
  PROVE  /\ InsertAt(s, i, e) \in Seq(S)
         /\ Len(InsertAt(s, i, e)) = Len(s) + 1
         /\ \A k \in 1 .. Len(s) + 1 :
              InsertAt(s, i, e)[k] = IF k < i THEN s[k] ELSE IF k = i THEN e ELSE s[k - 1]
<1> DEFINE a == SubSeq(s, 1, i - 1)
           b == SubSeq(s, i, Len(s))
           ae == Append(a, e)
<1>1. i \in Nat /\ 1 <= i /\ i <= Len(s) + 1 /\ Len(s) \in Nat
  OBVIOUS
<1>2. a \in Seq(S) /\ Len(a) = i - 1 /\ \A k \in 1 .. i - 1 : a[k] = s[k]
  BY <1>1
<1>3. b \in Seq(S) /\ Len(b) = Len(s) - i + 1 /\ \A k \in 1 .. Len(s) - i + 1 : b[k] = s[i + k - 1]
  BY <1>1
<1>4. InsertAt(s, i, e) = (a \o <<e>>) \o b
  BY DEF InsertAt
<1> HIDE DEF a, b
<1>5. a \o <<e>> = ae
  BY <1>2
<1>6. ae \in Seq(S) /\ Len(ae) = i /\ ae[i] = e /\ \A k \in 1 .. i - 1 : ae[k] = s[k]
  BY <1>1, <1>2
<1> HIDE DEF ae
<1>7. /\ ae \o b \in Seq(S)
      /\ Len(ae \o b) = Len(s) + 1
      /\ \A k \in 1 .. Len(s) + 1 : (ae \o b)[k] = IF k <= i THEN ae[k] ELSE b[k - i]
  <2>1. /\ ae \o b \in Seq(S) /\ Len(ae \o b) = Len(ae) + Len(b)
        /\ \A k \in 1 .. Len(ae) + Len(b) : (ae \o b)[k] = IF k <= Len(ae) THEN ae[k] ELSE b[k - Len(ae)]
    BY <1>3, <1>6, ConcatProperties
  <2>2. Len(ae) + Len(b) = Len(s) + 1
    BY <1>1, <1>3, <1>6
  <2> QED
    BY <1>6, <2>1, <2>2
<1>8. ASSUME NEW k \in 1 .. Len(s) + 1
      PROVE  (ae \o b)[k] = IF k < i THEN s[k] ELSE IF k = i THEN e ELSE s[k - 1]
  <2>1. CASE k <= i
    BY <1>1, <1>6, <1>7, <2>1
  <2>2. CASE ~(k <= i)
    <3>1. (ae \o b)[k] = b[k - i] /\ k - i \in 1 .. Len(s) - i + 1
      BY <1>1, <1>7, <2>2
    <3>2. i + (k - i) - 1 = k - 1
      BY <1>1
    <3>3. b[k - i] = s[i + (k - i) - 1]
      BY <1>3, <3>1
    <3>4. ~(k < i) /\ k # i
      BY <1>1, <2>2
    <3> QED
      BY <3>1, <3>2, <3>3, <3>4
  <2> QED
    BY <2>1, <2>2
<1> QED
  BY <1>4, <1>5, <1>7, <1>8

\* The search finds a place, wherever it begins.
LEMMA PlaceFound ==
  ASSUME NEW l \in Seq(Timers), NEW t \in Timers, NEW from \in 1 .. Len(l) + 1
  PROVE  /\ PlaceFrom(l, t, from) \in from .. Len(l) + 1
         /\ PlaceFrom(l, t, from) <= Len(l) => t.due < l[PlaceFrom(l, t, from)].due
         /\ \A j \in from .. PlaceFrom(l, t, from) - 1 : t.due >= l[j].due
<1> DEFINE later == {k \in from .. Len(l) + 1 : k <= Len(l) => t.due < l[k].due}
           n == Len(l)
<1>1. n \in Nat /\ n + 1 \in later /\ later \in SUBSET Nat
  OBVIOUS
<1>2. PICK k \in later : \A j \in later : k <= j
  <2> HIDE DEF later, n
  <2> QED
    BY <1>1, LeastOf
<1>3. k \in from .. n + 1 /\ (k <= n => t.due < l[k].due)
  BY <1>2
<1>4. ASSUME NEW j \in from .. k - 1
      PROVE  t.due >= l[j].due
  <2>1. j \in from .. n + 1 /\ j < k /\ j \in 1 .. n
    BY <1>1, <1>3
  <2>2. j \notin later
    BY <1>2, <1>3, <2>1
  <2>3. ~(t.due < l[j].due)
    BY <2>1, <2>2
  <2>4. t.due \in Nat /\ l[j].due \in Nat
    <3>1. l[j] \in Timers
      BY <2>1
    <3> QED
      BY <3>1, TimerFields
  <2> QED
    BY <2>3, <2>4
<1> QED
  BY <1>3, <1>4 DEF PlaceFrom

LEMMA InsertedTimers ==
  ASSUME NEW l \in Seq(Timers), NEW t \in Timers, NEW k \in 1 .. Len(l) + 1
  PROVE  /\ InsertAt(l, k, t) \in Seq(Timers)
         /\ TimersOf(InsertAt(l, k, t)) = TimersOf(l) \cup {t}
<1> DEFINE r == InsertAt(l, k, t)
           n == Len(l)
<1>1. /\ r \in Seq(Timers) /\ DOMAIN r = 1 .. n + 1 /\ n \in Nat /\ DOMAIN l = 1 .. n
      /\ \A i \in 1 .. n + 1 : r[i] = IF i < k THEN l[i] ELSE IF i = k THEN t ELSE l[i - 1]
  <2>1. /\ r \in Seq(Timers) /\ Len(r) = n + 1
        /\ \A i \in 1 .. n + 1 : r[i] = IF i < k THEN l[i] ELSE IF i = k THEN t ELSE l[i - 1]
    BY InsertAtElements
  <2> HIDE DEF r
  <2>2. DOMAIN r = 1 .. n + 1 /\ n \in Nat /\ DOMAIN l = 1 .. n
    BY <2>1
  <2> QED
    BY <2>1, <2>2
<1> HIDE DEF r
<1>2. ASSUME NEW x \in TimersOf(r)
      PROVE  x \in TimersOf(l) \cup {t}
  <2>1. PICK i \in 1 .. n + 1 : x = r[i]
    BY <1>1 DEF TimersOf
  <2>2. CASE i < k
    BY <1>1, <2>1, <2>2 DEF TimersOf
  <2>3. CASE i = k
    BY <1>1, <2>1, <2>3
  <2>4. CASE i > k
    <3>1. x = l[i - 1] /\ i - 1 \in 1 .. n
      BY <1>1, <2>1, <2>4
    <3> QED
      BY <1>1, <3>1 DEF TimersOf
  <2> QED
    BY <2>1, <2>2, <2>3, <2>4
<1>3. ASSUME NEW x \in TimersOf(l) \cup {t}
      PROVE  x \in TimersOf(r)
  <2>1. CASE x = t
    BY <1>1, <2>1 DEF TimersOf
  <2>2. CASE x \in TimersOf(l)
    <3>1. PICK i \in 1 .. n : x = l[i]
      BY <1>1, <2>2 DEF TimersOf
    <3>2. CASE i < k
      <4>1. x = r[i] /\ i \in 1 .. n + 1
        BY <1>1, <3>1, <3>2
      <4> QED
        BY <1>1, <4>1 DEF TimersOf
    <3>3. CASE ~(i < k)
      <4>1. x = r[i + 1] /\ i + 1 \in 1 .. n + 1
        BY <1>1, <3>1, <3>3
      <4> QED
        BY <1>1, <4>1 DEF TimersOf
    <3> QED
      BY <3>2, <3>3
  <2> QED
    BY <2>1, <2>2
<1> QED
  BY <1>1, <1>2, <1>3 DEF r

\* A list stays sorted when a timer is put before the first that is due later,
\* none before it being due later either.
LEMMA InsertedSorted ==
  ASSUME NEW l \in Seq(Timers), NEW t \in Timers, NEW k \in 1 .. Len(l) + 1, Sorted(l),
         k <= Len(l) => t.due < l[k].due,
         \A j \in 1 .. k - 1 : t.due >= l[j].due
  PROVE  Sorted(InsertAt(l, k, t))
<1> DEFINE r == InsertAt(l, k, t)
           n == Len(l)
<1>1. /\ r \in Seq(Timers) /\ DOMAIN r = 1 .. n + 1 /\ n \in Nat /\ DOMAIN l = 1 .. n
      /\ \A i \in 1 .. n + 1 : r[i] = IF i < k THEN l[i] ELSE IF i = k THEN t ELSE l[i - 1]
  BY InsertAtElements
<1> HIDE DEF r
<1>2. \A i \in 1 .. n : l[i].due \in Nat /\ t.due \in Nat
  BY <1>1, TimerFields
<1>3. \A i, j \in 1 .. n : i < j => l[i].due <= l[j].due
  BY <1>1 DEF Sorted
<1>4. ASSUME NEW i \in 1 .. n + 1, NEW j \in 1 .. n + 1, i < j
      PROVE  r[i].due <= r[j].due
  <2>1. CASE j < k
    BY <1>1, <1>3, <1>4, <2>1
  <2>2. CASE j = k
    <3>1. r[i] = l[i] /\ r[j] = t /\ i \in 1 .. k - 1 /\ i \in 1 .. n
      BY <1>1, <1>4, <2>2
    <3> QED
      BY <1>2, <3>1
  <2>3. CASE j > k /\ i < k
    <3>1. r[i] = l[i] /\ r[j] = l[j - 1] /\ i < j - 1 /\ i \in 1 .. n /\ j - 1 \in 1 .. n
      BY <1>1, <1>4, <2>3
    <3> QED
      BY <1>3, <3>1
  <2>4. CASE j > k /\ i = k
    <3>1. r[i] = t /\ r[j] = l[j - 1] /\ k \in 1 .. n /\ j - 1 \in 1 .. n /\ k <= j - 1
      BY <1>1, <1>4, <2>4
    <3>2. l[k].due <= l[j - 1].due
      BY <1>2, <1>3, <3>1
    <3> QED
      BY <1>2, <3>1, <3>2
  <2>5. CASE j > k /\ i > k
    <3>1. r[i] = l[i - 1] /\ r[j] = l[j - 1] /\ i - 1 < j - 1 /\ i - 1 \in 1 .. n /\ j - 1 \in 1 .. n
      BY <1>1, <1>4, <2>5
    <3> QED
      BY <1>3, <3>1
  <2> QED
    BY <2>1, <2>2, <2>3, <2>4, <2>5
<1> QED
  BY <1>1, <1>4 DEF Sorted, r

LEMMA InsertedOnce ==
  ASSUME NEW l \in Seq(Timers), NEW t \in Timers, NEW k \in 1 .. Len(l) + 1, IdsOnce(l),
         \A x \in TimersOf(l) : x.id # t.id
  PROVE  IdsOnce(InsertAt(l, k, t))
<1> DEFINE r == InsertAt(l, k, t)
           n == Len(l)
<1>1. /\ r \in Seq(Timers) /\ DOMAIN r = 1 .. n + 1 /\ n \in Nat /\ DOMAIN l = 1 .. n
      /\ \A i \in 1 .. n + 1 : r[i] = IF i < k THEN l[i] ELSE IF i = k THEN t ELSE l[i - 1]
  BY InsertAtElements
<1> HIDE DEF r
<1>2. \A i \in 1 .. n : l[i].id # t.id
  BY <1>1 DEF TimersOf
<1>3. \A i, j \in 1 .. n : l[i].id = l[j].id => i = j
  BY <1>1 DEF IdsOnce
<1> DEFINE old(i) == IF i < k THEN i ELSE i - 1
<1>4. \A i \in 1 .. n + 1 : i # k => old(i) \in 1 .. n /\ r[i] = l[old(i)]
  BY <1>1
<1>5. \A i, j \in 1 .. n + 1 : i # k /\ j # k /\ old(i) = old(j) => i = j
  BY <1>1
<1>6. r[k] = t
  BY <1>1
<1> HIDE DEF old
<1>7. ASSUME NEW i \in 1 .. n + 1, NEW j \in 1 .. n + 1, r[i].id = r[j].id
      PROVE  i = j
  <2>1. CASE i # k /\ j # k
    BY <1>3, <1>4, <1>5, <1>7, <2>1
  <2>2. CASE i = k /\ j # k
    BY <1>2, <1>4, <1>6, <1>7, <2>2
  <2>3. CASE i # k /\ j = k
    BY <1>2, <1>4, <1>6, <1>7, <2>3
  <2> QED
    BY <2>1, <2>2, <2>3
<1> QED
  BY <1>1, <1>7 DEF IdsOnce, r

\* A timer is created: it is one more, and the list stays sound.
LEMMA CreateSound ==
  ASSUME NEW l, SoundTimers(l), NEW busy, NEW id \in FreeIds(l, busy), NEW interval \in Nat,
         NEW cb \in Callbacks, NEW h \in Handlers, cb = "read_timeout" => interval <= IdleTime
  PROVE  /\ SoundTimers(CreateTimer(l, id, interval, cb, h))
         /\ TimersOf(CreateTimer(l, id, interval, cb, h)) =
              TimersOf(l) \cup {TimerOf(id, interval, cb, h)}
<1> DEFINE t == TimerOf(id, interval, cb, h)
           k == PlaceFrom(l, t, 1)
           r == InsertAt(l, k, t)
<1>1. l \in Seq(Timers) /\ Sorted(l) /\ IdsOnce(l) /\ InTime(l)
  BY DEF SoundTimers
<1>2. t \in Timers /\ t.id = id /\ t.cb = cb /\ t.due = interval
  BY DEF TimerOf, Timers, FreeIds
<1>3. \A x \in TimersOf(l) : x.id # t.id
  BY <1>2 DEF TimersOf, FreeIds
<1>4. CreateTimer(l, id, interval, cb, h) = r
  BY DEF CreateTimer, InsertTimer
<1>9. Len(l) \in Nat /\ 1 \in 1 .. Len(l) + 1
  BY <1>1
<1> HIDE DEF t
<1>5. /\ k \in 1 .. Len(l) + 1
      /\ k <= Len(l) => t.due < l[k].due
      /\ \A j \in 1 .. k - 1 : t.due >= l[j].due
  BY <1>1, <1>2, <1>9, PlaceFound
<1> HIDE DEF k
<1>6. r \in Seq(Timers) /\ TimersOf(r) = TimersOf(l) \cup {t}
  BY <1>1, <1>2, <1>5, InsertedTimers
<1>7. Sorted(r)
  BY <1>1, <1>2, <1>5, InsertedSorted
<1>8. IdsOnce(r)
  BY <1>1, <1>2, <1>3, <1>5, InsertedOnce
<1>10. InTime(r)
  BY <1>1, <1>2, <1>6 DEF InTime
<1> HIDE DEF r
<1> QED
  BY <1>4, <1>6, <1>7, <1>8, <1>10 DEF SoundTimers, t

\* One is removed: the others stay, in their order.
LEMMA RemovedTimers ==
  ASSUME NEW l \in Seq(Timers), NEW i \in DOMAIN l, IdsOnce(l), Sorted(l)
  PROVE  /\ RemoveAt(l, i) \in Seq(Timers) /\ IdsOnce(RemoveAt(l, i)) /\ Sorted(RemoveAt(l, i))
         /\ TimersOf(RemoveAt(l, i)) = {t \in TimersOf(l) : t.id # l[i].id}
<1> DEFINE r == RemoveAt(l, i)
           n == Len(l)
           old(k) == IF k < i THEN k ELSE k + 1
<1>1. /\ r \in Seq(Timers) /\ DOMAIN r = 1 .. n - 1 /\ n \in Nat /\ DOMAIN l = 1 .. n
      /\ \A k \in 1 .. n - 1 : r[k] = IF k < i THEN l[k] ELSE l[k + 1]
  BY RemoveAtElements
<1> HIDE DEF r
<1>2. \A k \in 1 .. n - 1 : old(k) \in 1 .. n /\ old(k) # i /\ r[k] = l[old(k)]
  BY <1>1
<1>3. \A j, k \in 1 .. n - 1 : /\ old(j) = old(k) => j = k
                               /\ j < k => old(j) < old(k)
  BY <1>1
<1>4. \A j \in 1 .. n : j # i => \E k \in 1 .. n - 1 : old(k) = j
  <2> SUFFICES ASSUME NEW j \in 1 .. n, j # i
               PROVE  \E k \in 1 .. n - 1 : old(k) = j
    OBVIOUS
  <2>1. CASE j < i
    <3>1. j \in 1 .. n - 1 /\ old(j) = j
      BY <1>1, <2>1
    <3> QED
      BY <3>1
  <2>2. CASE j > i
    <3>1. j - 1 \in 1 .. n - 1 /\ old(j - 1) = j
      BY <1>1, <2>2
    <3> QED
      BY <3>1
  <2> QED
    BY <1>1, <2>1, <2>2
<1> HIDE DEF old
<1>5. \A j, k \in 1 .. n : l[j].id = l[k].id => j = k
  BY <1>1 DEF IdsOnce
<1>6. IdsOnce(r)
  BY <1>1, <1>2, <1>3, <1>5 DEF IdsOnce
<1>7. Sorted(r)
  <2>1. \A j, k \in 1 .. n : j < k => l[j].due <= l[k].due
    BY <1>1 DEF Sorted
  <2>2. \A j, k \in 1 .. n - 1 : j < k => r[j].due <= r[k].due
    BY <1>2, <1>3, <2>1
  <2> QED
    BY <1>1, <2>2 DEF Sorted
<1>8. TimersOf(r) = {l[k] : k \in 1 .. n \ {i}}
  <2>1. ASSUME NEW x \in TimersOf(r)
        PROVE  x \in {l[k] : k \in 1 .. n \ {i}}
    <3>1. PICK k \in 1 .. n - 1 : x = r[k]
      BY <1>1 DEF TimersOf
    <3> QED
      BY <1>2, <3>1
  <2>2. ASSUME NEW j \in 1 .. n \ {i}
        PROVE  l[j] \in TimersOf(r)
    <3>1. PICK k \in 1 .. n - 1 : old(k) = j
      BY <1>4
    <3>2. l[j] = r[k]
      BY <1>2, <3>1
    <3> QED
      BY <1>1, <3>2 DEF TimersOf
  <2> QED
    BY <2>1, <2>2
<1>9. {l[k] : k \in 1 .. n \ {i}} = {t \in TimersOf(l) : t.id # l[i].id}
  BY <1>1, <1>5 DEF TimersOf
<1> QED
  BY <1>1, <1>6, <1>7, <1>8, <1>9 DEF r

\* The timer of an address is at its place.
LEMMA FoundTimer ==
  ASSUME NEW l \in Seq(Timers), IdsOnce(l), NEW id, FindTimer(l, id) # {}
  PROVE  /\ (CHOOSE i \in FindTimer(l, id) : TRUE) \in DOMAIN l
         /\ l[CHOOSE i \in FindTimer(l, id) : TRUE].id = id
BY DEF FindTimer

LEMMA DelTimerSound ==
  ASSUME NEW l, SoundTimers(l), NEW id
  PROVE  /\ SoundTimers(DelTimer(l, id))
         /\ TimersOf(DelTimer(l, id)) = {t \in TimersOf(l) : t.id # id}
<1> DEFINE i == CHOOSE j \in FindTimer(l, id) : TRUE
           r == RemoveAt(l, i)
<1>1. l \in Seq(Timers) /\ Sorted(l) /\ IdsOnce(l) /\ InTime(l)
  BY DEF SoundTimers
<1>2. CASE FindTimer(l, id) = {}
  <2>1. \A t \in TimersOf(l) : t.id # id
    BY <1>2 DEF FindTimer, TimersOf
  <2> QED
    BY <1>2, <2>1 DEF DelTimer
<1>3. CASE FindTimer(l, id) # {}
  <2>1. DelTimer(l, id) = r
    BY <1>3 DEF DelTimer
  <2>2. i \in DOMAIN l /\ l[i].id = id
    BY <1>1, <1>3, FoundTimer
  <2> HIDE DEF i
  <2>3. /\ r \in Seq(Timers) /\ IdsOnce(r) /\ Sorted(r)
        /\ TimersOf(r) = {t \in TimersOf(l) : t.id # id}
    BY <1>1, <2>2, RemovedTimers
  <2>4. InTime(r)
    BY <1>1, <2>3 DEF InTime
  <2> QED
    BY <2>1, <2>3, <2>4 DEF SoundTimers
<1> QED
  BY <1>2, <1>3

\* A timer is put off.  The place is looked for behind the old one, which is
\* enough since it was due no later than it is now.
LEMMA PutOffSound ==
  ASSUME NEW l, SoundTimers(l), NEW id, NEW interval \in Nat, interval <= IdleTime,
         \A t \in TimersOf(l) : t.id = id => t.due <= interval
  PROVE  /\ SoundTimers(SetNewDueTime(l, id, interval))
         /\ TimersOf(SetNewDueTime(l, id, interval)) =
              {t \in TimersOf(l) : t.id # id}
                \cup {[t EXCEPT !.due = interval] : t \in {x \in TimersOf(l) : x.id = id}}
<1> DEFINE i == CHOOSE j \in FindTimer(l, id) : TRUE
           t == [l[i] EXCEPT !.due = interval]
           rest == RemoveAt(l, i)
           k == PlaceFrom(rest, t, i)
           r == InsertAt(rest, k, t)
           set == {[x EXCEPT !.due = interval] : x \in {x \in TimersOf(l) : x.id = id}}
<1>1. l \in Seq(Timers) /\ Sorted(l) /\ IdsOnce(l) /\ InTime(l)
  BY DEF SoundTimers
<1>2. CASE FindTimer(l, id) = {}
  <2>1. \A x \in TimersOf(l) : x.id # id
    BY <1>2 DEF FindTimer, TimersOf
  <2>2. set = {} /\ {x \in TimersOf(l) : x.id # id} = TimersOf(l)
    BY <2>1
  <2>3. SetNewDueTime(l, id, interval) = l
    BY <1>2 DEF SetNewDueTime
  <2> QED
    BY <2>2, <2>3
<1>3. CASE FindTimer(l, id) # {}
  <2>1. SetNewDueTime(l, id, interval) = r
    BY <1>3 DEF SetNewDueTime
  <2>2. i \in DOMAIN l /\ l[i].id = id
    BY <1>1, <1>3, FoundTimer
  <2> HIDE DEF i
  <2>3. l[i] \in Timers /\ l[i] \in TimersOf(l)
    BY <1>1, <2>2 DEF TimersOf
  <2>4. t \in Timers /\ t.id = id /\ t.due = interval /\ t.cb = l[i].cb
    BY <2>2, <2>3 DEF Timers
  <2>5. set = {t}
    <3>1. ASSUME NEW x \in TimersOf(l), x.id = id
          PROVE  x = l[i]
      BY <1>1, <2>2, <3>1 DEF TimersOf, IdsOnce
    <3> HIDE DEF t
    <3>2. t = [l[i] EXCEPT !.due = interval]
      BY DEF t
    <3> QED
      BY <2>2, <2>3, <3>1, <3>2
  <2> HIDE DEF t, set
  <2>6. /\ rest \in Seq(Timers) /\ IdsOnce(rest) /\ Sorted(rest)
        /\ TimersOf(rest) = {x \in TimersOf(l) : x.id # id}
    BY <1>1, <2>2, RemovedTimers
  <2>7. /\ Len(rest) = Len(l) - 1 /\ Len(l) \in Nat /\ DOMAIN l = 1 .. Len(l)
        /\ \A j \in 1 .. Len(l) - 1 : rest[j] = IF j < i THEN l[j] ELSE l[j + 1]
    BY <1>1, <2>2, RemoveAtElements
  <2>8. i \in 1 .. Len(rest) + 1 /\ i <= Len(l)
    BY <2>2, <2>7
  <2> HIDE DEF rest
  <2>9. /\ k \in i .. Len(rest) + 1
        /\ k <= Len(rest) => t.due < rest[k].due
        /\ \A j \in i .. k - 1 : t.due >= rest[j].due
    BY <2>4, <2>6, <2>8, PlaceFound
  <2> HIDE DEF k
  <2>10. k \in 1 .. Len(rest) + 1
    BY <2>8, <2>9
  <2>11. ASSUME NEW j \in 1 .. k - 1
         PROVE  t.due >= rest[j].due
    <3>1. CASE j >= i
      BY <2>8, <2>9, <2>10, <3>1
    <3>2. CASE ~(j >= i)
      <4>1. rest[j] = l[j] /\ j \in DOMAIN l /\ j < i
        BY <2>7, <2>8, <2>10, <3>2
      <4>2. l[j].due <= l[i].due
        BY <1>1, <2>2, <4>1 DEF Sorted
      <4>3. l[i].due <= interval
        BY <2>2, <2>3
      <4>4. l[j].due \in Nat /\ l[i].due \in Nat
        <5>1. l[j] \in Timers
          BY <1>1, <4>1
        <5> QED
          BY <2>3, <5>1, TimerFields
      <4> QED
        BY <2>4, <4>1, <4>2, <4>3, <4>4
    <3> QED
      BY <3>1, <3>2
  <2>12. r \in Seq(Timers) /\ TimersOf(r) = TimersOf(rest) \cup {t}
    BY <2>4, <2>6, <2>10, InsertedTimers
  <2>13. Sorted(r)
    BY <2>4, <2>6, <2>9, <2>10, <2>11, InsertedSorted
  <2>14. IdsOnce(r)
    BY <2>4, <2>6, <2>10, InsertedOnce
  <2> HIDE DEF r
  <2>15. InTime(r)
    BY <1>1, <2>4, <2>6, <2>12 DEF InTime
  <2>16. TimersOf(r) = {x \in TimersOf(l) : x.id # id} \cup set
    BY <2>5, <2>6, <2>12
  <2> QED
    BY <2>1, <2>12, <2>13, <2>14, <2>15, <2>16 DEF SoundTimers, set
<1> QED
  BY <1>2, <1>3

\* The first timer is taken off when it is due.
LEMMA TailSound ==
  ASSUME NEW l, SoundTimers(l), l # <<>>
  PROVE  /\ SoundTimers(Tail(l)) /\ Head(l) \in TimersOf(l) /\ Head(l) \in Timers
         /\ TimersOf(Tail(l)) = {t \in TimersOf(l) : t.id # Head(l).id}
<1>1. l \in Seq(Timers) /\ Sorted(l) /\ IdsOnce(l) /\ InTime(l)
  BY DEF SoundTimers
<1>2. Len(l) \in Nat /\ 1 \in DOMAIN l /\ Head(l) = l[1] /\ DOMAIN l = 1 .. Len(l)
  BY <1>1
<1>3. /\ RemoveAt(l, 1) \in Seq(Timers) /\ IdsOnce(RemoveAt(l, 1)) /\ Sorted(RemoveAt(l, 1))
      /\ TimersOf(RemoveAt(l, 1)) = {t \in TimersOf(l) : t.id # l[1].id}
  BY <1>1, <1>2, RemovedTimers
<1>4. RemoveAt(l, 1) = Tail(l)
  <2>1. /\ RemoveAt(l, 1) \in Seq(Timers)
        /\ Len(RemoveAt(l, 1)) = Len(l) - 1
        /\ \A k \in 1 .. Len(l) - 1 : RemoveAt(l, 1)[k] = IF k < 1 THEN l[k] ELSE l[k + 1]
    BY <1>1, <1>2, RemoveAtElements
  <2>2. /\ Tail(l) \in Seq(Timers) /\ Len(Tail(l)) = Len(l) - 1
        /\ \A k \in 1 .. Len(l) - 1 : Tail(l)[k] = l[k + 1]
    BY <1>1, <1>2
  <2>3. \A k \in 1 .. Len(l) - 1 : RemoveAt(l, 1)[k] = Tail(l)[k]
    BY <1>2, <2>1, <2>2
  <2> QED
    BY <2>1, <2>2, <2>3, SeqEqual
<1>5. InTime(Tail(l))
  BY <1>1, <1>3, <1>4 DEF InTime
<1>6. Head(l) \in TimersOf(l) /\ Head(l) \in Timers
  BY <1>1, <1>2 DEF TimersOf
<1> QED
  BY <1>2, <1>3, <1>4, <1>5, <1>6 DEF SoundTimers

\* Time passes.
LEMMA ElapseSound ==
  ASSUME NEW l, SoundTimers(l), NEW d \in Nat
  PROVE  /\ SoundTimers(Elapse(l, d))
         /\ \A t \in TimersOf(Elapse(l, d)) :
              \E x \in TimersOf(l) : t.id = x.id /\ t.cb = x.cb /\ t.param = x.param
         /\ \A x \in TimersOf(l) :
              \E t \in TimersOf(Elapse(l, d)) :
                t \in Timers /\ t.id = x.id /\ t.cb = x.cb /\ t.param = x.param
<1> DEFINE r == Elapse(l, d)
           n == Len(l)
<1>1. l \in Seq(Timers) /\ Sorted(l) /\ IdsOnce(l) /\ InTime(l)
  BY DEF SoundTimers
<1>2. n \in Nat /\ DOMAIN l = 1 .. n /\ \A i \in 1 .. n : l[i] \in Timers
  BY <1>1
<1>3. \A i \in 1 .. n : [l[i] EXCEPT !.due = IF @ > d THEN @ - d ELSE 0] \in Timers
  BY <1>2 DEF Timers
<1>4. r \in Seq(Timers) /\ DOMAIN r = 1 .. n
  BY <1>2, <1>3 DEF Elapse
<1>5. \A i \in 1 .. n :
        /\ r[i].id = l[i].id /\ r[i].cb = l[i].cb /\ r[i].param = l[i].param
        /\ r[i].due = (IF l[i].due > d THEN l[i].due - d ELSE 0)
        /\ l[i].due \in Nat /\ r[i] \in Timers
  BY <1>2, <1>3, <1>4 DEF Elapse, Timers
<1> HIDE DEF r
<1>6. Sorted(r)
  <2> SUFFICES ASSUME NEW i \in 1 .. n, NEW j \in 1 .. n, i < j
               PROVE  r[i].due <= r[j].due
    BY <1>4 DEF Sorted
  <2>1. l[i].due <= l[j].due
    BY <1>1, <1>2 DEF Sorted
  <2>2. \A x, y, z \in Nat : x <= y => (IF x > z THEN x - z ELSE 0) <= (IF y > z THEN y - z ELSE 0)
    OBVIOUS
  <2> QED
    BY <1>5, <2>1, <2>2
<1>7. IdsOnce(r)
  BY <1>1, <1>2, <1>4, <1>5 DEF IdsOnce
<1>8. InTime(r)
  <2> SUFFICES ASSUME NEW i \in 1 .. n, r[i].cb = "read_timeout"
               PROVE  r[i].due <= IdleTime
    BY <1>4 DEF InTime, TimersOf
  <2>1. l[i].due <= IdleTime
    BY <1>1, <1>2, <1>5 DEF InTime, TimersOf
  <2>2. \A x, y, z \in Nat : x <= z => (IF x > y THEN x - y ELSE 0) <= z
    OBVIOUS
  <2>3. IdleTime \in Nat
    BY DEF IdleTime
  <2> QED
    BY <1>5, <2>1, <2>2, <2>3
<1>9. SoundTimers(r)
  BY <1>4, <1>6, <1>7, <1>8 DEF SoundTimers
<1>10. ASSUME NEW t \in TimersOf(r)
       PROVE  \E x \in TimersOf(l) : t.id = x.id /\ t.cb = x.cb /\ t.param = x.param
  <2>1. PICK i \in 1 .. n : t = r[i]
    BY <1>4 DEF TimersOf
  <2>2. l[i] \in TimersOf(l)
    BY <1>2 DEF TimersOf
  <2> QED
    BY <1>5, <2>1, <2>2
<1>11. ASSUME NEW x \in TimersOf(l)
       PROVE  \E t \in TimersOf(r) : t \in Timers /\ t.id = x.id /\ t.cb = x.cb /\ t.param = x.param
  <2>1. PICK i \in 1 .. n : x = l[i]
    BY <1>2 DEF TimersOf
  <2>2. r[i] \in TimersOf(r)
    BY <1>4 DEF TimersOf
  <2> QED
    BY <1>5, <2>1, <2>2
<1> QED
  BY <1>9, <1>10, <1>11 DEF r

\* What the loop of del_timer() by callback has kept after i timers.
Kept(l, cb, i, before) ==
  IF i = 0 THEN <<>>
  ELSE IF l[i].cb = cb THEN before[i - 1] ELSE Append(before[i - 1], l[i])

\* The loop is defined, whatever the list.
LEMMA LoopDefined ==
  ASSUME NEW l, NEW cb, NEW n \in Nat
  PROVE  \E f : f = [i \in 0 .. n |-> Kept(l, cb, i, f)]
<1> DEFINE Done(m) == \E f : f = [i \in 0 .. m |-> Kept(l, cb, i, f)]
           undone == {m \in Nat : ~Done(m)}
<1>1. CASE undone = {}
  BY <1>1
<1>2. CASE undone # {}
  <2>1. undone \in SUBSET Nat
    OBVIOUS
  <2>2. PICK m \in undone : \A j \in undone : m <= j
    <3> HIDE DEF undone
    <3> QED
      BY <1>2, <2>1, LeastOf
  <2>3. m # 0
    <3> DEFINE f == [i \in 0 .. 0 |-> <<>>]
    <3>1. f = [i \in 0 .. 0 |-> Kept(l, cb, i, f)]
      BY DEF Kept
    <3>2. Done(0)
      BY <3>1
    <3> QED
      BY <2>2, <3>2
  <2>4. m \in Nat /\ m - 1 \in Nat /\ m - 1 < m
    BY <2>2, <2>3
  <2>5. Done(m - 1)
    BY <2>2, <2>4
  <2>6. PICK f : f = [i \in 0 .. m - 1 |-> Kept(l, cb, i, f)]
    BY <2>5
  <2> DEFINE g == [i \in 0 .. m |-> IF i = m THEN Kept(l, cb, m, f) ELSE f[i]]
  <2>7. \A i \in 0 .. m - 1 : g[i] = f[i] /\ f[i] = Kept(l, cb, i, f)
    <3>1. \A i \in 0 .. m - 1 : i \in 0 .. m /\ i # m
      BY <2>4
    <3> QED
      BY <2>6, <3>1
  <2>8. g[m] = Kept(l, cb, m, f)
    BY <2>4
  <2>9. DOMAIN g = 0 .. m /\ g = [i \in 0 .. m |-> g[i]]
    OBVIOUS
  <2> HIDE DEF g
  <2>10. ASSUME NEW i \in 0 .. m
         PROVE  g[i] = Kept(l, cb, i, g)
    <3>1. CASE i = 0
      <4>1. g[i] = Kept(l, cb, i, f)
        BY <2>3, <2>4, <2>7, <3>1
      <4> QED
        BY <3>1, <4>1 DEF Kept
    <3>2. CASE i # 0
      <4>1. i - 1 \in 0 .. m - 1
        BY <2>4, <3>2
      <4>2. g[i - 1] = f[i - 1]
        BY <2>7, <4>1
      <4>3. g[i] = Kept(l, cb, i, f)
        <5>1. CASE i = m
          BY <2>8, <5>1
        <5>2. CASE i # m
          <6>1. i \in 0 .. m - 1
            BY <2>4, <5>2
          <6> QED
            BY <2>7, <6>1
        <5> QED
          BY <5>1, <5>2
      <4> QED
        BY <4>2, <4>3 DEF Kept
    <3> QED
      BY <3>1, <3>2
  <2>11. g = [i \in 0 .. m |-> Kept(l, cb, i, g)]
    BY <2>9, <2>10
  <2>12. Done(m)
    BY <2>11
  <2> QED
    BY <2>2, <2>12
<1> QED
  BY <1>1, <1>2

\* k is the first n timers of l less those with callback cb, in their order;
\* e[i] is the place that the i-th of k had.
KeptFrom(k, l, n, cb, e) ==
  /\ k \in Seq(Timers)
  /\ e \in [DOMAIN k -> 1 .. n]
  /\ \A i \in DOMAIN k : k[i] = l[e[i]] /\ l[e[i]].cb # cb
  /\ \A i, j \in DOMAIN k : i < j => e[i] < e[j]
  /\ \A i \in 1 .. n : l[i].cb # cb => \E j \in DOMAIN k : e[j] = i

LEMMA KeptNext ==
  ASSUME NEW l \in Seq(Timers), NEW cb, NEW n \in 1 .. Len(l),
         NEW k, NEW e, KeptFrom(k, l, n - 1, cb, e)
  PROVE  \E d : KeptFrom(IF l[n].cb = cb THEN k ELSE Append(k, l[n]), l, n, cb, d)
<1>1. /\ k \in Seq(Timers) /\ e \in [DOMAIN k -> 1 .. n - 1] /\ DOMAIN k = 1 .. Len(k) /\ Len(k) \in Nat
      /\ \A i \in DOMAIN k : k[i] = l[e[i]] /\ l[e[i]].cb # cb
      /\ \A i, j \in DOMAIN k : i < j => e[i] < e[j]
      /\ \A i \in 1 .. n - 1 : l[i].cb # cb => \E j \in DOMAIN k : e[j] = i
  BY DEF KeptFrom
<1>2. n \in Nat /\ \A i \in 1 .. n : i = n \/ i \in 1 .. n - 1
  OBVIOUS
<1>3. CASE l[n].cb = cb
  <2>1. e \in [DOMAIN k -> 1 .. n]
    BY <1>1, <1>2
  <2>2. \A i \in 1 .. n : l[i].cb # cb => \E j \in DOMAIN k : e[j] = i
    BY <1>1, <1>2, <1>3
  <2>3. KeptFrom(k, l, n, cb, e)
    BY <1>1, <2>1, <2>2 DEF KeptFrom
  <2> QED
    BY <1>3, <2>3
<1>4. CASE l[n].cb # cb
  <2> DEFINE a == Append(k, l[n])
             m == Len(k) + 1
             d == [i \in 1 .. m |-> IF i = m THEN n ELSE e[i]]
  <2>1. /\ a \in Seq(Timers) /\ DOMAIN a = 1 .. m /\ m \in Nat /\ a[m] = l[n]
        /\ \A i \in 1 .. m : i = m \/ (i \in DOMAIN k /\ a[i] = k[i] /\ i < m)
    BY <1>1
  <2>2. /\ d[m] = n
        /\ \A i \in DOMAIN k : d[i] = e[i] /\ i \in 1 .. m /\ e[i] \in 1 .. n - 1
    BY <1>1
  <2>3. d \in [1 .. m -> 1 .. n]
    BY <1>1, <1>2, <2>1
  <2> HIDE DEF a, d, m
  <2>4. \A i \in 1 .. m : a[i] = l[d[i]] /\ l[d[i]].cb # cb
    BY <1>1, <1>4, <2>1, <2>2
  <2>5. ASSUME NEW i \in 1 .. m, NEW j \in 1 .. m, i < j
        PROVE  d[i] < d[j]
    <3>1. i # m
      BY <2>1, <2>5
    <3>2. i \in DOMAIN k
      BY <2>1, <3>1
    <3>3. CASE j = m
      BY <1>2, <2>2, <3>2, <3>3
    <3>4. CASE j # m
      BY <1>1, <2>1, <2>2, <2>5, <3>2, <3>4
    <3> QED
      BY <3>3, <3>4
  <2>6. ASSUME NEW i \in 1 .. n, l[i].cb # cb
        PROVE  \E j \in 1 .. m : d[j] = i
    <3>1. CASE i = n
      BY <2>1, <2>2, <3>1 DEF m
    <3>2. CASE i \in 1 .. n - 1
      BY <1>1, <2>2, <2>6, <3>2
    <3> QED
      BY <1>2, <3>1, <3>2
  <2>7. KeptFrom(a, l, n, cb, d)
    BY <2>1, <2>3, <2>4, <2>5, <2>6 DEF KeptFrom
  <2> QED
    BY <1>4, <2>7 DEF a
<1> QED
  BY <1>3, <1>4

\* del_timer() by callback leaves the other timers, in their order.
LEMMA KeptTimers ==
  ASSUME NEW l \in Seq(Timers), NEW cb
  PROVE  \E e : KeptFrom(DelTimersOf(l, cb), l, Len(l), cb, e)
<1> DEFINE f == CHOOSE f : f = [i \in 0 .. Len(l) |-> Kept(l, cb, i, f)]
           wrong == {i \in 0 .. Len(l) : ~ \E e : KeptFrom(f[i], l, i, cb, e)}
<1>1. Len(l) \in Nat
  OBVIOUS
<1>2. f = [i \in 0 .. Len(l) |-> Kept(l, cb, i, f)]
  BY <1>1, LoopDefined
<1>3. DelTimersOf(l, cb) = f[Len(l)]
  BY DEF DelTimersOf, Kept
<1> HIDE DEF f
<1>4. \A i \in 0 .. Len(l) : f[i] = Kept(l, cb, i, f)
  BY <1>2
<1>5. CASE wrong # {}
  <2>1. wrong \in SUBSET Nat
    OBVIOUS
  <2>2. PICK i \in wrong : \A j \in wrong : i <= j
    <3> HIDE DEF wrong
    <3> QED
      BY <1>5, <2>1, LeastOf
  <2>3. CASE i = 0
    <3> DEFINE e == [j \in 1 .. 0 |-> 1]
    <3>1. f[0] = <<>>
      BY <1>1, <1>4 DEF Kept
    <3>2. <<>> \in Seq(Timers) /\ DOMAIN <<>> = {} /\ 1 .. 0 = {}
      OBVIOUS
    <3>3. e \in [{} -> 1 .. 0]
      BY <3>2
    <3>4. KeptFrom(<<>>, l, 0, cb, e)
      BY <3>2, <3>3 DEF KeptFrom
    <3> QED
      BY <2>2, <2>3, <3>1, <3>4
  <2>4. CASE i # 0
    <3>1. i \in 1 .. Len(l) /\ i - 1 \in 0 .. Len(l) /\ i - 1 < i
      BY <1>1, <2>2, <2>4
    <3>2. i - 1 \notin wrong
      BY <2>2, <3>1
    <3>3. PICK e : KeptFrom(f[i - 1], l, i - 1, cb, e)
      BY <3>1, <3>2
    <3>4. f[i] = IF l[i].cb = cb THEN f[i - 1] ELSE Append(f[i - 1], l[i])
      BY <1>4, <2>4, <3>1 DEF Kept
    <3>5. \E d : KeptFrom(f[i], l, i, cb, d)
      BY <3>1, <3>3, <3>4, KeptNext
    <3> QED
      BY <2>2, <3>5
  <2> QED
    BY <2>3, <2>4
<1>6. CASE wrong = {}
  BY <1>1, <1>3, <1>6
<1> QED
  BY <1>5, <1>6

LEMMA DelTimersOfSound ==
  ASSUME NEW l, SoundTimers(l), NEW cb
  PROVE  /\ SoundTimers(DelTimersOf(l, cb))
         /\ TimersOf(DelTimersOf(l, cb)) = {t \in TimersOf(l) : t.cb # cb}
<1> DEFINE r == DelTimersOf(l, cb)
<1>1. l \in Seq(Timers) /\ Sorted(l) /\ IdsOnce(l) /\ InTime(l) /\ DOMAIN l = 1 .. Len(l)
  BY DEF SoundTimers
<1>2. PICK e : KeptFrom(r, l, Len(l), cb, e)
  BY <1>1, KeptTimers
<1>3. /\ r \in Seq(Timers) /\ e \in [DOMAIN r -> DOMAIN l]
      /\ \A i \in DOMAIN r : r[i] = l[e[i]] /\ l[e[i]].cb # cb
      /\ \A i, j \in DOMAIN r : i < j => e[i] < e[j]
      /\ \A i \in DOMAIN l : l[i].cb # cb => \E j \in DOMAIN r : e[j] = i
  BY <1>1, <1>2 DEF KeptFrom
<1> HIDE DEF r
<1>4. Sorted(r)
  BY <1>1, <1>3 DEF Sorted
<1>5. IdsOnce(r)
  <2> SUFFICES ASSUME NEW i \in DOMAIN r, NEW j \in DOMAIN r, r[i].id = r[j].id
               PROVE  i = j
    BY DEF IdsOnce
  <2>1. e[i] = e[j]
    BY <1>1, <1>3 DEF IdsOnce
  <2>2. i \in Nat /\ j \in Nat /\ e[i] \in Nat
    BY <1>1, <1>3
  <2>3. ~(i < j) /\ ~(j < i)
    BY <1>3, <2>1, <2>2
  <2> QED
    BY <2>2, <2>3
<1>6. TimersOf(r) = {t \in TimersOf(l) : t.cb # cb}
  BY <1>3 DEF TimersOf
<1>7. InTime(r)
  BY <1>1, <1>6 DEF InTime
<1> QED
  BY <1>3, <1>4, <1>5, <1>6, <1>7 DEF SoundTimers, r

\* The timers E, the timer r of the transaction, o the handlers that exist.
Owned(E, r, o) ==
  /\ r # NoTimer => \E t \in E : t.id = r /\ t.cb = "read_timeout" /\ t.param = Diag
  /\ \A t \in E : t.cb = "read_timeout" => t.id = r /\ Diag \in o

\* The inductive invariant of the timers.
TInv ==
  /\ SoundTimers(m_timers)
  /\ Owned(TimersOf(m_timers), read_timer, opened)
  /\ read_timer \in TimerIds \cup {NoTimer}
  /\ logging \subseteq Pipes

LEMMA OpenTimers ==
  ASSUME NEW l, SoundTimers(l), NEW h \in Handlers \ {Diag}, NEW m, NEW busy, NEW interval \in Nat,
         NEW cb \in Callbacks \ {"read_timeout"}, Owned(TimersOf(l), read_timer, opened),
         OpenOrRetry(h, m, l, busy, interval, cb)
  PROVE  SoundTimers(m_timers') /\ Owned(TimersOf(m_timers'), read_timer, opened')
<1>1. CASE opened' = opened \cup {h} /\ m_timers' = l
  BY <1>1 DEF Owned
<1>2. CASE \E id \in FreeIds(l, busy) :
             m_timers' = CreateTimer(l, id, interval, cb, h) /\ opened' = opened \ {h}
  <2>1. PICK id \in FreeIds(l, busy) :
               m_timers' = CreateTimer(l, id, interval, cb, h) /\ opened' = opened \ {h}
    BY <1>2
  <2> DEFINE t == TimerOf(id, interval, cb, h)
  <2>2. /\ SoundTimers(m_timers')
        /\ TimersOf(m_timers') = TimersOf(l) \cup {t}
    BY <2>1, CreateSound
  <2>3. t.cb # "read_timeout"
    BY DEF TimerOf
  <2> HIDE DEF t
  <2>4. Owned(TimersOf(m_timers'), read_timer, opened')
    BY <2>1, <2>2, <2>3 DEF Owned
  <2> QED
    BY <2>2, <2>4
<1> QED
  BY <1>1, <1>2 DEF OpenOrRetry

\* The timer of the transaction is the only one of its kind, so that the list
\* less that timer has none.
LEMMA OwnTimerGone ==
  ASSUME TInv, NEW l, SoundTimers(l), TimersOf(l) = {t \in TimersOf(m_timers) : t.id # read_timer}
  PROVE  Owned(TimersOf(l), NoTimer, opened \ {Diag})
BY DEF TInv, Owned

LEMMA StepTimers ==
  ASSUME TInv, Next
  PROVE  SoundTimers(m_timers') /\ Owned(TimersOf(m_timers'), read_timer', opened')
<1> DEFINE l == m_timers
           E == TimersOf(l)
<1>1. /\ SoundTimers(l) /\ Owned(E, read_timer, opened) /\ logging \subseteq Pipes
      /\ read_timer \in TimerIds \cup {NoTimer} /\ NoTimer \notin TimerIds
  BY LoopAssumption DEF TInv
<1>2. /\ Diag \notin Conns /\ Diag \notin Pipes /\ Diag # Monitor
      /\ Pipes \subseteq Handlers \ {Diag} /\ Monitor \in Handlers \ {Diag} /\ Diag \in Handlers
  BY LoopAssumption DEF Handlers
<1>3. l \in Seq(Timers) /\ \A t \in E : t \in Timers
  BY <1>1 DEF SoundTimers, TimersOf
<1>4. ReopenTime \in Nat /\ IdleTime \in Nat /\ ConnectTime \in Nat
  BY DEF ReopenTime, IdleTime, ConnectTime
<1>5. {"reopen_log_dev", "connect_server"} \subseteq Callbacks \ {"read_timeout"} /\ "read_timeout" \in Callbacks
  BY DEF Callbacks
<1>6. CASE Poll
  <2>1. PICK d \in 0 .. MaxLag : m_timers' = Elapse(l, d)
    BY <1>6 DEF Poll
  <2>2. d \in Nat /\ UNCHANGED <<opened, read_timer>>
    BY <1>6, LoopAssumption DEF Poll, diagVars
  <2>3. /\ SoundTimers(m_timers')
        /\ \A t \in TimersOf(m_timers') :
              \E x \in E : t.id = x.id /\ t.cb = x.cb /\ t.param = x.param
        /\ \A x \in E :
              \E t \in TimersOf(m_timers') :
                t \in Timers /\ t.id = x.id /\ t.cb = x.cb /\ t.param = x.param
    BY <1>1, <2>1, <2>2, ElapseSound
  <2> HIDE DEF E
  <2> QED
    BY <1>1, <2>2, <2>3 DEF Owned
<1>7. ASSUME l # <<>>, Head(l).cb # "read_timeout"
      PROVE  SoundTimers(Tail(l)) /\ Owned(TimersOf(Tail(l)), read_timer, opened)
  <2>1. /\ SoundTimers(Tail(l)) /\ Head(l) \in E
        /\ TimersOf(Tail(l)) = {t \in E : t.id # Head(l).id}
    BY <1>1, <1>7, TailSound
  <2>2. \A t \in E : t.cb = "read_timeout" => t.id # Head(l).id
    <3> SUFFICES ASSUME NEW t \in E, t.id = Head(l).id
                 PROVE  t = Head(l)
      BY <1>7
    <3> QED
      BY <1>1, <2>1 DEF SoundTimers, IdsOnce, TimersOf
  <2> HIDE DEF E
  <2> QED
    BY <1>1, <2>1, <2>2 DEF Owned
<1>8. CASE ReopenLogDev
  <2>1. l # <<>> /\ Head(l).cb = "reopen_log_dev"
    BY <1>8 DEF ReopenLogDev, Due, TimerDue
  <2>2. SoundTimers(Tail(l)) /\ Owned(TimersOf(Tail(l)), read_timer, opened) /\ read_timer' = read_timer
    BY <1>7, <1>8, <2>1 DEF ReopenLogDev, diagVars
  <2>3. CASE Head(l).param \in logging \cap working
    <3>1. OpenOrRetry(Head(l).param, mux, Tail(l), {Head(l).id}, ReopenTime, "reopen_log_dev")
      BY <1>8, <2>3 DEF ReopenLogDev, OpenLogDev
    <3>2. Head(l).param \in Handlers \ {Diag}
      BY <1>1, <1>2, <2>3
    <3>3. "reopen_log_dev" \in Callbacks \ {"read_timeout"}
      BY <1>5
    <3> QED
      BY <1>4, <2>2, <3>1, <3>2, <3>3, OpenTimers
  <2>4. CASE Head(l).param \notin logging \cap working
    <3>1. m_timers' = Tail(l) /\ opened' = opened
      BY <1>8, <2>4 DEF ReopenLogDev
    <3> QED
      BY <2>2, <3>1
  <2> QED
    BY <2>3, <2>4
<1>9. CASE ConnectServerTimer
  <2>1. l # <<>> /\ Head(l).cb = "connect_server"
    BY <1>9 DEF ConnectServerTimer, Due, TimerDue
  <2>2. SoundTimers(Tail(l)) /\ Owned(TimersOf(Tail(l)), read_timer, opened) /\ read_timer' = read_timer
    BY <1>7, <1>9, <2>1 DEF ConnectServerTimer, diagVars
  <2>3. OpenOrRetry(Monitor, mux, Tail(l), {Head(l).id}, ConnectTime, "connect_server")
    BY <1>9 DEF ConnectServerTimer, ConnectServer
  <2>4. "connect_server" \in Callbacks \ {"read_timeout"}
    BY <1>5
  <2> QED
    BY <1>2, <1>4, <2>2, <2>3, <2>4, OpenTimers
<1>10. CASE ReadTimeout
  <2>1. l # <<>> /\ Head(l).cb = "read_timeout" /\ m_timers' = Tail(l)
    BY <1>10 DEF ReadTimeout, Due, TimerDue
  <2>2. /\ SoundTimers(Tail(l)) /\ Head(l) \in E
        /\ TimersOf(Tail(l)) = {t \in E : t.id # Head(l).id}
    BY <1>1, <2>1, TailSound
  <2>3. Head(l).id = read_timer
    BY <1>1, <2>1, <2>2 DEF Owned
  <2>4. opened' = opened \ {Diag} /\ read_timer' = NoTimer
    BY <1>10 DEF ReadTimeout, StopDiagTrans
  <2> QED
    BY <2>1, <2>2, <2>3, <2>4, OwnTimerGone
<1>11. CASE DiagEnd
  <2>1. m_timers' = DelTimer(l, read_timer) /\ opened' = opened \ {Diag} /\ read_timer' = NoTimer
    BY <1>11 DEF DiagEnd, StopDiagTrans
  <2>2. /\ SoundTimers(m_timers')
        /\ TimersOf(m_timers') = {t \in E : t.id # read_timer}
    BY <1>1, <2>1, DelTimerSound
  <2> QED
    BY <2>1, <2>2, OwnTimerGone
<1>12. CASE DiagData
  <2>1. m_timers' = SetNewDueTime(l, read_timer, IdleTime) /\ UNCHANGED <<opened, read_timer>>
    BY <1>12 DEF DiagData, diagVars
  <2>2. ASSUME NEW t \in E, t.id = read_timer
        PROVE  t.due <= IdleTime
    <3>1. read_timer # NoTimer
      BY <1>1, <1>3, <2>2, TimerFields
    <3>2. PICK x \in E : x.id = read_timer /\ x.cb = "read_timeout"
      BY <1>1, <3>1 DEF Owned
    <3>3. x = t
      BY <1>1, <2>2, <3>2 DEF SoundTimers, IdsOnce, TimersOf
    <3> QED
      BY <1>1, <3>2, <3>3 DEF SoundTimers, InTime
  <2> DEFINE set == {[t EXCEPT !.due = IdleTime] : t \in {x \in E : x.id = read_timer}}
  <2>3. SoundTimers(m_timers') /\ TimersOf(m_timers') = {t \in E : t.id # read_timer} \cup set
    <3>1. IdleTime <= IdleTime
      BY <1>4
    <3> QED
      BY <1>1, <1>4, <2>1, <2>2, <3>1, PutOffSound
  <2>4. ASSUME NEW x \in E
        PROVE  /\ [x EXCEPT !.due = IdleTime].id = x.id
               /\ [x EXCEPT !.due = IdleTime].cb = x.cb
               /\ [x EXCEPT !.due = IdleTime].param = x.param
    BY <1>3 DEF Timers
  <2>5. ASSUME NEW t \in TimersOf(m_timers'), t.cb = "read_timeout"
        PROVE  t.id = read_timer /\ Diag \in opened
    <3>1. CASE t \in E
      BY <1>1, <2>5, <3>1 DEF Owned
    <3>2. CASE t \in set
      <4>1. PICK x \in E : t = [x EXCEPT !.due = IdleTime]
        BY <3>2
      <4>2. x.cb = "read_timeout" /\ t.id = x.id
        BY <2>4, <2>5, <4>1
      <4> QED
        BY <1>1, <4>2 DEF Owned
    <3> QED
      BY <2>3, <3>1, <3>2
  <2>6. ASSUME read_timer # NoTimer
        PROVE  \E t \in TimersOf(m_timers') : t.id = read_timer /\ t.cb = "read_timeout" /\ t.param = Diag
    <3>1. PICK x \in E : x.id = read_timer /\ x.cb = "read_timeout" /\ x.param = Diag
      BY <1>1, <2>6 DEF Owned
    <3>2. [x EXCEPT !.due = IdleTime] \in TimersOf(m_timers')
      BY <2>3, <3>1
    <3> QED
      BY <2>4, <3>1, <3>2
  <2> QED
    BY <2>1, <2>3, <2>5, <2>6 DEF Owned
<1>13. CASE StartDiagTrans
  <2>1. PICK id \in FreeIds(l, {}) :
          /\ Diag \notin opened
          /\ opened' = opened \cup {Diag}
          /\ m_timers' = CreateTimer(l, id, IdleTime, "read_timeout", Diag)
          /\ read_timer' = id
    BY <1>13 DEF StartDiagTrans
  <2> DEFINE t == TimerOf(id, IdleTime, "read_timeout", Diag)
  <2>2. SoundTimers(m_timers') /\ TimersOf(m_timers') = E \cup {t}
    <3>1. IdleTime <= IdleTime
      BY <1>4
    <3> QED
      BY <1>1, <1>2, <1>4, <1>5, <2>1, <3>1, CreateSound
  <2>3. t.id = id /\ t.cb = "read_timeout" /\ t.param = Diag
    BY DEF TimerOf
  <2> HIDE DEF t
  <2>4. \A x \in E : x.cb # "read_timeout"
    BY <1>1, <2>1 DEF Owned
  <2> QED
    BY <2>1, <2>2, <2>3, <2>4 DEF Owned
<1>14. CASE StartLogging
  <2>1. PICK c \in Conns, p \in Pipes \ logging :
          IF p \in working THEN OpenLogDev(p, Delivered, l, {})
          ELSE mux' = Delivered /\ UNCHANGED <<m_timers, opened>>
    BY <1>14 DEF StartLogging
  <2>2. read_timer' = read_timer
    BY <1>14 DEF StartLogging, diagVars
  <2>3. CASE p \in working
    <3>1. OpenOrRetry(p, Delivered, l, {}, ReopenTime, "reopen_log_dev")
      BY <2>1, <2>3 DEF OpenLogDev
    <3>2. p \in Handlers \ {Diag} /\ "reopen_log_dev" \in Callbacks \ {"read_timeout"}
      BY <1>2, <1>5
    <3> QED
      BY <1>1, <1>4, <2>2, <3>1, <3>2, OpenTimers
  <2>4. CASE p \notin working
    BY <1>1, <2>1, <2>2, <2>4
  <2> QED
    BY <2>3, <2>4
<1>15. CASE PipeError
  <2>1. PICK p \in Pipes : OpenOrRetry(p, UnregisterFd(Delivered, p), l, {}, ReopenTime, "reopen_log_dev")
    BY <1>15 DEF PipeError, OpenLogDev
  <2>2. p \in Handlers \ {Diag} /\ "reopen_log_dev" \in Callbacks \ {"read_timeout"}
    BY <1>2, <1>5
  <2>3. read_timer' = read_timer
    BY <1>15 DEF PipeError, diagVars
  <2> QED
    BY <1>1, <1>4, <2>1, <2>2, <2>3, OpenTimers
<1>16. CASE ProcessAlive
  <2> DEFINE d == DelTimersOf(l, "reopen_log_dev")
  <2>1. PICK p \in Pipes :
          IF p \in logging \ opened THEN OpenLogDev(p, Delivered, d, {})
          ELSE mux' = Delivered /\ UNCHANGED <<m_timers, opened>>
    BY <1>16 DEF ProcessAlive
  <2>2. read_timer' = read_timer
    BY <1>16 DEF ProcessAlive, diagVars
  <2>3. SoundTimers(d) /\ TimersOf(d) = {t \in E : t.cb # "reopen_log_dev"}
    BY <1>1, DelTimersOfSound
  <2> HIDE DEF d
  <2>4. Owned(TimersOf(d), read_timer, opened)
    BY <1>1, <2>3 DEF Owned
  <2>5. CASE p \in logging \ opened
    <3>1. OpenOrRetry(p, Delivered, d, {}, ReopenTime, "reopen_log_dev")
      BY <2>1, <2>5 DEF OpenLogDev
    <3>2. p \in Handlers \ {Diag} /\ "reopen_log_dev" \in Callbacks \ {"read_timeout"}
      BY <1>2, <1>5
    <3> QED
      BY <1>4, <2>2, <2>3, <2>4, <3>1, <3>2, OpenTimers
  <2>6. CASE p \notin logging \ opened
    BY <1>1, <2>1, <2>2, <2>6
  <2> QED
    BY <2>5, <2>6
<1>17. CASE ServerGone
  <2>1. OpenOrRetry(Monitor, UnregisterFd(Delivered, Monitor), l, {}, ConnectTime, "connect_server")
    BY <1>17 DEF ServerGone, ConnectServer
  <2>2. Monitor \in Handlers \ {Diag} /\ "connect_server" \in Callbacks \ {"read_timeout"}
    BY <1>2, <1>5
  <2>3. read_timer' = read_timer
    BY <1>17 DEF ServerGone, diagVars
  <2> QED
    BY <1>1, <1>4, <2>1, <2>2, <2>3, OpenTimers
<1>18. CASE \/ TimersDone \/ RoundDone \/ Accept \/ ClientDisconn \/ StopLogging
            \/ PipeData \/ BufferAvailable \/ CloseOnAssert
  <2>1. m_timers' = m_timers /\ read_timer' = read_timer
    BY <1>18 DEF TimersDone, RoundDone, Accept, ClientDisconn, StopLogging, PipeData, BufferAvailable,
                 CloseOnAssert, diagVars
  <2>2. Diag \in opened => Diag \in opened'
    <3>1. CASE TimersDone \/ RoundDone \/ PipeData \/ BufferAvailable
      BY <3>1 DEF TimersDone, RoundDone, PipeData, BufferAvailable
    <3>2. CASE Accept \/ ClientDisconn
      BY <1>2, <3>2 DEF Accept, ClientDisconn
    <3>3. CASE StopLogging \/ CloseOnAssert
      BY <1>1, <1>2, <3>3 DEF StopLogging, CloseOnAssert
    <3> QED
      BY <1>18, <3>1, <3>2, <3>3
  <2> HIDE DEF E
  <2> QED
    BY <1>1, <2>1, <2>2 DEF Owned, E
<1> QED
  BY <1>6, <1>8, <1>9, <1>10, <1>11, <1>12, <1>13, <1>14, <1>15, <1>16, <1>17, <1>18 DEF Next, Callback

LEMMA StepPointer ==
  ASSUME TInv, Next
  PROVE  read_timer' \in TimerIds \cup {NoTimer} /\ logging' \subseteq Pipes
<1>1. read_timer \in TimerIds \cup {NoTimer} /\ logging \subseteq Pipes
  BY DEF TInv
<1>2. logging' \subseteq Pipes
  BY <1>1 DEF Next, Callback, Poll, TimersDone, RoundDone, ReopenLogDev, ConnectServerTimer, ReadTimeout,
       Accept, ClientDisconn, StartLogging, StopLogging, StartDiagTrans, DiagData, DiagEnd, PipeData,
       PipeError, BufferAvailable, CloseOnAssert, ProcessAlive, ServerGone, pipeVars
<1>3. read_timer' = read_timer \/ ReadTimeout \/ DiagEnd \/ StartDiagTrans
  BY DEF Next, Callback, Poll, TimersDone, RoundDone, ReopenLogDev, ConnectServerTimer,
       Accept, ClientDisconn, StartLogging, StopLogging, DiagData, PipeData,
       PipeError, BufferAvailable, CloseOnAssert, ProcessAlive, ServerGone, diagVars
<1>4. ReadTimeout \/ DiagEnd => read_timer' = NoTimer
  BY DEF ReadTimeout, DiagEnd, StopDiagTrans
<1>5. StartDiagTrans => read_timer' \in TimerIds
  BY DEF StartDiagTrans, FreeIds
<1> QED
  BY <1>1, <1>2, <1>3, <1>4, <1>5

LEMMA TimersInvariant == Spec => []TInv
<1>1. Init => TInv
  <2> SUFFICES ASSUME Init
               PROVE  TInv
    OBVIOUS
  <2>1. m_timers = <<>> /\ read_timer = NoTimer /\ logging = {}
    BY DEF Init
  <2>2. TimersOf(<<>>) = {} /\ <<>> \in Seq(Timers)
    BY DEF TimersOf
  <2>3. SoundTimers(<<>>)
    BY <2>2 DEF SoundTimers, Sorted, IdsOnce, InTime
  <2> QED
    BY <2>1, <2>2, <2>3 DEF TInv, Owned
<1>2. TInv /\ [Next]_vars => TInv'
  <2> SUFFICES ASSUME TInv, [Next]_vars
               PROVE  TInv'
    OBVIOUS
  <2>1. CASE Next
    BY <2>1, StepTimers, StepPointer DEF TInv
  <2>2. CASE UNCHANGED vars
    BY <2>2 DEF vars, TInv, pipeVars, diagVars
  <2> QED
    BY <2>1, <2>2
<1> QED
  BY <1>1, <1>2, PTL DEF Spec

\* No timer waits behind one that is due later, for any number of timers that are
\* created, put off and deleted, by address or by callback, in any order and while
\* time passes: run() and next_time() may look at the first only.  The search for the
\* new place of a timer that is put off begins behind its old one; that is enough for
\* the timers that are, since none was due later than its new time.
\* (timer_mgr.cpp)
THEOREM TimersSortedHolds == Spec => []TimersSorted
<1>1. TInv => TimersSorted
  BY DEF TInv, SoundTimers, Sorted, TimersSorted
<1> QED
  BY <1>1, TimersInvariant, PTL

\* The transaction's pointer is null or that of its own timer, and that timer goes
\* with it: del_timer() and set_new_due_time() never hit the timer of another
\* handler that has the address of one that fired.  (trans_save_sleep_log.cpp)
THEOREM NoStrayTimerHolds == Spec => []NoStrayTimer
<1>1. ASSUME TInv
      PROVE  NoStrayTimer
  <2>1. \A i \in DOMAIN m_timers : m_timers[i] \in TimersOf(m_timers)
    BY DEF TimersOf
  <2>2. m_timers \in Seq(Timers) /\ Owned(TimersOf(m_timers), read_timer, opened)
    BY <1>1 DEF TInv, SoundTimers
  <2>3. ASSUME read_timer # NoTimer
        PROVE  \E i \in DOMAIN m_timers :
                 m_timers[i] = TimerOf(read_timer, m_timers[i].due, "read_timeout", Diag)
    <3>1. PICK t \in TimersOf(m_timers) : t.id = read_timer /\ t.cb = "read_timeout" /\ t.param = Diag
      BY <2>2, <2>3 DEF Owned
    <3>2. PICK i \in DOMAIN m_timers : t = m_timers[i]
      BY DEF TimersOf
    <3>3. t \in Timers
      BY <2>2, <3>2
    <3>4. t = [id |-> t.id, due |-> t.due, cb |-> t.cb, param |-> t.param]
      BY <3>3 DEF Timers
    <3>5. t = TimerOf(read_timer, t.due, "read_timeout", Diag)
      BY <3>1, <3>4 DEF TimerOf
    <3> QED
      BY <3>2, <3>5
  <2> QED
    BY <2>1, <2>2, <2>3 DEF NoStrayTimer, Owned
<1> QED
  BY <1>1, TimersInvariant, PTL

==============================================================================
