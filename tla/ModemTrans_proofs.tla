--------------------------- MODULE ModemTrans_proofs ---------------------------
(***************************************************************************)
(* Of ModemTrans, for any transactions, timers and bounds: the commands of *)
(* the AT controller belong to transactions in the queue, no object is     *)
(* lost or freed while it is used, none is executed twice, what the daemon *)
(* asks the modem of its own accord goes on, and the queue moves.          *)
(***************************************************************************)
EXTENDS ModemTrans, AtController_proofs, SequenceTheorems

\* Who wants a new transaction, and who executes one that is in the queue.
NewCtx == Requests \cup {"time", "version", "requery", "dump", "etb", "event"}
QueueCtx == {"loop", "canceled"}
CallOps == {"execute", "queued", "STARTED", "SUCCESS", "ERROR"}
Results == {"SUCCESS", "FAILURE"}

DoOps == {"begin", "front", "end_dump", "start", "stop", "event_mode", "time_assert", "crashed"}
ObjectOps == {"notify", "cancel", "drop"}
Labels ==
  {l \in [op : DoOps \cup CallOps \cup ObjectOps \cup {"new", "finish", "result", "loop"},
           t : Trans \cup {NoTrans},
           ctx : NewCtx \cup QueueCtx \cup Results \cup {"OK", "FAIL", ""}] :
     /\ l.op \in DoOps => l.t = NoTrans /\ l.ctx = ""
     /\ l.op = "new" => l.t = NoTrans /\ l.ctx \in NewCtx
     /\ l.op \in CallOps => l.t \in Trans /\ l.ctx \in NewCtx \cup QueueCtx
     /\ l.op \in ObjectOps => l.t \in Trans /\ l.ctx = ""
     /\ l.op = "finish" => l.t \in Trans /\ l.ctx \in Results
     /\ l.op = "result" => l.t \in Trans /\ l.ctx \in {"OK", "FAIL"}
     /\ l.op = "loop" => l.ctx = ""}

------------------------------------------------------------------------------
(* What may be left to do after the first call, which is what its callers  *)
(* have still to do.                                                       *)

Back == {<<Do("begin")>>, <<Do("front")>>} \cup {<<L("loop", t, "")>> : t \in Trans \cup {NoTrans}}
Ended ==
  {<<L("SUCCESS", t, c)>> : t \in Trans, c \in GlobalTypes \cup QueueCtx}
Finishing == {<<L("finish", t, s)>> : t \in Trans, s \in Results}

AfterNew(c) ==
  CASE c = "time" -> {<<>>, <<Do("start")>>, <<L("new", NoTrans, "version")>>} \cup Back
    [] c = "version" -> {<<>>} \cup Ended \cup Finishing
    [] c = "etb" -> {<<L("new", NoTrans, "dump"), Do("time_assert")>>}
    [] c = "dump" -> {<<Do("time_assert")>>}
    [] OTHER -> {<<>>}

Rests(l) ==
  CASE l.op \in {"new"} \cup CallOps -> AfterNew(l.ctx)
    [] l.op = "notify" -> Back
    [] l.op = "end_dump" -> {<<Do("time_assert")>>} \cup Back
    [] l.op = "start" -> {<<>>} \cup Ended \cup Finishing
    [] l.op = "stop" -> Ended \cup Finishing \cup {<<Do("event_mode")>> \o r : r \in Finishing}
    [] l.op = "event_mode" -> Finishing
    [] l.op = "drop" -> {<<L("new", NoTrans, "STOP_LOG")>>}
    [] OTHER -> {<<>>}

Shape == todo \in Seq(Labels) /\ (todo # <<>> => Tail(todo) \in Rests(This))

------------------------------------------------------------------------------
(* What holds of the objects.                                              *)

\* The calls that are left, and those of them that are left to callers.
Left == Range(todo)
LeftToCallers == IF todo = <<>> THEN {} ELSE Range(Tail(todo))

\* The call has an object that is not in the queue.
Detached(l) ==
  \/ l.op = "notify"
  \/ l.op \in {"execute", "STARTED", "SUCCESS", "ERROR"} /\ l.ctx \in NewCtx

RunsCommand(t) == Running /\ client_ = t

\* What a call may assume of its object.
Claim(l) ==
  /\ l.op \in CallOps =>
       /\ type_[l.t] # "FREE"
       /\ l.ctx \in NewCtx => type_[l.t] = TypeFor(l.ctx)
  /\ Detached(l) => type_[l.t] # "FREE" /\ l.t \notin Queued
  /\ l.op \in CallOps /\ l.ctx \in QueueCtx => l.t \in Queued /\ l.op # "queued"
  /\ l.op = "queued" => l.t \in Queued
  /\ l.op = "execute" => state_[l.t] = "NOT_BEGIN"
  /\ l.op \in {"SUCCESS", "ERROR", "notify"} => state_[l.t] # "EXECUTING"
  /\ l.op \in {"finish", "result", "cancel", "drop"} => l.t \in Queued
  /\ l.op = "loop" => l.t \in Queued \cup {NoTrans}
  /\ l.op = "finish" => ~RunsCommand(l.t)
  /\ l.op = "result" => type_[l.t] \in AtTypes /\ state_[l.t] = "EXECUTING" /\ ~Running
  /\ l.op = "cancel" => type_[l.t] \in GlobalTypes \cup {"MODEM_TICK_QUERY"}
  /\ l.op = "drop" => type_[l.t] = "VERSION_QUERY"

\* What a caller has still to report is not of the diag device.
CallerClaim(l) ==
  /\ l.op = "SUCCESS" => type_[l.t] \in GlobalTypes
  /\ l.op = "finish" => type_[l.t] \in AtTypes

Claims ==
  /\ \A l \in Left : Claim(l)
  /\ \A l \in LeftToCallers : CallerClaim(l)

\* The objects are in the queue or in the hands of a call.
ObjectsInv ==
  /\ IsInjective(transactions_)
  /\ \A t \in Trans :
       type_[t] # "FREE" <=> t \in Queued \/ \E l \in Left : Detached(l) /\ l.t = t

\* The running command is that of a transaction that waits for it.
CommandInv ==
  Running =>
    /\ client_ \in Trans
    /\ state_[client_] = "EXECUTING"
    /\ type_[client_] \in AtTypes /\ CommandOf(type_[client_]) = action_
    /\ client_ \notin at_finished_

\* What has not begun has no timer and not the diag device.
UnbegunInv ==
  \A t \in Trans :
    /\ state_[t] = "NOT_BEGIN" => t \notin at_finished_
    /\ state_[t] = "NOT_BEGIN" /\ type_[t] \notin {"FREE", "ORCA_ETB_DUMP"} =>
         t \notin armed /\ m_diag_handler # t
    /\ type_[t] = "FREE" => state_[t] = "NOT_BEGIN"

\* What has the diag device is of that kind, or has been freed.
DiagInv ==
  \A t \in {m_diag_handler, cur_diag_trans_} : t = NoTrans \/ type_[t] \in DiagTypes \cup {"FREE"}

------------------------------------------------------------------------------
(* What the daemon asks by itself.                                         *)

VersionInv ==
  m_ver_state = "QUERY" =>
    \E t \in Trans : /\ type_[t] = "VERSION_QUERY"
                     /\ t \in Queued \/ L("notify", t, "") \in Left

Asking == \E l \in Left : l.ctx = "time"

\* The pointer to the time query is that to the only one, but for one that is
\* being asked for or canceled.
TimeInv ==
  /\ trans_state_ = "EXECUTING" =>
       /\ trans_ts_ \in Trans
       /\ type_[trans_ts_] = "MODEM_TICK_QUERY"
       /\ trans_ts_ \in Queued \/ L("notify", trans_ts_, "") \in Left
  /\ trans_state_ # "EXECUTING" => trans_ts_ = NoTrans
  /\ trans_state_ = "EXECUTING_FAIL" => Asking
  /\ trans_state_ = "START_FAIL" => retry \/ Asking
  /\ trans_state_ = "SUCCESS" => ts # "none"
  /\ trans_state_ = "NOT_BEGIN" => ts = "none"
  /\ retry => trans_state_ = "START_FAIL" /\ ~Asking
  /\ Asking => trans_state_ \notin {"EXECUTING", "SUCCESS"}
  /\ \A t \in Trans : type_[t] = "MODEM_TICK_QUERY" =>
       t = trans_ts_ \/ \E l \in Left : l.t = t /\ (l.ctx = "time" \/ l.op = "cancel")
  /\ \A l \in Left : l.op = "cancel" => l.t # trans_ts_

Crashed == todo = <<Do("crashed")>>

CoreInv == Claims /\ ObjectsInv /\ CommandInv /\ UnbegunInv /\ DiagInv
QueryInv == VersionInv /\ TimeInv

IInv ==
  /\ ModemTypeOK
  /\ AtInv
  /\ Shape
  /\ ~Crashed => CoreInv /\ QueryInv

------------------------------------------------------------------------------
(* Labels and what is left to do.                                          *)

LEMMA LabelFields ==
  ASSUME NEW op, NEW t, NEW c
  PROVE  L(op, t, c).op = op /\ L(op, t, c).t = t /\ L(op, t, c).ctx = c
BY DEF L

LEMMA DoFields ==
  ASSUME NEW op
  PROVE  Do(op) = L(op, NoTrans, "") /\ Do(op).op = op /\ Do(op).t = NoTrans /\ Do(op).ctx = ""
BY DEF Do, L

LEMMA NoTransIsNone == NoTrans \notin Trans
BY TransAssumption, AtAssumption

\* A label is made by L, and which objects it can have.
LEMMA LabelIs ==
  ASSUME NEW l \in Labels
  PROVE  /\ l = L(l.op, l.t, l.ctx)
         /\ l.t \in Trans \cup {NoTrans}
         /\ l.op \in CallOps => l.t \in Trans /\ l.ctx \in NewCtx \cup QueueCtx
         /\ l.op \in ObjectOps => l.t \in Trans /\ l.ctx = ""
         /\ l.op = "finish" => l.t \in Trans /\ l.ctx \in Results
         /\ l.op = "result" => l.t \in Trans /\ l.ctx \in {"OK", "FAIL"}
         /\ l.op = "loop" => l.ctx = ""
         /\ l.op = "new" => l.t = NoTrans /\ l.ctx \in NewCtx
         /\ l.op \in DoOps => l.t = NoTrans /\ l.ctx = ""
BY DEF Labels, L

LEMMA MakeLabel ==
  /\ \A op \in DoOps : Do(op) \in Labels
  /\ \A c \in NewCtx : L("new", NoTrans, c) \in Labels
  /\ \A op \in CallOps, t \in Trans, c \in NewCtx \cup QueueCtx : L(op, t, c) \in Labels
  /\ \A t \in Trans, s \in Results : L("finish", t, s) \in Labels
  /\ \A t \in Trans, ok \in {"OK", "FAIL"} : L("result", t, ok) \in Labels
  /\ \A op \in ObjectOps, t \in Trans : L(op, t, "") \in Labels
  /\ \A t \in Trans \cup {NoTrans} : L("loop", t, "") \in Labels
<1>1. ASSUME NEW op \in DoOps
      PROVE  Do(op) \in Labels
  BY DEF Labels, Do, L, DoOps, CallOps, ObjectOps
<1>2. ASSUME NEW c \in NewCtx
      PROVE  L("new", NoTrans, c) \in Labels
  BY DEF Labels, L, DoOps, CallOps, ObjectOps
<1>3. ASSUME NEW op \in CallOps, NEW t \in Trans, NEW c \in NewCtx \cup QueueCtx
      PROVE  L(op, t, c) \in Labels
  BY DEF Labels, L, DoOps, CallOps, ObjectOps
<1>4. ASSUME NEW t \in Trans, NEW s \in Results
      PROVE  L("finish", t, s) \in Labels
  BY DEF Labels, L, DoOps, CallOps, ObjectOps
<1>5. ASSUME NEW t \in Trans, NEW ok \in {"OK", "FAIL"}
      PROVE  L("result", t, ok) \in Labels
  BY DEF Labels, L, DoOps, CallOps, ObjectOps
<1>6. ASSUME NEW op \in ObjectOps, NEW t \in Trans
      PROVE  L(op, t, "") \in Labels
  BY DEF Labels, L, DoOps, CallOps, ObjectOps
<1>7. ASSUME NEW t \in Trans \cup {NoTrans}
      PROVE  L("loop", t, "") \in Labels
  BY DEF Labels, L, DoOps, CallOps, ObjectOps
<1> QED
  BY <1>1, <1>2, <1>3, <1>4, <1>5, <1>6, <1>7

LEMMA OneLabel ==
  ASSUME NEW S, NEW l \in S
  PROVE  /\ <<l>> \in Seq(S) /\ <<l>> # <<>> /\ Head(<<l>>) = l /\ Tail(<<l>>) = <<>>
         /\ Range(<<l>>) = {l} /\ Range(<<>>) = {} /\ <<>> \in Seq(S)
<1>1. Range(<<l>>) = {l} /\ Range(<<>>) = {}
  BY DEF Range
<1> QED
  BY <1>1

LEMMA TwoLabels ==
  ASSUME NEW S, NEW l \in S, NEW m \in S
  PROVE  /\ <<l, m>> \in Seq(S) /\ <<l, m>> # <<>> /\ Head(<<l, m>>) = l /\ Tail(<<l, m>>) = <<m>>
         /\ Range(<<l, m>>) = {l, m} /\ Range(<<m>>) = {m}
<1>1. Range(<<l, m>>) = {l, m}
  BY DEF Range
<1>2. Len(Tail(<<l, m>>)) = 1 /\ Tail(<<l, m>>)[1] = m /\ Tail(<<l, m>>) \in Seq(S)
  OBVIOUS
<1>3. Tail(<<l, m>>) = <<m>>
  BY <1>2
<1> QED
  BY <1>1, <1>3, OneLabel

LEMMA ThreeLabels ==
  ASSUME NEW S, NEW l \in S, NEW m \in S, NEW n \in S
  PROVE  /\ <<l, m, n>> \in Seq(S) /\ <<l, m, n>> # <<>> /\ Head(<<l, m, n>>) = l
         /\ Tail(<<l, m, n>>) = <<m, n>>
         /\ Range(<<l, m, n>>) = {l, m, n}
<1>1. Range(<<l, m, n>>) = {l, m, n}
  BY DEF Range
<1>2. /\ Len(Tail(<<l, m, n>>)) = 2 /\ Tail(<<l, m, n>>)[1] = m /\ Tail(<<l, m, n>>)[2] = n
      /\ Tail(<<l, m, n>>) \in Seq(S)
  OBVIOUS
<1>3. Tail(<<l, m, n>>) = <<m, n>>
  BY <1>2
<1> QED
  BY <1>1, <1>3

LEMMA MoreLabels ==
  ASSUME NEW S, NEW l \in S, NEW r \in Seq(S)
  PROVE  /\ <<l>> \o r \in Seq(S) /\ <<l>> \o r # <<>>
         /\ Head(<<l>> \o r) = l /\ Tail(<<l>> \o r) = r
         /\ Range(<<l>> \o r) = {l} \cup Range(r)
<1> DEFINE s == <<l>> \o r
<1>1. /\ s \in Seq(S) /\ Len(s) = Len(r) + 1 /\ s[1] = l
      /\ \A i \in 1 .. Len(r) : s[i + 1] = r[i]
  <2>1. <<l>> \in Seq(S) /\ Len(<<l>>) = 1 /\ <<l>>[1] = l
    OBVIOUS
  <2> QED
    BY <2>1
<1> HIDE DEF s
<1>2. Len(r) \in Nat /\ DOMAIN r = 1 .. Len(r) /\ DOMAIN s = 1 .. Len(r) + 1
  BY <1>1
<1>3. s # <<>> /\ Head(s) = l
  BY <1>1, <1>2
<1>4. Tail(s) = r
  <2>1. Tail(s) \in Seq(S) /\ Len(Tail(s)) = Len(r) /\ \A i \in 1 .. Len(r) : Tail(s)[i] = s[i + 1]
    BY <1>1, <1>2, <1>3
  <2> QED
    BY <1>1, <1>2, <2>1
<1>5. Range(s) = {l} \cup Range(r)
  <2>1. ASSUME NEW i \in DOMAIN s
        PROVE  s[i] \in {l} \cup Range(r)
    <3>1. CASE i = 1
      BY <1>1, <3>1
    <3>2. CASE i # 1
      <4>1. i - 1 \in 1 .. Len(r) /\ (i - 1) + 1 = i
        BY <1>2, <3>2
      <4>2. s[i] = r[i - 1]
        BY <1>1, <4>1
      <4> QED
        BY <1>2, <4>1, <4>2 DEF Range
    <3> QED
      BY <3>1, <3>2
  <2>2. l \in Range(s)
    BY <1>1, <1>2 DEF Range
  <2>3. ASSUME NEW i \in DOMAIN r
        PROVE  r[i] \in Range(s)
    <3>1. i + 1 \in DOMAIN s /\ s[i + 1] = r[i]
      BY <1>1, <1>2
    <3> QED
      BY <3>1 DEF Range
  <2> QED
    BY <2>1, <2>2, <2>3 DEF Range
<1> QED
  BY <1>1, <1>3, <1>4, <1>5 DEF s

LEMMA NoMoreLabels ==
  ASSUME NEW S, NEW r \in Seq(S)
  PROVE  <<>> \o r = r /\ r \o <<>> = r
OBVIOUS

------------------------------------------------------------------------------
(* What is left to callers is what could be left to do by itself.          *)

\* The calls that callers have still to make, or to report.
CallerLabel(l) ==
  /\ l.op \in {"begin", "front", "loop", "start", "new", "time_assert", "event_mode", "SUCCESS", "finish"}
  /\ l.op = "SUCCESS" => l.ctx \in GlobalTypes \cup QueueCtx
  /\ l.ctx # "time"

WellFormed(r) ==
  /\ r \in Seq(Labels)
  /\ r # <<>> => Tail(r) \in Rests(Head(r))
  /\ \A l \in Range(r) : CallerLabel(l)

LEMMA OneAndOne ==
  ASSUME NEW S, NEW l \in S, NEW m \in S
  PROVE  <<l>> \o <<m>> = <<l, m>>
<1>1. /\ <<l>> \in Seq(S) /\ Len(<<l>>) = 1 /\ <<l>>[1] = l
      /\ <<m>> \in Seq(S) /\ Len(<<m>>) = 1 /\ <<m>>[1] = m
  OBVIOUS
<1> DEFINE a == <<l>>
           b == <<m>>
<1> HIDE DEF a, b
<1>2. Len(a \o b) = 2 /\ (a \o b)[1] = l /\ (a \o b)[2] = m /\ a \o b \in Seq(S)
  BY <1>1 DEF a, b
<1>3. a \o b = <<l, m>>
  <2> DEFINE c == a \o b
  <2>1. c \in Seq(S) /\ Len(c) = 2 /\ c[1] = l /\ c[2] = m
    BY <1>2
  <2> HIDE DEF c
  <2>2. c = <<l, m>>
    BY <2>1
  <2> QED
    BY <2>2 DEF c
<1> QED
  BY <1>3 DEF a, b

LEMMA GlobalIsNew == GlobalTypes \subseteq NewCtx /\ GlobalTypes \subseteq AtTypes
BY DEF GlobalTypes, NewCtx, Requests, AtTypes

LEMMA NothingIsWellFormed == WellFormed(<<>>)
BY OneLabel DEF WellFormed, Range

LEMMA OneIsWellFormed ==
  ASSUME NEW l \in Labels, CallerLabel(l), <<>> \in Rests(l)
  PROVE  WellFormed(<<l>>)
<1>1. /\ <<l>> \in Seq(Labels) /\ Head(<<l>>) = l /\ Tail(<<l>>) = <<>> /\ Range(<<l>>) = {l}
  BY OneLabel
<1> QED
  BY <1>1 DEF WellFormed

LEMMA TwoAreWellFormed ==
  ASSUME NEW l \in Labels, NEW m \in Labels, CallerLabel(l), CallerLabel(m), <<m>> \in Rests(l)
  PROVE  WellFormed(<<l, m>>)
<1>1. /\ <<l, m>> \in Seq(Labels) /\ Head(<<l, m>>) = l /\ Tail(<<l, m>>) = <<m>> /\ Range(<<l, m>>) = {l, m}
  BY TwoLabels
<1> QED
  BY <1>1 DEF WellFormed

LEMMA BackIsWellFormed ==
  ASSUME NEW r \in Back
  PROVE  WellFormed(r)
<1>1. CASE r \in {<<Do("begin")>>, <<Do("front")>>}
  <2>1. PICK op \in {"begin", "front"} : r = <<Do(op)>>
    BY <1>1
  <2>2. Do(op) \in Labels /\ Do(op).op = op /\ Do(op).ctx = ""
    BY MakeLabel, DoFields DEF DoOps
  <2>3. CallerLabel(Do(op)) /\ <<>> \in Rests(Do(op))
    BY <2>2 DEF CallerLabel, Rests, CallOps
  <2> QED
    BY <2>1, <2>2, <2>3, OneIsWellFormed
<1>2. CASE \E t \in Trans \cup {NoTrans} : r = <<L("loop", t, "")>>
  <2>1. PICK t \in Trans \cup {NoTrans} : r = <<L("loop", t, "")>>
    BY <1>2
  <2>2. L("loop", t, "") \in Labels /\ L("loop", t, "").op = "loop" /\ L("loop", t, "").ctx = ""
    <3>1. L("loop", t, "") \in Labels
      BY MakeLabel
    <3>2. L("loop", t, "").op = "loop" /\ L("loop", t, "").ctx = ""
      BY DEF L
    <3> QED
      BY <3>1, <3>2
  <2>3. CallerLabel(L("loop", t, "")) /\ <<>> \in Rests(L("loop", t, ""))
    BY <2>2 DEF CallerLabel, Rests, CallOps
  <2> QED
    BY <2>1, <2>2, <2>3, OneIsWellFormed
<1> QED
  BY <1>1, <1>2 DEF Back

LEMMA EndedIsWellFormed ==
  ASSUME NEW r \in Ended
  PROVE  WellFormed(r)
<1>1. PICK t \in Trans, c \in GlobalTypes \cup QueueCtx : r = <<L("SUCCESS", t, c)>>
  BY DEF Ended
<1> DEFINE l == L("SUCCESS", t, c)
<1>2. l \in Labels /\ l.op = "SUCCESS" /\ l.ctx = c
  <2>1. "SUCCESS" \in CallOps /\ c \in NewCtx \cup QueueCtx
    BY GlobalIsNew DEF CallOps
  <2>2. l \in Labels
    BY <2>1, MakeLabel
  <2> QED
    BY <2>2, LabelFields
<1>3. CallerLabel(l)
  BY <1>2 DEF CallerLabel, GlobalTypes, QueueCtx
<1>4. <<>> \in Rests(l)
  <2>1. Rests(l) = AfterNew(c)
    BY <1>2 DEF Rests, CallOps
  <2> QED
    BY <2>1 DEF AfterNew, GlobalTypes, QueueCtx
<1> HIDE DEF l
<1>5. WellFormed(<<l>>)
  BY <1>2, <1>3, <1>4, OneIsWellFormed
<1> QED
  BY <1>1, <1>5 DEF l

LEMMA FinishingIsWellFormed ==
  ASSUME NEW r \in Finishing
  PROVE  WellFormed(r)
<1>1. PICK t \in Trans, s \in Results : r = <<L("finish", t, s)>>
  BY DEF Finishing
<1> DEFINE l == L("finish", t, s)
<1>2. l \in Labels /\ l.op = "finish" /\ l.ctx = s
  <2>1. l \in Labels
    BY MakeLabel
  <2> QED
    BY <2>1, LabelFields
<1>3. CallerLabel(l)
  BY <1>2 DEF CallerLabel, Results
<1>4. <<>> \in Rests(l)
  BY <1>2 DEF Rests, CallOps
<1> HIDE DEF l
<1>5. WellFormed(<<l>>)
  BY <1>2, <1>3, <1>4, OneIsWellFormed
<1> QED
  BY <1>1, <1>5 DEF l

LEMMA OpIsWellFormed ==
  /\ WellFormed(<<Do("start")>>) /\ WellFormed(<<Do("time_assert")>>)
  /\ WellFormed(<<L("new", NoTrans, "version")>>) /\ WellFormed(<<L("new", NoTrans, "STOP_LOG")>>)
  /\ WellFormed(<<L("new", NoTrans, "dump"), Do("time_assert")>>)
<1>1. /\ Do("start") \in Labels /\ Do("time_assert") \in Labels
      /\ Do("start").op = "start" /\ Do("time_assert").op = "time_assert"
      /\ Do("start").ctx = "" /\ Do("time_assert").ctx = ""
  BY MakeLabel, DoFields DEF DoOps
<1>2. ASSUME NEW c \in {"version", "STOP_LOG", "dump"}
      PROVE  /\ L("new", NoTrans, c) \in Labels /\ CallerLabel(L("new", NoTrans, c))
             /\ Rests(L("new", NoTrans, c)) = AfterNew(c)
  <2>1. c \in NewCtx
    BY DEF NewCtx, Requests
  <2>2. L("new", NoTrans, c) \in Labels /\ L("new", NoTrans, c).op = "new" /\ L("new", NoTrans, c).ctx = c
    <3>1. L("new", NoTrans, c) \in Labels
      BY <2>1, MakeLabel
    <3> QED
      BY <3>1, LabelFields
  <2> QED
    BY <2>2 DEF CallerLabel, Rests
<1>3. CallerLabel(Do("start")) /\ CallerLabel(Do("time_assert"))
  BY <1>1 DEF CallerLabel
<1>4. <<>> \in Rests(Do("start")) /\ <<>> \in Rests(Do("time_assert"))
  BY <1>1 DEF Rests, CallOps
<1>5. <<>> \in AfterNew("version") /\ <<>> \in AfterNew("STOP_LOG") /\ <<Do("time_assert")>> \in AfterNew("dump")
  BY DEF AfterNew
<1> QED
  BY <1>1, <1>2, <1>3, <1>4, <1>5, OneIsWellFormed, TwoAreWellFormed

LEMMA ModeIsWellFormed ==
  ASSUME NEW f \in Finishing
  PROVE  WellFormed(<<Do("event_mode")>> \o f)
<1>1. PICK t \in Trans, s \in Results : f = <<L("finish", t, s)>>
  BY DEF Finishing
<1> DEFINE l == L("finish", t, s)
<1>2. l \in Labels
  BY MakeLabel
<1>3. l.op = "finish" /\ l.ctx = s
  BY LabelFields
<1>4. CallerLabel(l)
  BY <1>3 DEF CallerLabel, Results
<1>5. Do("event_mode") \in Labels /\ Do("event_mode").op = "event_mode" /\ Do("event_mode").ctx = ""
  BY MakeLabel, DoFields DEF DoOps
<1>6. CallerLabel(Do("event_mode"))
  BY <1>5 DEF CallerLabel
<1>7. <<l>> \in Rests(Do("event_mode"))
  BY <1>1, <1>5 DEF Rests, CallOps
<1> HIDE DEF l
<1>8. <<Do("event_mode")>> \o <<l>> = <<Do("event_mode"), l>>
  BY <1>2, <1>5, OneAndOne
<1>9. WellFormed(<<Do("event_mode"), l>>)
  BY <1>2, <1>4, <1>5, <1>6, <1>7, TwoAreWellFormed
<1> QED
  BY <1>1, <1>8, <1>9 DEF l

LEMMA RestsAreWellFormed ==
  ASSUME NEW l \in Labels, NEW r \in Rests(l)
  PROVE  WellFormed(r)
<1>1. ASSUME NEW c, r \in AfterNew(c)
      PROVE  WellFormed(r)
  <2>1. \/ r \in {<<>>, <<Do("start")>>, <<L("new", NoTrans, "version")>>} \cup Back
        \/ r \in {<<>>} \cup Ended \cup Finishing
        \/ r \in {<<L("new", NoTrans, "dump"), Do("time_assert")>>, <<Do("time_assert")>>}
    BY <1>1 DEF AfterNew
  <2> QED
    BY <2>1, NothingIsWellFormed, OpIsWellFormed, BackIsWellFormed, EndedIsWellFormed, FinishingIsWellFormed
<1>2. \/ r \in AfterNew(l.ctx)
      \/ r \in Back \cup Ended \cup Finishing
      \/ r \in {<<>>, <<Do("time_assert")>>, <<L("new", NoTrans, "STOP_LOG")>>}
      \/ \E f \in Finishing : r = <<Do("event_mode")>> \o f
  BY DEF Rests
<1> QED
  BY <1>1, <1>2, NothingIsWellFormed, OpIsWellFormed, BackIsWellFormed, EndedIsWellFormed,
     FinishingIsWellFormed, ModeIsWellFormed

------------------------------------------------------------------------------
(* Steps of a handler.                                                     *)

LEMMA HeadAndTail ==
  ASSUME NEW S, NEW r \in Seq(S), r # <<>>
  PROVE  /\ Head(r) \in S /\ Tail(r) \in Seq(S)
         /\ Range(r) = {Head(r)} \cup Range(Tail(r))
<1> DEFINE s == Tail(r)
           h == Head(r)
<1>1. /\ Len(r) \in Nat \ {0} /\ Len(s) = Len(r) - 1
      /\ \A i \in 1 .. Len(r) - 1 : s[i] = r[i + 1]
      /\ r[1] = h /\ h \in S /\ s \in Seq(S)
  OBVIOUS
<1> HIDE DEF s, h
<1>2. ASSUME NEW i \in DOMAIN r
      PROVE  r[i] \in {h} \cup Range(s)
  <2>1. CASE i = 1
    BY <1>1, <2>1
  <2>2. CASE i # 1
    <3>1. i - 1 \in DOMAIN s /\ (i - 1) + 1 = i /\ i - 1 \in 1 .. Len(r) - 1
      BY <1>1, <2>2
    <3> QED
      BY <1>1, <3>1 DEF Range
  <2> QED
    BY <2>1, <2>2
<1>3. h \in Range(r)
  BY <1>1 DEF Range
<1>4. ASSUME NEW i \in DOMAIN s
      PROVE  s[i] \in Range(r)
  <2>1. i + 1 \in DOMAIN r /\ s[i] = r[i + 1]
    BY <1>1
  <2> QED
    BY <2>1 DEF Range
<1>5. Range(r) = {h} \cup Range(s)
  BY <1>2, <1>3, <1>4 DEF Range
<1> QED
  BY <1>1, <1>5 DEF s, h

LEMMA ShapeIs ==
  ASSUME Shape, todo # <<>>
  PROVE  /\ This \in Labels /\ Tail(todo) \in Rests(This) /\ WellFormed(Tail(todo))
         /\ Left = {This} \cup LeftToCallers /\ LeftToCallers = Range(Tail(todo))
         /\ LeftToCallers \subseteq Labels
         /\ \A l \in LeftToCallers : CallerLabel(l)
<1>1. This \in Labels /\ Tail(todo) \in Seq(Labels) /\ Range(todo) = {This} \cup Range(Tail(todo))
  BY HeadAndTail DEF Shape, This
<1>2. WellFormed(Tail(todo)) /\ Tail(todo) \in Rests(This)
  BY <1>1, RestsAreWellFormed DEF Shape
<1>4. LeftToCallers = Range(Tail(todo))
  BY DEF LeftToCallers
<1>5. Range(Tail(todo)) \subseteq Labels
  BY <1>1 DEF Range
<1> QED
  BY <1>1, <1>2, <1>4, <1>5 DEF Left, WellFormed

\* The first call is replaced by another, by none, or by the last ones.
LEMMA PushOne ==
  ASSUME Shape, todo # <<>>, NEW l \in Labels, Then(<<l>>), Tail(todo) \in Rests(l)
  PROVE  /\ Shape' /\ todo' # <<>> /\ This' = l
         /\ Left' = {l} \cup LeftToCallers /\ LeftToCallers' = LeftToCallers
<1>1. Tail(todo) \in Seq(Labels) /\ LeftToCallers = Range(Tail(todo))
  BY ShapeIs DEF WellFormed
<1>2. todo' = <<l>> \o Tail(todo)
  BY DEF Then
<1>3. /\ todo' \in Seq(Labels) /\ todo' # <<>> /\ Head(todo') = l /\ Tail(todo') = Tail(todo)
      /\ Range(todo') = {l} \cup Range(Tail(todo))
  BY <1>1, <1>2, MoreLabels
<1>4. Shape' /\ todo' # <<>> /\ This' = l
  BY <1>3 DEF Shape, This
<1> QED
  BY <1>1, <1>3, <1>4 DEF Left, LeftToCallers

LEMMA Pop ==
  ASSUME Shape, todo # <<>>, Then(<<>>)
  PROVE  /\ Shape' /\ Left' = LeftToCallers /\ LeftToCallers' \subseteq LeftToCallers
<1>1. WellFormed(Tail(todo)) /\ LeftToCallers = Range(Tail(todo)) /\ Tail(todo) \in Seq(Labels)
  BY ShapeIs DEF WellFormed
<1>2. todo' = Tail(todo)
  BY <1>1, NoMoreLabels DEF Then
<1>3. Shape'
  BY <1>1, <1>2 DEF Shape, This, WellFormed
<1>4. Left' = LeftToCallers
  BY <1>1, <1>2 DEF Left
<1>5. todo' # <<>> => Range(Tail(todo')) \subseteq Range(todo')
  BY <1>1, <1>2, HeadAndTail
<1> QED
  BY <1>3, <1>4, <1>5 DEF LeftToCallers, Left

\* The labels are all of the handler: of a new one, or of one that nobody waits for.
LEMMA LastOne ==
  ASSUME NEW l \in Labels, todo' = <<l>>, <<>> \in Rests(l)
  PROVE  Shape' /\ Left' = {l} /\ LeftToCallers' = {} /\ todo' # <<>> /\ This' = l
<1>1. todo' \in Seq(Labels) /\ todo' # <<>> /\ Head(todo') = l /\ Tail(todo') = <<>>
      /\ Range(todo') = {l} /\ Range(<<>>) = {}
  BY OneLabel
<1> QED
  BY <1>1 DEF Shape, This, Left, LeftToCallers

LEMMA LastTwo ==
  ASSUME NEW l \in Labels, NEW m \in Labels, todo' = <<l, m>>, <<m>> \in Rests(l)
  PROVE  Shape' /\ Left' = {l, m} /\ LeftToCallers' = {m} /\ todo' # <<>> /\ This' = l
<1>1. /\ todo' \in Seq(Labels) /\ todo' # <<>> /\ Head(todo') = l /\ Tail(todo') = <<m>>
      /\ Range(todo') = {l, m} /\ Range(<<m>>) = {m}
  BY TwoLabels
<1> QED
  BY <1>1 DEF Shape, This, Left, LeftToCallers

LEMMA LastThree ==
  ASSUME NEW l \in Labels, NEW m \in Labels, NEW n \in Labels, todo' = <<l, m, n>>, <<m, n>> \in Rests(l)
  PROVE  Shape' /\ Left' = {l, m, n} /\ LeftToCallers' = {m, n} /\ todo' # <<>> /\ This' = l
<1>1. /\ todo' \in Seq(Labels) /\ todo' # <<>> /\ Head(todo') = l /\ Tail(todo') = <<m, n>>
      /\ Range(todo') = {l, m, n}
  BY ThreeLabels
<1>2. Range(<<m, n>>) = {m, n}
  BY TwoLabels
<1> QED
  BY <1>1, <1>2 DEF Shape, This, Left, LeftToCallers

LEMMA NoneLeft ==
  ASSUME todo' = <<>>
  PROVE  Shape' /\ Left' = {} /\ LeftToCallers' = {}
<1>1. Range(<<>>) = {} /\ <<>> \in Seq(Labels)
  BY DEF Range
<1> QED
  BY <1>1 DEF Shape, Left, LeftToCallers

------------------------------------------------------------------------------
(* The queue.                                                              *)

LEMMA RemoveAtElements ==
  ASSUME NEW S, NEW s \in Seq(S), NEW i \in DOMAIN s
  PROVE  /\ RemoveAt(s, i) \in Seq(S)
         /\ Len(RemoveAt(s, i)) = Len(s) - 1
         /\ \A k \in 1 .. Len(s) - 1 :
              RemoveAt(s, i)[k] = IF k < i THEN s[k] ELSE s[k + 1]
<1>1. i \in 1 .. Len(s) /\ Len(s) \in Nat
  OBVIOUS
<1>2. /\ SubSeq(s, 1, i - 1) \in Seq(S)
      /\ Len(SubSeq(s, 1, i - 1)) = i - 1
      /\ \A k \in 1 .. i - 1 : SubSeq(s, 1, i - 1)[k] = s[k]
  BY <1>1
<1>3. /\ SubSeq(s, i + 1, Len(s)) \in Seq(S)
      /\ Len(SubSeq(s, i + 1, Len(s))) = Len(s) - i
      /\ \A k \in 1 .. Len(s) - i : SubSeq(s, i + 1, Len(s))[k] = s[i + k]
  BY <1>1
<1> DEFINE a == SubSeq(s, 1, i - 1)
           b == SubSeq(s, i + 1, Len(s))
<1>4. a \in Seq(S) /\ Len(a) = i - 1 /\ \A k \in 1 .. i - 1 : a[k] = s[k]
  BY <1>2
<1>5. b \in Seq(S) /\ Len(b) = Len(s) - i /\ \A k \in 1 .. Len(s) - i : b[k] = s[i + k]
  BY <1>3
<1>6. RemoveAt(s, i) = a \o b
  BY DEF RemoveAt
<1> HIDE DEF a, b
<1>7. /\ a \o b \in Seq(S)
      /\ Len(a \o b) = Len(s) - 1
      /\ \A k \in 1 .. Len(s) - 1 : (a \o b)[k] = IF k <= i - 1 THEN a[k] ELSE b[k - (i - 1)]
  <2>1. /\ a \o b \in Seq(S) /\ Len(a \o b) = Len(a) + Len(b)
        /\ \A k \in 1 .. Len(a) + Len(b) : (a \o b)[k] = IF k <= Len(a) THEN a[k] ELSE b[k - Len(a)]
    BY <1>4, <1>5, ConcatProperties
  <2>2. Len(a) + Len(b) = Len(s) - 1
    BY <1>1, <1>4, <1>5
  <2> QED
    BY <1>4, <2>1, <2>2
<1>8. ASSUME NEW k \in 1 .. Len(s) - 1
      PROVE  (a \o b)[k] = IF k < i THEN s[k] ELSE s[k + 1]
  <2>1. CASE k < i
    BY <1>1, <1>4, <1>7, <2>1
  <2>2. CASE ~(k < i)
    <3>1. (a \o b)[k] = b[k - (i - 1)] /\ k - (i - 1) \in 1 .. Len(s) - i
      BY <1>1, <1>7, <2>2
    <3>2. i + (k - (i - 1)) = k + 1
      BY <1>1
    <3> QED
      BY <1>5, <2>2, <3>1, <3>2
  <2> QED
    BY <2>1, <2>2
<1> QED
  BY <1>6, <1>7, <1>8

\* ll_remove(), of a queue in which each object is once.
LEMMA WithoutIs ==
  ASSUME transactions_ \in Seq(Trans), IsInjective(transactions_), NEW t,
         transactions_' = Without(t)
  PROVE  transactions_' \in Seq(Trans) /\ IsInjective(transactions_') /\ Queued' = Queued \ {t}
<1>1. DOMAIN transactions_ = 1 .. Len(transactions_) /\ Len(transactions_) \in Nat
  OBVIOUS
<1>2. CASE t \notin Queued
  BY <1>2 DEF Without, Queued
<1>3. CASE t \in Queued
  <2> DEFINE n == Len(transactions_)
             p == Place(t)
  <2>1. p \in DOMAIN transactions_ /\ transactions_[p] = t
    BY <1>3 DEF Queued, Place
  <2>2. transactions_' = RemoveAt(transactions_, p)
    BY <1>3 DEF Without
  <2> HIDE DEF p
  <2>3. /\ transactions_' \in Seq(Trans) /\ Len(transactions_') = n - 1
        /\ \A k \in 1 .. n - 1 :
             transactions_'[k] = IF k < p THEN transactions_[k] ELSE transactions_[k + 1]
    BY <2>1, <2>2, RemoveAtElements
  <2> DEFINE Old(k) == IF k < p THEN k ELSE k + 1
  <2>4. DOMAIN transactions_' = 1 .. n - 1 /\ n \in Nat /\ p \in 1 .. n
    BY <1>1, <2>1, <2>3
  <2>5. ASSUME NEW k \in DOMAIN transactions_'
        PROVE  Old(k) \in DOMAIN transactions_ /\ Old(k) # p /\ transactions_'[k] = transactions_[Old(k)]
    BY <1>1, <2>3, <2>4, <2>5
  <2>6. \A j, k \in DOMAIN transactions_' : Old(j) = Old(k) => j = k
    BY <2>4
  <2>7. ASSUME NEW j \in DOMAIN transactions_, j # p
        PROVE  \E k \in DOMAIN transactions_' : transactions_'[k] = transactions_[j]
    <3>1. CASE j < p
      BY <1>1, <2>3, <2>4, <3>1
    <3>2. CASE j > p
      <4>1. j - 1 \in 1 .. n - 1 /\ ~(j - 1 < p) /\ (j - 1) + 1 = j
        BY <1>1, <2>4, <3>2
      <4> QED
        BY <2>3, <2>4, <4>1
    <3> QED
      BY <1>1, <2>4, <2>7, <3>1, <3>2
  <2> HIDE DEF Old
  <2>8. IsInjective(transactions_')
    BY <2>5, <2>6 DEF IsInjective
  <2>9. \A j \in DOMAIN transactions_ : transactions_[j] = t => j = p
    BY <2>1 DEF IsInjective
  <2>10. Queued' = Queued \ {t}
    <3>1. ASSUME NEW k \in DOMAIN transactions_'
          PROVE  transactions_'[k] \in Queued \ {t}
      BY <2>5, <2>9 DEF Queued
    <3>2. ASSUME NEW j \in DOMAIN transactions_, transactions_[j] # t
          PROVE  transactions_[j] \in Queued'
      BY <2>1, <2>7, <3>2 DEF Queued
    <3> QED
      BY <3>1, <3>2 DEF Queued
  <2> QED
    BY <2>3, <2>8, <2>10
<1> QED
  BY <1>2, <1>3

LEMMA AppendIs ==
  ASSUME transactions_ \in Seq(Trans), IsInjective(transactions_), NEW t \in Trans, t \notin Queued,
         transactions_' = Append(transactions_, t)
  PROVE  transactions_' \in Seq(Trans) /\ IsInjective(transactions_') /\ Queued' = Queued \cup {t}
<1> DEFINE n == Len(transactions_)
<1>1. /\ transactions_' \in Seq(Trans) /\ n \in Nat
      /\ DOMAIN transactions_' = 1 .. n + 1 /\ DOMAIN transactions_ = 1 .. n
      /\ transactions_'[n + 1] = t
      /\ \A i \in 1 .. n : transactions_'[i] = transactions_[i]
  OBVIOUS
<1>2. \A i \in 1 .. n + 1 : i = n + 1 \/ i \in 1 .. n
  BY <1>1
<1>3. n + 1 \in 1 .. n + 1 /\ \A i \in 1 .. n : i \in 1 .. n + 1
  BY <1>1
<1> HIDE DEF n
<1>4. IsInjective(transactions_')
  BY <1>1, <1>2 DEF IsInjective, Queued
<1>5. Queued' = Queued \cup {t}
  <2>1. ASSUME NEW i \in DOMAIN transactions_'
        PROVE  transactions_'[i] \in Queued \cup {t}
    BY <1>1, <1>2 DEF Queued
  <2>2. ASSUME NEW i \in DOMAIN transactions_
        PROVE  transactions_[i] \in Queued'
    BY <1>1, <1>3 DEF Queued
  <2>3. t \in Queued'
    BY <1>1, <1>3 DEF Queued
  <2> QED
    BY <2>1, <2>2, <2>3 DEF Queued
<1> QED
  BY <1>1, <1>4, <1>5

LEMMA AfterIs ==
  ASSUME transactions_ \in Seq(Trans), IsInjective(transactions_), NEW t \in Queued
  PROVE  After(t) = NoTrans \/ After(t) \in Queued \ {t}
<1>1. Place(t) \in DOMAIN transactions_ /\ transactions_[Place(t)] = t
  BY DEF Queued, Place
<1> DEFINE p == Place(t)
<1> HIDE DEF p
<1>2. CASE p # Len(transactions_)
  <2>1. p + 1 \in DOMAIN transactions_ /\ p + 1 # p
    BY <1>1, <1>2 DEF p
  <2>2. transactions_[p + 1] \in Queued /\ transactions_[p + 1] # t
    BY <1>1, <2>1 DEF Queued, IsInjective, p
  <2> QED
    BY <1>2, <2>2 DEF After, p
<1>3. CASE p = Len(transactions_)
  BY <1>3 DEF After, p
<1> QED
  BY <1>2, <1>3

LEMMA FirstIs ==
  ASSUME transactions_ \in Seq(Trans)
  PROVE  First \in Queued \cup {NoTrans}
<1>1. CASE transactions_ = <<>>
  BY <1>1 DEF First
<1>2. CASE transactions_ # <<>>
  <2>1. 1 \in DOMAIN transactions_ /\ First = transactions_[1]
    BY <1>2 DEF First
  <2> QED
    BY <2>1 DEF Queued
<1> QED
  BY <1>1, <1>2

LEMMA QueuedTrans ==
  ASSUME transactions_ \in Seq(Trans)
  PROVE  Queued \subseteq Trans
BY DEF Queued

------------------------------------------------------------------------------
(* The AT controller, and the types.                                       *)

LEMMA ThisObject ==
  ASSUME Shape, NEW ops, At(ops)
  PROVE  /\ todo # <<>> /\ This \in Labels /\ This.op \in ops
         /\ This.op \in CallOps => This.t \in Trans /\ This.ctx \in NewCtx \cup QueueCtx
         /\ This.op \in ObjectOps \cup {"finish", "result"} => This.t \in Trans
         /\ This.op = "finish" => This.ctx \in Results
         /\ This.op = "result" => This.ctx \in {"OK", "FAIL"}
<1>1. todo # <<>> /\ This.op \in ops
  BY DEF At
<1>2. This \in Labels
  BY <1>1, ShapeIs
<1> DEFINE l == This
<1> HIDE DEF l
<1>3. l \in Labels
  BY <1>2 DEF l
<1>4. /\ l.op \in CallOps => l.t \in Trans /\ l.ctx \in NewCtx \cup QueueCtx
      /\ l.op \in ObjectOps \cup {"finish", "result"} => l.t \in Trans
      /\ l.op = "finish" => l.ctx \in Results
      /\ l.op = "result" => l.ctx \in {"OK", "FAIL"}
  BY <1>3, LabelIs
<1> QED
  BY <1>1, <1>2, <1>4 DEF l

LEMMA CommandIsAction ==
  ASSUME NEW ty
  PROVE  CommandOf(ty) \in Actions
BY DEF CommandOf, Actions

LEMMA AtSteps ==
  ASSUME Shape, [Next]_modemVars
  PROVE  [AtNext]_atVars
<1>1. CASE ExecuteCommand
  <2>1. This.t \in Trans
    BY <1>1, ThisObject DEF ExecuteCommand, CallOps
  <2>2. This.t \in Client /\ CommandOf(type_[This.t]) \in Actions
    BY <2>1, TransAssumption, CommandIsAction
  <2>3. StartCommand(This.t, CommandOf(type_[This.t])) \/ RefuseCommand(CommandOf(type_[This.t]))
          \/ UNCHANGED atVars
    BY <1>1 DEF ExecuteCommand
  <2> QED
    BY <2>2, <2>3 DEF AtNext
<1>2. CASE CancelTrans
  BY <1>2 DEF CancelTrans, AtNext
<1>3. CASE Answer
  BY <1>3 DEF Answer, AtNext
<1>4. CASE AtTimeout
  BY <1>4 DEF AtTimeout, AtNext
<1>5. CASE TickArrives \/ AtReset
  BY <1>5 DEF TickArrives, AtReset, AtNext
<1>6. CASE NewTrans \/ NewBegun \/ NewEnded \/ ExecuteAtOnce \/ ExecuteDiag \/ ExecuteLastLog
  BY <1>6 DEF NewTrans, NewBegun, NewEnded, ExecuteAtOnce, ExecuteDiag, ExecuteLastLog
<1>7. CASE Finish \/ Begin \/ Loop \/ FrontStarts \/ LoopReturn \/ Notify \/ EndDump
  BY <1>7 DEF Finish, Begin, Loop, FrontStarts, LoopReturn, Notify, EndDump
<1>8. CASE Start \/ Stop \/ DropQuery \/ EventMode \/ TimeAssert \/ CommandResult \/ ExportResult
  BY <1>8 DEF Start, Stop, DropQuery, EventMode, TimeAssert, CommandResult, ExportResult
<1>9. CASE DiagTimeout \/ DiagData \/ LastLogTimeout \/ EventLogData \/ RequeryModemVer \/ StartQuery
  BY <1>9 DEF DiagTimeout, DiagData, LastLogTimeout, EventLogData, RequeryModemVer, StartQuery
<1>10. CASE ClientRequest \/ ClientLeaves \/ ModemEvent \/ ProcessAssert \/ ProcessAlive
  BY <1>10 DEF ClientRequest, ClientLeaves, ModemEvent, ProcessAssert, ProcessAlive, Event
<1>11. CASE UNCHANGED modemVars
  BY <1>11 DEF modemVars
<1> QED
  BY <1>1, <1>2, <1>3, <1>4, <1>5, <1>6, <1>7, <1>8, <1>9, <1>10, <1>11 DEF Next, MainStep

LEMMA AtStep ==
  ASSUME AtInv, Shape, [Next]_modemVars
  PROVE  AtInv'
BY AtSteps, AtStepInv

------------------------------------------------------------------------------
\* The objects and the queue, the devices, and the queries.

QueueTypeOK ==
  /\ transactions_ \in Seq(Trans)
  /\ type_ \in [Trans -> Types \cup {"FREE"}]
  /\ state_ \in [Trans -> {"NOT_BEGIN", "EXECUTING", "SUCCESS", "FAILURE"}]
DeviceTypeOK ==
  /\ armed \subseteq Trans /\ at_finished_ \subseteq Trans /\ tick \subseteq Trans
  /\ {m_diag_handler, cur_diag_trans_} \subseteq Trans \cup {NoTrans}
  /\ m_cp_state \in {"NOT_WORKING", "WORKING", "DUMP", "SAVE_SLEEP_LOG", "QUERY_VER"}
LogTypeOK ==
  /\ m_evt \in CpEvents \cup {"CE_NONE"}
  /\ log_mode_ \in {"LM_OFF", "LM_NORMAL", "LM_EVENT"}
  /\ listening \in BOOLEAN
  /\ events \in 0 .. MaxEvents
QueryTypeOK ==
  /\ m_ver_state \in {"NOT_BEGIN", "QUERY", "GOT", "FAILED"}
  /\ requeries \in Nat
  /\ retry \in BOOLEAN
  /\ trans_ts_ \in Trans \cup {NoTrans}
  /\ trans_state_ \in {"NOT_BEGIN", "EXECUTING", "START_FAIL", "EXECUTING_FAIL", "SUCCESS"}
  /\ ts \in {"none", "tick", "zero"}

LEMMA TypeParts ==
  ModemTypeOK <=> AtTypeOK /\ QueueTypeOK /\ DeviceTypeOK /\ LogTypeOK /\ QueryTypeOK
BY DEF ModemTypeOK, QueueTypeOK, DeviceTypeOK, LogTypeOK, QueryTypeOK

LEMMA TypeForIsType ==
  ASSUME NEW c \in NewCtx
  PROVE  TypeFor(c) \in Types
BY DEF NewCtx, Requests, TypeFor, Types, DiagTypes, AtTypes

LEMMA UnusedIs ==
  /\ Unused \subseteq Trans
  /\ \A t \in Unused : type_[t] = "FREE" /\ t \notin armed
                         /\ t # m_diag_handler /\ t # cur_diag_trans_ /\ t # client_
BY DEF Unused

LEMMA WithoutType ==
  ASSUME transactions_ \in Seq(Trans), NEW t
  PROVE  Without(t) \in Seq(Trans)
<1>1. CASE t \in Queued
  <2>1. Place(t) \in DOMAIN transactions_
    BY <1>1 DEF Queued, Place
  <2> QED
    BY <1>1, <2>1, RemoveAtElements DEF Without
<1> QED
  BY <1>1 DEF Without

\* How the fields of the objects are changed, and the queue.
LEMMA FreeType ==
  ASSUME QueueTypeOK, NEW t, Free(t)
  PROVE  /\ type_' \in [Trans -> Types \cup {"FREE"}]
         /\ state_' \in [Trans -> {"NOT_BEGIN", "EXECUTING", "SUCCESS", "FAILURE"}]
BY DEF QueueTypeOK, Free

LEMMA SetStateType ==
  ASSUME QueueTypeOK, NEW t, NEW s \in {"NOT_BEGIN", "EXECUTING", "SUCCESS", "FAILURE"}, SetState(t, s)
  PROVE  state_' \in [Trans -> {"NOT_BEGIN", "EXECUTING", "SUCCESS", "FAILURE"}]
BY DEF QueueTypeOK, SetState

LEMMA NewTransIs ==
  ASSUME Shape, NewTrans
  PROVE  \E t \in Unused :
           /\ This.ctx \in NewCtx
           /\ type_' = [type_ EXCEPT ![t] = TypeFor(This.ctx)]
           /\ \/ /\ Then(<<L("execute", t, This.ctx)>>)
                 /\ transactions_' = transactions_
              \/ /\ Then(<<L("queued", t, This.ctx)>>)
                 /\ transactions_' = Append(transactions_, t)
<1> DEFINE t == CHOOSE x \in Unused : TRUE
<1>1. t \in Unused
  BY DEF NewTrans
<1>2. This.op = "new" /\ This \in Labels
  BY ThisObject DEF NewTrans
<1> DEFINE l == This
<1> HIDE DEF l
<1>3. l.ctx \in NewCtx
  BY <1>2, LabelIs DEF l
<1>4. /\ type_' = [type_ EXCEPT ![t] = TypeFor(This.ctx)]
      /\ \/ /\ Then(<<L("execute", t, This.ctx)>>)
            /\ transactions_' = transactions_
         \/ /\ Then(<<L("queued", t, This.ctx)>>)
            /\ transactions_' = Append(transactions_, t)
  <2> HIDE DEF t
  <2> QED
    BY DEF NewTrans, t
<1> HIDE DEF t
<1> QED
  BY <1>1, <1>3, <1>4 DEF l

LEMMA QueueTypeStep ==
  ASSUME QueueTypeOK, Shape, [Next]_modemVars
  PROVE  QueueTypeOK'
<1> DEFINE States == {"NOT_BEGIN", "EXECUTING", "SUCCESS", "FAILURE"}
<1>1. CASE NewTrans
  <2>1. PICK t \in Unused :
          /\ This.ctx \in NewCtx
          /\ type_' = [type_ EXCEPT ![t] = TypeFor(This.ctx)]
          /\ transactions_' = transactions_ \/ transactions_' = Append(transactions_, t)
    BY <1>1, NewTransIs
  <2>2. TypeFor(This.ctx) \in Types /\ t \in Trans
    BY <2>1, TypeForIsType, UnusedIs
  <2>3. state_' = state_
    BY <1>1 DEF NewTrans
  <2> QED
    BY <2>1, <2>2, <2>3 DEF QueueTypeOK
<1>2. CASE NewBegun
  <2>1. This.t \in Trans
    BY <1>2, ThisObject DEF NewBegun, CallOps
  <2>2. UNCHANGED <<type_, state_>> /\ (transactions_' = transactions_ \/ transactions_' = Append(transactions_, This.t))
    BY <1>2 DEF NewBegun
  <2> QED
    BY <2>1, <2>2 DEF QueueTypeOK
<1>3. CASE NewEnded \/ Notify \/ CancelTrans
  <2>1. PICK t : Free(t)
    BY <1>3 DEF NewEnded, Notify, CancelTrans
  <2>2. transactions_' = transactions_ \/ \E u : transactions_' = Without(u)
    BY <1>3 DEF NewEnded, Notify, CancelTrans
  <2> QED
    BY <2>1, <2>2, FreeType, WithoutType DEF QueueTypeOK
<1>4. CASE ExecuteAtOnce \/ ExecuteDiag \/ ExecuteLastLog
  <2>1. PICK t : \E s \in States : SetState(t, s)
    BY <1>4 DEF ExecuteAtOnce, ExecuteDiag, ExecuteLastLog
  <2>2. UNCHANGED <<transactions_, type_>>
    BY <1>4 DEF ExecuteAtOnce, ExecuteDiag, ExecuteLastLog
  <2> QED
    BY <2>1, <2>2, SetStateType DEF QueueTypeOK
<1>5. CASE ExecuteCommand
  <2>1. This.t \in Trans
    BY <1>5, ThisObject DEF ExecuteCommand, CallOps
  <2>2. PICK s : s \in {"EXECUTING", "FAILURE", state_[This.t]} /\ SetState(This.t, s)
    BY <1>5 DEF ExecuteCommand
  <2>3. s \in States
    BY <2>1, <2>2 DEF QueueTypeOK
  <2>4. UNCHANGED <<transactions_, type_>>
    BY <1>5 DEF ExecuteCommand
  <2> QED
    BY <2>2, <2>3, <2>4, SetStateType DEF QueueTypeOK
<1>6. CASE Finish
  <2>0. At({"finish"})
    BY <1>6 DEF Finish
  <2>1. This.ctx \in Results
    BY <2>0, ThisObject
  <2>2. SetState(This.t, This.ctx) /\ transactions_' = Without(This.t) /\ type_' = type_
    BY <1>6 DEF Finish
  <2> QED
    BY <2>1, <2>2, SetStateType, WithoutType DEF QueueTypeOK, Results
<1>7. CASE LoopReturn
  <2>1. transactions_' = transactions_ \/ transactions_' = Without(This.t)
    BY <1>7 DEF LoopReturn
  <2>2. UNCHANGED <<type_, state_>>
    BY <1>7 DEF LoopReturn
  <2> QED
    BY <2>1, <2>2, WithoutType DEF QueueTypeOK
<1>8. CASE Stop \/ DropQuery
  <2>1. UNCHANGED queueVars
          \/ \E q : /\ transactions_' \in {transactions_, Without(q)}
                    /\ UNCHANGED <<type_, state_>> \/ Free(q)
    BY <1>8 DEF Stop, DropQuery, StopQuery, queueVars
  <2> QED
    BY <2>1, FreeType, WithoutType DEF QueueTypeOK, queueVars
<1>9. CASE UNCHANGED queueVars
  BY <1>9 DEF QueueTypeOK, queueVars
<1>10. CASE Begin \/ Loop \/ FrontStarts \/ EndDump \/ Start \/ EventMode \/ TimeAssert \/ CommandResult \/ ExportResult
  <2>1. UNCHANGED queueVars
    BY <1>10 DEF Begin, Loop, FrontStarts, EndDump, Start, EventMode, TimeAssert, CommandResult, ExportResult
  <2> QED
    BY <1>9, <2>1
<1>11. CASE Answer \/ AtTimeout \/ TickArrives \/ AtReset \/ DiagTimeout \/ DiagData \/ LastLogTimeout \/ EventLogData
  <2>1. UNCHANGED queueVars
    BY <1>11 DEF Answer, AtTimeout, TickArrives, AtReset, DiagTimeout, DiagData, LastLogTimeout, EventLogData, transVars
  <2> QED
    BY <1>9, <2>1
<1>12. CASE RequeryModemVer \/ StartQuery \/ ClientRequest \/ ClientLeaves \/ ModemEvent \/ ProcessAssert \/ ProcessAlive
  <2>1. UNCHANGED queueVars
    BY <1>12 DEF RequeryModemVer, StartQuery, ClientRequest, ClientLeaves, ModemEvent, ProcessAssert, ProcessAlive
  <2> QED
    BY <1>9, <2>1
<1>13. CASE UNCHANGED modemVars
  BY <1>9, <1>13 DEF modemVars, transVars
<1> QED
  BY <1>1, <1>2, <1>3, <1>4, <1>5, <1>6, <1>7, <1>8, <1>10, <1>11, <1>12, <1>13 DEF Next, MainStep

LEMMA DiagTypes4 ==
  ASSUME NEW ty
  PROVE  AfterDiag(ty) \in {"NOT_WORKING", "WORKING"} /\ DiagState(ty) \in {"DUMP", "SAVE_SLEEP_LOG", "QUERY_VER"}
BY DEF AfterDiag, DiagState

LEMMA DeviceTypeStep ==
  ASSUME AtTypeOK, QueueTypeOK, DeviceTypeOK, Shape, [Next]_modemVars
  PROVE  DeviceTypeOK'
<1>1. CASE NewTrans \/ NewBegun \/ ExecuteAtOnce \/ Finish \/ Begin \/ Loop \/ FrontStarts \/ LoopReturn
  BY <1>1 DEF NewTrans, NewBegun, ExecuteAtOnce, Finish, Begin, Loop, FrontStarts, LoopReturn,
              DeviceTypeOK, diagVars, ownVars
<1>2. CASE NewEnded \/ Notify \/ CancelTrans
  BY <1>2 DEF NewEnded, Notify, CancelTrans, Free, DeviceTypeOK, diagVars
<1>3. CASE ExecuteDiag
  <2>1. This.t \in Trans
    BY <1>3, ThisObject DEF ExecuteDiag, CallOps
  <2> QED
    BY <1>3, <2>1, DiagTypes4 DEF ExecuteDiag, DeviceTypeOK, diagVars
<1>4. CASE ExecuteCommand \/ ExecuteLastLog
  <2>1. This.t \in Trans
    BY <1>4, ThisObject DEF ExecuteCommand, ExecuteLastLog, CallOps
  <2>2. UNCHANGED <<diagVars, at_finished_, tick>> /\ armed' \in {armed, armed \cup {This.t}}
    BY <1>4 DEF ExecuteCommand, ExecuteLastLog
  <2> QED
    BY <2>1, <2>2 DEF DeviceTypeOK, diagVars
<1>5. CASE EndDump \/ Start \/ EventMode \/ TimeAssert \/ CommandResult
  BY <1>5 DEF EndDump, Start, EventMode, TimeAssert, CommandResult, DeviceTypeOK, diagVars, ownVars
<1>6. CASE Stop
  BY <1>6, DiagTypes4 DEF Stop, StopQuery, Free, DeviceTypeOK, diagVars, ownVars
<1>7. CASE DropQuery
  BY <1>7, DiagTypes4 DEF DropQuery, StopDiagTrans, Free, DeviceTypeOK, diagVars, ownVars
<1>8. CASE ExportResult
  <2>1. This.t \in Trans
    BY <1>8, ThisObject DEF ExportResult
  <2> QED
    BY <1>8, <2>1 DEF ExportResult, DeviceTypeOK, diagVars
<1>9. CASE Answer \/ AtTimeout \/ AtReset \/ LastLogTimeout \/ EventLogData
  BY <1>9 DEF Answer, AtTimeout, AtReset, LastLogTimeout, EventLogData, DeviceTypeOK, diagVars, ownVars, transVars
<1>10. CASE TickArrives
  <2>1. client_ \in Trans \cup {NoTrans}
    BY TransAssumption DEF AtTypeOK
  <2>2. UNCHANGED <<diagVars, armed, at_finished_>>
          /\ (tick' = tick \/ (client_ # NoClient /\ tick' = tick \cup {client_}))
    BY <1>10 DEF TickArrives
  <2> QED
    BY <2>1, <2>2, TransAssumption DEF DeviceTypeOK, diagVars
<1>11. CASE DiagTimeout \/ DiagData
  BY <1>11, DiagTypes4 DEF DiagTimeout, DiagData, EndDiag, StopDiagTrans, DeviceTypeOK, diagVars
<1>12. CASE RequeryModemVer \/ StartQuery \/ ClientRequest \/ ClientLeaves \/ ModemEvent \/ ProcessAssert \/ ProcessAlive
  BY <1>12 DEF RequeryModemVer, StartQuery, ClientRequest, ClientLeaves, ModemEvent, ProcessAssert, ProcessAlive,
               DeviceTypeOK, diagVars, ownVars
<1>13. CASE UNCHANGED modemVars
  BY <1>13 DEF modemVars, transVars, DeviceTypeOK, diagVars, ownVars
<1> QED
  BY <1>1, <1>2, <1>3, <1>4, <1>5, <1>6, <1>7, <1>8, <1>9, <1>10, <1>11, <1>12, <1>13 DEF Next, MainStep

LEMMA LogTypeStep ==
  ASSUME LogTypeOK, [Next]_modemVars
  PROVE  LogTypeOK'
<1>1. CASE Finish \/ Start \/ Stop \/ EventMode
  BY <1>1 DEF Finish, Start, Stop, EventMode, LogTypeOK, logVars
<1>2. CASE NewTrans \/ NewBegun \/ NewEnded \/ ExecuteAtOnce \/ ExecuteDiag \/ ExecuteCommand \/ ExecuteLastLog
  BY <1>2 DEF NewTrans, NewBegun, NewEnded, ExecuteAtOnce, ExecuteDiag, ExecuteCommand, ExecuteLastLog,
              LogTypeOK, logVars
<1>3. CASE Begin \/ Loop \/ FrontStarts \/ LoopReturn \/ Notify \/ CancelTrans \/ EndDump
  BY <1>3 DEF Begin, Loop, FrontStarts, LoopReturn, Notify, CancelTrans, EndDump, LogTypeOK, logVars
<1>4. CASE DropQuery \/ TimeAssert \/ CommandResult \/ ExportResult
  BY <1>4 DEF DropQuery, TimeAssert, CommandResult, ExportResult, LogTypeOK, logVars
<1>5. CASE Answer \/ AtTimeout \/ TickArrives \/ AtReset \/ DiagTimeout \/ DiagData \/ LastLogTimeout \/ EventLogData
  BY <1>5 DEF Answer, AtTimeout, TickArrives, AtReset, DiagTimeout, DiagData, LastLogTimeout, EventLogData,
              transVars, LogTypeOK, logVars
<1>6. CASE RequeryModemVer \/ StartQuery
  BY <1>6 DEF RequeryModemVer, StartQuery, LogTypeOK, logVars
<1>7. CASE ClientRequest \/ ClientLeaves \/ ModemEvent \/ ProcessAssert \/ ProcessAlive
  <2>1. events < MaxEvents /\ events' = events + 1
    BY <1>7 DEF ClientRequest, ClientLeaves, ModemEvent, ProcessAssert, ProcessAlive, Event
  <2>2. log_mode_' = log_mode_ /\ listening' = listening /\ m_evt' \in {m_evt} \cup CpEvents
    BY <1>7 DEF ClientRequest, ClientLeaves, ModemEvent, ProcessAssert, ProcessAlive, logVars
  <2>3. events' \in 0 .. MaxEvents
    BY <2>1, TransAssumption DEF LogTypeOK
  <2> QED
    BY <2>2, <2>3 DEF LogTypeOK
<1>8. CASE UNCHANGED modemVars
  BY <1>8 DEF modemVars, transVars, LogTypeOK, logVars
<1> QED
  BY <1>1, <1>2, <1>3, <1>4, <1>5, <1>6, <1>7, <1>8 DEF Next, MainStep

LEMMA QueryTypeStep ==
  ASSUME QueryTypeOK, Shape, [Next]_modemVars
  PROVE  QueryTypeOK'
<1>1. CASE NewBegun
  <2>1. This.t \in Trans
    BY <1>1, ThisObject DEF NewBegun, CallOps
  <2> QED
    BY <1>1, <2>1 DEF NewBegun, QueryTypeOK
<1>2. CASE NewEnded
  <2> DEFINE more == IF This.ctx = "requery" \/ (This.ctx = "version" /\ m_diag_handler = NoTrans) THEN 1 ELSE 0
  <2>1. more \in Nat
    OBVIOUS
  <2>2. requeries' = requeries + more
    BY <1>2 DEF NewEnded
  <2> HIDE DEF more
  <2>3. requeries' \in Nat
    BY <2>1, <2>2 DEF QueryTypeOK
  <2>4. /\ m_ver_state' \in {m_ver_state, "FAILED"} /\ trans_ts_' = trans_ts_ /\ ts' = ts
        /\ retry' \in {retry, TRUE} /\ trans_state_' \in {trans_state_, "START_FAIL"}
    BY <1>2 DEF NewEnded
  <2> QED
    BY <2>3, <2>4 DEF QueryTypeOK
<1>3. CASE Notify
  BY <1>3 DEF Notify, QueryTypeOK
<1>4. CASE Stop \/ DropQuery \/ TimeAssert
  BY <1>4 DEF Stop, StopQuery, DropQuery, TimeAssert, QueryTypeOK, timeVars, verVars
<1>5. CASE RequeryModemVer \/ StartQuery
  <2>1. requeries' = requeries \/ (requeries > 0 /\ requeries' = requeries - 1)
    BY <1>5 DEF RequeryModemVer, StartQuery, verVars
  <2>2. requeries' \in Nat
    BY <2>1 DEF QueryTypeOK
  <2>3. UNCHANGED <<m_ver_state, trans_state_, trans_ts_, ts>> /\ retry' \in {retry, FALSE}
    BY <1>5 DEF RequeryModemVer, StartQuery, timeVars, verVars
  <2> QED
    BY <2>2, <2>3 DEF QueryTypeOK
<1>6. CASE ProcessAlive
  BY <1>6 DEF ProcessAlive, QueryTypeOK, verVars
<1>7. CASE UNCHANGED <<verVars, timeVars>>
  BY <1>7 DEF QueryTypeOK, verVars, timeVars
<1>8. CASE NewTrans \/ ExecuteAtOnce \/ ExecuteDiag \/ ExecuteCommand \/ ExecuteLastLog \/ Finish \/ Begin \/ Loop
             \/ FrontStarts \/ LoopReturn \/ CancelTrans \/ EndDump
  <2>1. UNCHANGED <<verVars, timeVars>>
    BY <1>8 DEF NewTrans, ExecuteAtOnce, ExecuteDiag, ExecuteCommand, ExecuteLastLog, Finish, Begin, Loop,
                FrontStarts, LoopReturn, CancelTrans, EndDump
  <2> QED
    BY <1>7, <2>1
<1>9. CASE Start \/ EventMode \/ CommandResult \/ ExportResult \/ Answer \/ AtTimeout \/ TickArrives \/ AtReset
             \/ DiagTimeout \/ DiagData \/ LastLogTimeout \/ EventLogData
  <2>1. UNCHANGED <<verVars, timeVars>>
    BY <1>9 DEF Start, EventMode, CommandResult, ExportResult, Answer, AtTimeout, TickArrives, AtReset,
                DiagTimeout, DiagData, LastLogTimeout, EventLogData, transVars
  <2> QED
    BY <1>7, <2>1
<1>10. CASE ClientRequest \/ ClientLeaves \/ ModemEvent \/ ProcessAssert \/ UNCHANGED modemVars
  <2>1. UNCHANGED <<verVars, timeVars>>
    BY <1>10 DEF ClientRequest, ClientLeaves, ModemEvent, ProcessAssert, modemVars, transVars
  <2> QED
    BY <1>7, <2>1
<1> QED
  BY <1>1, <1>2, <1>3, <1>4, <1>5, <1>6, <1>8, <1>9, <1>10 DEF Next, MainStep

LEMMA TypeStep ==
  ASSUME ModemTypeOK, AtInv, Shape, [Next]_modemVars
  PROVE  ModemTypeOK' /\ AtInv'
<1>1. AtInv' /\ AtTypeOK'
  BY AtStep DEF AtInv
<1>2. QueueTypeOK' /\ DeviceTypeOK' /\ LogTypeOK' /\ QueryTypeOK'
  BY TypeParts, QueueTypeStep, DeviceTypeStep, LogTypeStep, QueryTypeStep
<1> QED
  BY <1>1, <1>2 DEF ModemTypeOK, QueueTypeOK, DeviceTypeOK, LogTypeOK, QueryTypeOK

------------------------------------------------------------------------------
(* The objects of the calls that callers have left.                        *)

LEMMA OnlyOne ==
  ASSUME NEW x, NEW m \in Range(<<x>>)
  PROVE  m = x
<1>1. Range(<<x>>) = {x}
  BY DEF Range
<1> QED
  BY <1>1

LEMMA OnlyTwo ==
  ASSUME NEW x, NEW y, NEW m \in Range(<<x, y>>)
  PROVE  m = x \/ m = y
<1>1. Range(<<x, y>>) = {x, y}
  BY DEF Range
<1> QED
  BY <1>1

LEMMA RestsOfCall ==
  ASSUME NEW l, l.op \in {"new"} \cup CallOps
  PROVE  Rests(l) = AfterNew(l.ctx)
<1> DEFINE op == l.op
<1>1. op \in {"new", "execute", "queued", "STARTED", "SUCCESS", "ERROR"}
  BY DEF CallOps
<1> QED
  BY <1>1 DEF Rests, CallOps

LEMMA RestOps ==
  ASSUME NEW l \in Labels, NEW r \in Rests(l), NEW m \in Range(r)
  PROVE  /\ m.op = "loop" => l.op \in {"notify", "end_dump"} \/ (l.op \in {"new"} \cup CallOps /\ l.ctx = "time")
         /\ m.op \in {"SUCCESS", "finish"} =>
              l.op \in {"start", "stop", "event_mode"} \/ (l.op \in {"new"} \cup CallOps /\ l.ctx = "version")
<1>1. ASSUME r \in Back
      PROVE  m.op \notin {"SUCCESS", "finish"}
  <2>1. \E x : r = <<x>> /\ x.op \in {"begin", "front", "loop"}
    <3>1. Do("begin").op = "begin" /\ Do("front").op = "front"
      BY DoFields
    <3>2. \A t : L("loop", t, "").op = "loop"
      BY DEF L
    <3> QED
      BY <1>1, <3>1, <3>2 DEF Back
  <2>2. PICK x : r = <<x>> /\ x.op \in {"begin", "front", "loop"}
    BY <2>1
  <2>3. m = x
    BY <2>2, OnlyOne
  <2> QED
    BY <2>2, <2>3
<1>2. ASSUME r \in Ended \cup Finishing
      PROVE  m.op # "loop"
  <2>1. PICK x : r = <<x>> /\ x.op \in {"SUCCESS", "finish"}
    BY <1>2 DEF Ended, Finishing, L
  <2>2. m = x
    BY <2>1, OnlyOne
  <2> QED
    BY <2>1, <2>2
<1>3. ASSUME NEW f \in Finishing, r = <<Do("event_mode")>> \o f
      PROVE  m.op # "loop"
  <2>1. PICK x : f = <<x>> /\ x.op = "finish"
    BY DEF Finishing, L
  <2> DEFINE e == Do("event_mode")
  <2>2. e.op = "event_mode"
    BY DoFields
  <2> HIDE DEF e
  <2>3. <<e>> \o <<x>> = <<e, x>>
    <3>1. e \in {e, x} /\ x \in {e, x}
      OBVIOUS
    <3> DEFINE S == {e, x}
    <3> HIDE DEF S
    <3>2. e \in S /\ x \in S
      BY <3>1 DEF S
    <3> QED
      BY <3>2, OneAndOne
  <2>4. r = <<e, x>>
    BY <1>3, <2>1, <2>3 DEF e
  <2>5. m = e \/ m = x
    BY <2>4, OnlyTwo
  <2> QED
    BY <2>1, <2>2, <2>5
<1>4. ASSUME r \in {<<>>, <<Do("start")>>, <<Do("time_assert")>>, <<L("new", NoTrans, "version")>>,
                    <<L("new", NoTrans, "STOP_LOG")>>}
      PROVE  m.op \notin {"loop", "SUCCESS", "finish"}
  <2>1. CASE r = <<>>
    BY <2>1 DEF Range
  <2>2. CASE r # <<>>
    <3>1. /\ Do("start").op = "start" /\ Do("time_assert").op = "time_assert"
          /\ L("new", NoTrans, "version").op = "new" /\ L("new", NoTrans, "STOP_LOG").op = "new"
      BY DoFields DEF L
    <3>2. \E x : r = <<x>> /\ x.op \in {"start", "time_assert", "new"}
      BY <1>4, <2>2, <3>1
    <3>3. PICK x : r = <<x>> /\ x.op \in {"start", "time_assert", "new"}
      BY <3>2
    <3>4. m = x
      BY <3>3, OnlyOne
    <3> QED
      BY <3>3, <3>4
  <2> QED
    BY <2>1, <2>2
<1>5. ASSUME r = <<L("new", NoTrans, "dump"), Do("time_assert")>>
      PROVE  m.op \notin {"loop", "SUCCESS", "finish"}
  <2>1. L("new", NoTrans, "dump").op = "new" /\ Do("time_assert").op = "time_assert"
    BY DoFields DEF L
  <2>2. m = L("new", NoTrans, "dump") \/ m = Do("time_assert")
    BY <1>5, OnlyTwo
  <2> QED
    BY <2>1, <2>2
<1>6. CASE l.op \in {"new"} \cup CallOps
  <2>1. r \in AfterNew(l.ctx)
    BY <1>6, RestsOfCall
  <2>2. CASE l.ctx = "time"
    <3>1. r \in {<<>>, <<Do("start")>>, <<L("new", NoTrans, "version")>>} \cup Back
      BY <2>1, <2>2 DEF AfterNew
    <3> QED
      BY <1>1, <1>4, <1>6, <2>2, <3>1
  <2>3. CASE l.ctx = "version"
    <3>1. r \in {<<>>} \cup Ended \cup Finishing
      BY <2>1, <2>3 DEF AfterNew
    <3> QED
      BY <1>2, <1>4, <1>6, <2>3, <3>1
  <2>4. CASE l.ctx \notin {"time", "version"}
    <3>1. r \in {<<>>, <<Do("time_assert")>>, <<L("new", NoTrans, "dump"), Do("time_assert")>>}
      BY <2>1, <2>4 DEF AfterNew
    <3> QED
      BY <1>4, <1>5, <3>1
  <2> QED
    BY <2>2, <2>3, <2>4
<1>7. CASE l.op \in {"notify", "end_dump"}
  <2>1. r \in {<<Do("time_assert")>>} \cup Back
    BY <1>7 DEF Rests, CallOps
  <2> QED
    BY <1>1, <1>4, <1>7, <2>1
<1>8. CASE l.op \in {"start", "stop", "event_mode"}
  <2>1. r \in {<<>>} \cup Ended \cup Finishing \/ \E f \in Finishing : r = <<Do("event_mode")>> \o f
    BY <1>8 DEF Rests, CallOps
  <2> QED
    BY <1>2, <1>3, <1>4, <1>8, <2>1
<1>9. CASE l.op \notin {"new", "notify", "end_dump", "start", "stop", "event_mode"} \cup CallOps
  <2>1. r \in {<<>>, <<L("new", NoTrans, "STOP_LOG")>>}
    BY <1>9 DEF Rests
  <2> QED
    BY <1>4, <2>1
<1> QED
  BY <1>6, <1>7, <1>8, <1>9

LEMMA TypesApart ==
  /\ DiagTypes \cap AtTypes = {} /\ GlobalTypes \subseteq AtTypes
  /\ "FREE" \notin DiagTypes \cup AtTypes /\ "FREE" \notin Types
  /\ "VERSION_QUERY" \in DiagTypes /\ "MODEM_TICK_QUERY" \in AtTypes
  /\ "MODEM_TICK_QUERY" \notin GlobalTypes
BY DEF DiagTypes, AtTypes, GlobalTypes, Types

\* Callers hold objects that are queued and those of transactions of the AT
\* controller: no other call frees or changes them meanwhile.
LEMMA CallersAway ==
  ASSUME QueueTypeOK, Shape, todo # <<>>, Claims, ObjectsInv, NEW x \in Trans,
         \/ type_[x] = "FREE"
         \/ This.op = "notify" /\ x = This.t
         \/ This.op \in {"execute", "STARTED", "SUCCESS", "ERROR"} /\ x = This.t
         \/ This.op \in {"finish", "cancel", "drop", "result"}
         \/ This.op = "stop" /\ type_[x] \in DiagTypes,
         NEW l \in LeftToCallers
  PROVE  l.t # x
<1> SUFFICES ASSUME l.t = x
             PROVE  FALSE
  OBVIOUS
<1>1. /\ This \in Labels /\ Tail(todo) \in Rests(This) /\ l \in Range(Tail(todo))
      /\ l \in Labels /\ CallerLabel(l) /\ This \in Left /\ l \in Left
  BY ShapeIs
<1> DEFINE h == This
           r == Tail(todo)
<1> HIDE DEF h, r
<1>2. h \in Labels /\ r \in Rests(h) /\ l \in Range(r)
  BY <1>1 DEF h, r
<1>3. /\ l.op = "loop" => h.op \in {"notify", "end_dump"} \/ (h.op \in {"new"} \cup CallOps /\ h.ctx = "time")
      /\ l.op \in {"SUCCESS", "finish"} =>
           h.op \in {"start", "stop", "event_mode"} \/ (h.op \in {"new"} \cup CallOps /\ h.ctx = "version")
  BY <1>2, RestOps
<1>4. l.op \in {"loop", "SUCCESS", "finish"}
  <2>1. l.op \in DoOps \cup {"new"} => l.t = NoTrans
    BY <1>1, LabelIs
  <2> QED
    BY <1>1, <2>1, NoTransIsNone DEF CallerLabel, DoOps
<1>5. Claim(l) /\ CallerClaim(l) /\ Claim(h)
  BY <1>1 DEF Claims, h
<1>6. /\ l.op = "loop" => x \in Queued
      /\ l.op = "finish" => x \in Queued /\ type_[x] \in AtTypes
      /\ l.op = "SUCCESS" => type_[x] \in AtTypes
  BY <1>5, NoTransIsNone, TypesApart DEF Claim, CallerClaim
<1>7. x \in Queued => type_[x] # "FREE"
  BY DEF ObjectsInv
<1>8. type_[x] # "FREE"
  BY <1>4, <1>6, <1>7, TypesApart
<1>9. CASE h.op = "notify" /\ x = h.t
  <2>1. x \notin Queued
    BY <1>5, <1>9 DEF Claim, Detached
  <2> QED
    BY <1>3, <1>4, <1>6, <1>9, <2>1 DEF CallOps
<1>10. CASE h.op \in {"execute", "STARTED", "SUCCESS", "ERROR"} /\ x = h.t
  <2>1. CASE l.op = "loop"
    <3>1. h.ctx = "time" /\ h.ctx \in NewCtx
      BY <1>3, <1>10, <2>1 DEF NewCtx
    <3>2. x \notin Queued
      BY <1>5, <1>10, <3>1 DEF Claim, Detached
    <3> QED
      BY <1>6, <2>1, <3>2
  <2>2. CASE l.op \in {"SUCCESS", "finish"}
    <3>1. h.ctx = "version" /\ h.ctx \in NewCtx /\ h.op \in CallOps
      BY <1>3, <1>10, <2>2 DEF NewCtx, CallOps
    <3>2. type_[x] = "VERSION_QUERY"
      BY <1>5, <1>10, <3>1 DEF Claim, TypeFor
    <3> QED
      BY <1>6, <2>2, <3>2, TypesApart
  <2> QED
    BY <1>4, <2>1, <2>2
<1>11. CASE h.op \in {"finish", "cancel", "drop", "result"}
  BY <1>3, <1>4, <1>11 DEF CallOps
<1>12. CASE h.op = "stop" /\ type_[x] \in DiagTypes
  BY <1>3, <1>4, <1>6, <1>12, TypesApart DEF CallOps
<1> QED
  BY <1>8, <1>9, <1>10, <1>11, <1>12 DEF h

------------------------------------------------------------------------------
(* A call concerns few objects; what callers may assume of others remains. *)

Kept(t) ==
  /\ type_'[t] = type_[t] /\ state_'[t] = state_[t]
  /\ t \in Queued' <=> t \in Queued
  /\ RunsCommand(t)' => RunsCommand(t)

LEMMA CallersKeep ==
  ASSUME Shape, todo # <<>>, Claims, NEW X, \A t \in Trans \ X : Kept(t),
         NEW l \in LeftToCallers, l.t \notin X
  PROVE  Claim(l)' /\ CallerClaim(l)'
<1>1. l \in Labels /\ CallerLabel(l) /\ l \in Left
  BY ShapeIs
<1>2. Claim(l) /\ CallerClaim(l)
  BY <1>1 DEF Claims
<1>3. l.op \in {"SUCCESS", "finish"} => l.t \in Trans
  BY <1>1, LabelIs DEF CallOps
<1>4. CASE l.op = "SUCCESS"
  <2>1. Kept(l.t)
    BY <1>3, <1>4
  <2> QED
    BY <1>2, <1>4, <2>1 DEF Claim, CallerClaim, Kept, Detached, CallOps
<1>5. CASE l.op = "finish"
  <2>1. Kept(l.t)
    BY <1>3, <1>5
  <2> QED
    BY <1>2, <1>5, <2>1 DEF Claim, CallerClaim, Kept, Detached, CallOps
<1>6. CASE l.op = "loop"
  <2>1. l.t \in Trans => Kept(l.t)
    OBVIOUS
  <2>2. l.t \in Queued \cup {NoTrans} /\ l.t \in Trans \cup {NoTrans}
    BY <1>1, <1>2, <1>6, LabelIs DEF Claim
  <2>3. l.t \in Queued' \cup {NoTrans}
    BY <2>1, <2>2 DEF Kept
  <2> QED
    BY <1>6, <2>3 DEF Claim, CallerClaim, Detached, CallOps
<1>7. CASE l.op \in {"begin", "front", "start", "new", "time_assert", "event_mode"}
  BY <1>7 DEF Claim, CallerClaim, Detached, CallOps
<1> QED
  BY <1>1, <1>4, <1>5, <1>6, <1>7 DEF CallerLabel

LEMMA LeftIs ==
  ASSUME Shape
  PROVE  Left = LeftToCallers \/ (todo # <<>> /\ Left = {This} \cup LeftToCallers)
<1>1. CASE todo = <<>>
  BY <1>1 DEF Left, LeftToCallers, Range
<1>2. CASE todo # <<>>
  BY <1>2, ShapeIs
<1> QED
  BY <1>1, <1>2

\* The first call becomes the calls N, and concerns the objects X.
LEMMA CallStep ==
  ASSUME QueueTypeOK, Shape, Claims, ObjectsInv,
         NEW X \in SUBSET Trans, NEW N,
         \A t \in Trans \ X : Kept(t),
         \A l \in LeftToCallers : l.t \notin X,
         Left' = N \cup LeftToCallers,
         LeftToCallers' \subseteq N \cup LeftToCallers,
         \A l \in N : Claim(l)',
         \A l \in N \cap LeftToCallers' : CallerClaim(l)',
         todo # <<>> /\ Detached(This) => This.t \in X,
         \A l \in N : Detached(l) => l.t \in X,
         IsInjective(transactions_)',
         \A x \in X : type_'[x] # "FREE" <=> x \in Queued' \/ \E l \in N : Detached(l) /\ l.t = x
  PROVE  Claims' /\ ObjectsInv'
<1>1. \A l \in LeftToCallers : Claim(l)' /\ CallerClaim(l)'
  <2>1. todo = <<>> => LeftToCallers = {}
    BY DEF LeftToCallers
  <2> QED
    BY <2>1, CallersKeep
<1>2. Claims'
  BY <1>1 DEF Claims
<1>3. Left = LeftToCallers \/ (todo # <<>> /\ Left = {This} \cup LeftToCallers)
  BY LeftIs
<1>4. ASSUME NEW t \in Trans
      PROVE  type_'[t] # "FREE" <=> t \in Queued' \/ \E l \in N \cup LeftToCallers : Detached(l) /\ l.t = t
  <2>1. CASE t \in X
    BY <2>1
  <2>2. CASE t \notin X
    <3>1. Kept(t)
      BY <2>2
    <3>2. type_[t] # "FREE" <=> t \in Queued \/ \E l \in Left : Detached(l) /\ l.t = t
      BY DEF ObjectsInv
    <3>3. (\E l \in Left : Detached(l) /\ l.t = t) <=> \E l \in LeftToCallers : Detached(l) /\ l.t = t
      BY <1>3, <2>2
    <3>4. (\E l \in N \cup LeftToCallers : Detached(l) /\ l.t = t) <=> \E l \in LeftToCallers : Detached(l) /\ l.t = t
      BY <2>2
    <3> QED
      BY <3>1, <3>2, <3>3, <3>4 DEF Kept
  <2> QED
    BY <2>1, <2>2
<1>5. ObjectsInv'
  <2>1. IsInjective(transactions_')
    OBVIOUS
  <2>2. \A t \in Trans : type_'[t] # "FREE" <=> t \in Queued' \/ \E l \in Left' : Detached(l) /\ l.t = t
    BY <1>4
  <2> QED
    BY <2>1, <2>2 DEF ObjectsInv
<1> QED
  BY <1>2, <1>5

------------------------------------------------------------------------------
(* What the proofs of the actions share.                                   *)

OwnInv == CommandInv /\ UnbegunInv /\ DiagInv

LEMMA Parts ==
  ASSUME IInv, ~Crashed
  PROVE  /\ AtTypeOK /\ QueueTypeOK /\ DeviceTypeOK /\ QueryTypeOK /\ Shape
         /\ transactions_ \in Seq(Trans) /\ IsInjective(transactions_) /\ Queued \subseteq Trans
         /\ Claims /\ ObjectsInv /\ OwnInv /\ VersionInv /\ TimeInv
<1>1. ModemTypeOK /\ Shape /\ CoreInv /\ QueryInv
  BY DEF IInv
<1>2. AtTypeOK /\ QueueTypeOK /\ DeviceTypeOK /\ QueryTypeOK
  BY <1>1, TypeParts
<1>3. transactions_ \in Seq(Trans) /\ IsInjective(transactions_)
  BY <1>1, <1>2 DEF QueueTypeOK, CoreInv, ObjectsInv
<1>4. Queued \subseteq Trans
  BY <1>3, QueuedTrans
<1> QED
  BY <1>1, <1>2, <1>3, <1>4 DEF CoreInv, QueryInv, OwnInv

LEMMA ThisClaim ==
  ASSUME Shape, Claims, NEW ops, At(ops)
  PROVE  Claim(This) /\ todo # <<>> /\ This.op \in ops
<1>1. todo # <<>> /\ This.op \in ops
  BY DEF At
<1>2. This \in Left
  BY <1>1, ShapeIs
<1> QED
  BY <1>1, <1>2 DEF Claims

\* Calls without an object claim nothing.
LEMMA NoClaim ==
  ASSUME NEW l, l.op \in DoOps \cup {"new"}
  PROVE  Claim(l)' /\ CallerClaim(l)' /\ ~Detached(l)
<1> DEFINE op == l.op
<1>1. op \in {"begin", "front", "end_dump", "start", "stop", "event_mode", "time_assert", "crashed", "new"}
  BY DEF DoOps
<1> QED
  BY <1>1 DEF Claim, CallerClaim, Detached, CallOps

LEMMA NoClaims ==
  /\ \A op \in DoOps : Claim(Do(op))' /\ CallerClaim(Do(op))' /\ ~Detached(Do(op))
  /\ \A c : LET l == L("new", NoTrans, c) IN Claim(l)' /\ CallerClaim(l)' /\ ~Detached(l)
<1>1. ASSUME NEW op \in DoOps
      PROVE  Claim(Do(op))' /\ CallerClaim(Do(op))' /\ ~Detached(Do(op))
  <2> DEFINE l == Do(op)
  <2>1. l.op \in DoOps \cup {"new"}
    BY DoFields
  <2> HIDE DEF l
  <2>2. Claim(l)' /\ CallerClaim(l)' /\ ~Detached(l)
    BY <2>1, NoClaim
  <2> QED
    BY <2>2 DEF l
<1>2. ASSUME NEW c
      PROVE  Claim(L("new", NoTrans, c))' /\ CallerClaim(L("new", NoTrans, c))' /\ ~Detached(L("new", NoTrans, c))
  <2> DEFINE l == L("new", NoTrans, c)
  <2>1. l.op \in DoOps \cup {"new"}
    BY DEF L
  <2> HIDE DEF l
  <2>2. Claim(l)' /\ CallerClaim(l)' /\ ~Detached(l)
    BY <2>1, NoClaim
  <2> QED
    BY <2>2 DEF l
<1> QED
  BY <1>1, <1>2

LEMMA SameQueue ==
  ASSUME UNCHANGED transactions_, IsInjective(transactions_)
  PROVE  Queued' = Queued /\ IsInjective(transactions_)'
BY DEF Queued, IsInjective

\* Nothing is done to an object.
LEMMA AllKept ==
  ASSUME UNCHANGED queueVars, UNCHANGED <<action_, client_>> \/ ~Running'
  PROVE  \A t \in Trans : Kept(t)
<1>1. Queued' = Queued
  BY DEF Queued, queueVars
<1> QED
  BY <1>1 DEF Kept, RunsCommand, Running, queueVars

LEMMA SetStateIs ==
  ASSUME QueueTypeOK, NEW x \in Trans, NEW s, SetState(x, s)
  PROVE  state_'[x] = s /\ \A t \in Trans \ {x} : state_'[t] = state_[t]
BY DEF QueueTypeOK, SetState

LEMMA FreeIs ==
  ASSUME QueueTypeOK, NEW x \in Trans, Free(x)
  PROVE  /\ type_'[x] = "FREE" /\ state_'[x] = "NOT_BEGIN"
         /\ \A t \in Trans \ {x} : type_'[t] = type_[t] /\ state_'[t] = state_[t]
         /\ at_finished_' = at_finished_ \ {x}
BY DEF QueueTypeOK, Free

LEMMA OwnKept ==
  ASSUME OwnInv, UNCHANGED <<type_, state_>>, UNCHANGED <<action_, client_>> \/ ~Running',
         armed' \subseteq armed, at_finished_' \subseteq at_finished_,
         m_diag_handler' \in {m_diag_handler, NoTrans}, cur_diag_trans_' \in {cur_diag_trans_, NoTrans}
  PROVE  OwnInv'
<1>1. CommandInv'
  BY DEF OwnInv, CommandInv, Running
<1>2. UnbegunInv'
  BY NoTransIsNone DEF OwnInv, UnbegunInv
<1>3. DiagInv'
  BY DEF OwnInv, DiagInv
<1> QED
  BY <1>1, <1>2, <1>3 DEF OwnInv

LEMMA OwnSame ==
  ASSUME OwnInv, UNCHANGED queueVars, UNCHANGED <<action_, client_>> \/ ~Running',
         armed' \subseteq armed, at_finished_' \subseteq at_finished_,
         m_diag_handler' \in {m_diag_handler, NoTrans}, cur_diag_trans_' \in {cur_diag_trans_, NoTrans}
  PROVE  OwnInv'
BY OwnKept DEF queueVars

\* An object is freed that has no command.
LEMMA OwnFree ==
  ASSUME QueueTypeOK, OwnInv, NEW x \in Trans, Free(x),
         (UNCHANGED <<action_, client_>> /\ ~RunsCommand(x)) \/ ~Running',
         armed' \subseteq armed,
         m_diag_handler' \in {m_diag_handler, NoTrans}, cur_diag_trans_' \in {cur_diag_trans_, NoTrans}
  PROVE  OwnInv'
<1>1. /\ type_'[x] = "FREE" /\ state_'[x] = "NOT_BEGIN"
      /\ \A t \in Trans \ {x} : type_'[t] = type_[t] /\ state_'[t] = state_[t]
      /\ at_finished_' = at_finished_ \ {x}
  BY FreeIs
<1>2. CommandInv'
  <2>1. SUFFICES ASSUME Running'
                 PROVE  CommandInv'
    BY DEF CommandInv
  <2>2. UNCHANGED <<action_, client_>> /\ ~RunsCommand(x)
    BY <2>1
  <2>3. Running /\ client_ # x
    BY <2>1, <2>2 DEF Running, RunsCommand
  <2> QED
    BY <1>1, <2>2, <2>3 DEF CommandInv, OwnInv
<1>3. UnbegunInv'
  BY <1>1, NoTransIsNone DEF OwnInv, UnbegunInv
<1>4. DiagInv'
  <2>1. ASSUME NEW t \in {m_diag_handler', cur_diag_trans_'}, t # NoTrans
        PROVE  type_'[t] \in DiagTypes \cup {"FREE"}
    <3>1. t \in {m_diag_handler, cur_diag_trans_}
      BY <2>1
    <3>2. type_[t] \in DiagTypes \cup {"FREE"}
      BY <2>1, <3>1 DEF OwnInv, DiagInv
    <3>3. type_'[t] = type_[t] \/ type_'[t] = "FREE"
      BY <1>1 DEF QueueTypeOK, Free
    <3> QED
      BY <3>2, <3>3
  <2> QED
    BY <2>1 DEF DiagInv
<1> QED
  BY <1>2, <1>3, <1>4 DEF OwnInv

------------------------------------------------------------------------------
(* What the proofs about the queries share.                                *)

LEMMA CallersAskNothing ==
  ASSUME Shape, NEW l \in LeftToCallers
  PROVE  l.ctx # "time" /\ l.op \notin {"notify", "cancel"}
<1>1. todo # <<>>
  BY DEF LeftToCallers
<1> QED
  BY <1>1, ShapeIs DEF CallerLabel

LEMMA VersionKeeps ==
  ASSUME Shape, VersionInv, m_ver_state' \in {m_ver_state, "NOT_BEGIN", "FAILED"},
         todo # <<>> => This.op # "notify", Queued \subseteq Trans,
         \A t \in Queued : type_[t] = "VERSION_QUERY" =>
           type_'[t] = type_[t] /\ (t \in Queued' \/ L("notify", t, "") \in Left')
  PROVE  VersionInv'
<1>1. \A t : L("notify", t, "") \notin Left
  <2> SUFFICES ASSUME NEW t, L("notify", t, "") \in Left
               PROVE  FALSE
    OBVIOUS
  <2> DEFINE l == L("notify", t, "")
  <2>1. l.op = "notify"
    BY DEF L
  <2> HIDE DEF l
  <2>2. l \in Left
    BY DEF l
  <2>3. l \in LeftToCallers \/ (todo # <<>> /\ l = This)
    BY <2>2, LeftIs
  <2> QED
    BY <2>1, <2>3, CallersAskNothing
<1>2. SUFFICES ASSUME m_ver_state' = "QUERY"
               PROVE  \E t \in Trans : type_'[t] = "VERSION_QUERY" /\ (t \in Queued' \/ L("notify", t, "") \in Left')
  BY DEF VersionInv
<1>3. PICK t \in Trans : type_[t] = "VERSION_QUERY" /\ t \in Queued
  BY <1>1, <1>2 DEF VersionInv
<1> QED
  BY <1>3

LEMMA AskingThen ==
  ASSUME Shape, NEW N, Left' = N \cup LeftToCallers
  PROVE  Asking' <=> \E l \in N : l.ctx = "time"
BY CallersAskNothing DEF Asking

LEMMA TimeKeeps ==
  ASSUME Shape, TimeInv, UNCHANGED <<trans_state_, trans_ts_, ts, retry>>, Queued \subseteq Trans,
         NEW N, Left' = N \cup LeftToCallers,
         todo # <<>> => This.op \notin {"notify", "cancel"},
         (\E l \in N : l.ctx = "time") <=> Asking,
         todo # <<>> /\ This.ctx = "time" => \E l \in N : l.ctx = "time" /\ l.t = This.t,
         \A l \in N : l.op = "cancel" => l.t \in Trans /\ type_[l.t] # "MODEM_TICK_QUERY",
         \A t \in Trans : type_'[t] = "MODEM_TICK_QUERY" => type_[t] = "MODEM_TICK_QUERY",
         \A t \in Queued : type_[t] = "MODEM_TICK_QUERY" =>
           type_'[t] = type_[t] /\ (t \in Queued' \/ L("notify", t, "") \in N)
  PROVE  TimeInv'
<1>1. Asking' <=> Asking
  BY AskingThen
<1>2. \A t : L("notify", t, "") \notin Left
  <2> SUFFICES ASSUME NEW t, L("notify", t, "") \in Left
               PROVE  FALSE
    OBVIOUS
  <2> DEFINE l == L("notify", t, "")
  <2>1. l.op = "notify"
    BY DEF L
  <2> HIDE DEF l
  <2>2. l \in Left
    BY DEF l
  <2>3. l \in LeftToCallers \/ (todo # <<>> /\ l = This)
    BY <2>2, LeftIs
  <2> QED
    BY <2>1, <2>3, CallersAskNothing
<1>3. trans_state_ = "EXECUTING" =>
        /\ trans_ts_ \in Trans /\ type_'[trans_ts_] = "MODEM_TICK_QUERY"
        /\ trans_ts_ \in Queued' \/ L("notify", trans_ts_, "") \in Left'
  BY <1>2 DEF TimeInv
<1>4. ASSUME NEW t \in Trans, type_'[t] = "MODEM_TICK_QUERY"
      PROVE  t = trans_ts_ \/ \E l \in Left' : l.t = t /\ (l.ctx = "time" \/ l.op = "cancel")
  <2>1. CASE t = trans_ts_
    BY <2>1
  <2>2. CASE t # trans_ts_
    <3>1. type_[t] = "MODEM_TICK_QUERY"
      BY <1>4
    <3>2. PICK l \in Left : l.t = t /\ (l.ctx = "time" \/ l.op = "cancel")
      BY <2>2, <3>1 DEF TimeInv
    <3>3. todo # <<>> /\ l = This
      BY <3>2, LeftIs, CallersAskNothing
    <3>4. l.ctx = "time"
      BY <3>2, <3>3
    <3> QED
      BY <3>2, <3>3, <3>4
  <2> QED
    BY <2>1, <2>2
<1>5. ASSUME NEW l \in Left', l.op = "cancel"
      PROVE  l.t # trans_ts_
  <2>1. l \in N
    BY <1>5, CallersAskNothing
  <2>2. l.t \in Trans /\ type_[l.t] # "MODEM_TICK_QUERY"
    BY <1>5, <2>1
  <2>3. CASE trans_state_ = "EXECUTING"
    BY <2>2, <2>3 DEF TimeInv
  <2>4. CASE trans_state_ # "EXECUTING"
    <3>1. trans_ts_ = NoTrans
      BY <2>4 DEF TimeInv
    <3> QED
      BY <2>2, <3>1, NoTransIsNone
  <2> QED
    BY <2>3, <2>4
<1> QED
  BY <1>1, <1>3, <1>4, <1>5 DEF TimeInv

------------------------------------------------------------------------------
(* The actions, one by one.                                                *)

Good == Shape /\ CoreInv /\ QueryInv

\* No object is touched: the calls N are left instead of the first one, if any.
LEMMA QuietCore ==
  ASSUME IInv, ~Crashed, NEW N,
         Left' = N \cup LeftToCallers, LeftToCallers' \subseteq N \cup LeftToCallers,
         todo # <<>> => ~Detached(This),
         \A l \in N : Claim(l)' /\ ~Detached(l),
         \A l \in N \cap LeftToCallers' : CallerClaim(l)',
         UNCHANGED queueVars, UNCHANGED <<action_, client_>> \/ ~Running'
  PROVE  Claims' /\ ObjectsInv'
<1>1. QueueTypeOK /\ Shape /\ Claims /\ ObjectsInv /\ IsInjective(transactions_)
  BY Parts
<1>2. UNCHANGED transactions_ /\ IsInjective(transactions_)'
  BY <1>1, SameQueue DEF queueVars
<1> DEFINE X == {}
<1>3. /\ X \in SUBSET Trans /\ (\A t \in Trans \ X : Kept(t)) /\ \A m \in LeftToCallers : m.t \notin X
      /\ \A l \in N : Detached(l) => l.t \in X
      /\ \A x \in X : type_'[x] # "FREE" <=> x \in Queued' \/ \E m \in N : Detached(m) /\ m.t = x
  BY AllKept
<1> HIDE DEF X
<1> QED
  BY <1>1, <1>2, <1>3, CallStep

LEMMA Quiet ==
  ASSUME IInv, ~Crashed, Shape', NEW N,
         Left' = N \cup LeftToCallers, LeftToCallers' \subseteq N \cup LeftToCallers,
         todo # <<>> => ~Detached(This) /\ This.ctx # "time" /\ This.op \notin {"notify", "cancel"},
         \A l \in N : Claim(l)' /\ ~Detached(l) /\ l.ctx # "time",
         \A l \in N : l.op = "cancel" => l.t \in Trans /\ type_[l.t] # "MODEM_TICK_QUERY",
         \A l \in N \cap LeftToCallers' : CallerClaim(l)',
         UNCHANGED <<queueVars, timeVars>>, m_ver_state' \in {m_ver_state, "NOT_BEGIN", "FAILED"},
         UNCHANGED <<action_, client_>> \/ ~Running', OwnInv'
  PROVE  Good'
<1>1. Shape /\ VersionInv /\ TimeInv /\ IsInjective(transactions_) /\ Queued \subseteq Trans
  BY Parts
<1>2. UNCHANGED <<transactions_, type_>> /\ Queued' = Queued
  BY <1>1, SameQueue DEF queueVars
<1>3. Claims' /\ ObjectsInv'
  BY QuietCore
<1>4. VersionInv'
  BY <1>1, <1>2, VersionKeeps
<1>5. TimeInv'
  <2>1. ~Asking
    BY <1>1, LeftIs, CallersAskNothing DEF Asking
  <2> QED
    BY <1>1, <1>2, <2>1, TimeKeeps DEF timeVars
<1> QED
  BY <1>3, <1>4, <1>5 DEF Good, CoreInv, QueryInv, OwnInv

\* A call without an object becomes the call l, or returns.
LEMMA QuietPush ==
  ASSUME IInv, ~Crashed, todo # <<>>, NEW l \in Labels, Then(<<l>>), Tail(todo) \in Rests(l),
         ~Detached(This), This.ctx # "time", This.op \notin {"notify", "cancel"},
         ~Detached(l), l.ctx # "time", l.op # "cancel", Claim(l)', CallerClaim(l)',
         UNCHANGED <<queueVars, timeVars, m_ver_state>>, UNCHANGED <<action_, client_>> \/ ~Running', OwnInv'
  PROVE  Good'
<1>1. Shape' /\ Left' = {l} \cup LeftToCallers /\ LeftToCallers' = LeftToCallers
  BY Parts, PushOne
<1> DEFINE N == {l}
<1>2. /\ Left' = N \cup LeftToCallers /\ LeftToCallers' \subseteq N \cup LeftToCallers
      /\ \A m \in N : Claim(m)' /\ ~Detached(m) /\ m.ctx # "time" /\ m.op # "cancel"
      /\ \A m \in N \cap LeftToCallers' : CallerClaim(m)'
  BY <1>1
<1> HIDE DEF N
<1>3. UNCHANGED <<queueVars, timeVars>> /\ m_ver_state' \in {m_ver_state, "NOT_BEGIN", "FAILED"}
  OBVIOUS
<1> QED
  BY <1>1, <1>2, <1>3, Quiet

LEMMA QuietPop ==
  ASSUME IInv, ~Crashed, todo # <<>>, Then(<<>>),
         ~Detached(This), This.ctx # "time", This.op \notin {"notify", "cancel"},
         UNCHANGED <<queueVars, timeVars, m_ver_state>>, UNCHANGED <<action_, client_>> \/ ~Running', OwnInv'
  PROVE  Good'
<1>1. Shape' /\ Left' = LeftToCallers /\ LeftToCallers' \subseteq LeftToCallers
  BY Parts, Pop
<1> DEFINE N == {}
<1>2. /\ Left' = N \cup LeftToCallers /\ LeftToCallers' \subseteq N \cup LeftToCallers
      /\ \A m \in N : Claim(m)' /\ ~Detached(m) /\ m.ctx # "time" /\ m.op # "cancel"
      /\ \A m \in N \cap LeftToCallers' : CallerClaim(m)'
  BY <1>1
<1> HIDE DEF N
<1>3. UNCHANGED <<queueVars, timeVars>> /\ m_ver_state' \in {m_ver_state, "NOT_BEGIN", "FAILED"}
  OBVIOUS
<1> QED
  BY <1>1, <1>2, <1>3, Quiet

\* A call of the handler itself concerns no object.
LEMMA ThisDo ==
  ASSUME Shape, Claims, NEW ops \in SUBSET DoOps,
         At(ops)
  PROVE  /\ todo # <<>> /\ This.op \in ops /\ ~Detached(This) /\ This.ctx # "time"
         /\ This.op \notin {"notify", "cancel"}
<1>1. todo # <<>> /\ This.op \in ops /\ This \in Labels
  BY ThisObject
<1> DEFINE h == This
<1> HIDE DEF h
<1>2. h \in Labels /\ h.op \in DoOps
  BY <1>1 DEF h
<1>3. h.ctx = "" /\ ~Detached(h) /\ h.op \notin {"notify", "cancel"}
  <2>1. h.ctx = ""
    BY <1>2, LabelIs
  <2> QED
    BY <1>2, <2>1 DEF Detached, DoOps
<1> QED
  BY <1>1, <1>3 DEF h

\* Most calls are the last of their handler, but for those of finish().
LEMMA RestsNone ==
  ASSUME NEW l,
         \/ l.op \in {"begin", "front", "loop", "finish", "result", "cancel", "time_assert"}
         \/ l.op \in CallOps \cup {"new"} /\ l.ctx \notin {"time", "version", "etb", "dump"}
  PROVE  Rests(l) = {<<>>}
<1>1. CASE l.op \in {"begin", "front", "loop", "finish", "result", "cancel", "time_assert"}
  BY <1>1 DEF Rests, CallOps
<1>2. CASE l.op \in CallOps \cup {"new"} /\ l.ctx \notin {"time", "version", "etb", "dump"}
  <2>1. Rests(l) = AfterNew(l.ctx)
    BY <1>2, RestsOfCall
  <2> QED
    BY <1>2, <2>1 DEF AfterNew
<1> QED
  BY <1>1, <1>2

LEMMA QueueCtxApart == QueueCtx \cap NewCtx = {} /\ QueueCtx \cap {"time", "version", "etb", "dump"} = {}
BY DEF QueueCtx, NewCtx, Requests

LEMMA BeginStep ==
  ASSUME IInv, ~Crashed, Begin
  PROVE  Good'
<1>1. Shape /\ Claims /\ OwnInv /\ transactions_ \in Seq(Trans) /\ Queued \subseteq Trans
  BY Parts
<1>2. /\ todo # <<>> /\ This.op = "begin" /\ ~Detached(This) /\ This.ctx # "time"
      /\ This.op \notin {"notify", "cancel"}
  <2>1. At({"begin"}) /\ {"begin"} \in SUBSET DoOps
    BY DEF Begin, DoOps
  <2> QED
    BY <1>1, <2>1, ThisDo
<1>3. PICK l : l = L("loop", First, "")
  OBVIOUS
<1>4. First \in Queued \cup {NoTrans}
  BY <1>1, FirstIs
<1>5. l \in Labels
  <2>1. First \in Trans \cup {NoTrans}
    BY <1>1, <1>4
  <2> QED
    BY <1>3, <2>1, MakeLabel
<1>6. l.op = "loop" /\ l.t = First /\ l.ctx = "" /\ Then(<<l>>)
  BY <1>3 DEF L, Begin
<1>7. Tail(todo) \in Rests(l)
  BY <1>1, <1>2, <1>6, ShapeIs, RestsNone
<1>8. UNCHANGED <<queueVars, timeVars, m_ver_state>> /\ UNCHANGED <<action_, client_>> /\ OwnInv'
  <2>1. UNCHANGED <<queueVars, timeVars, m_ver_state, action_, client_, armed, at_finished_, m_diag_handler, cur_diag_trans_>>
    BY DEF Begin, atVars, verVars, ownVars, diagVars
  <2> QED
    BY <1>1, <2>1, OwnSame
<1>9. Claim(l)' /\ CallerClaim(l)' /\ ~Detached(l)
  <2>1. Queued' = Queued
    BY <1>8 DEF Queued, queueVars
  <2> QED
    BY <1>4, <1>6, <2>1 DEF Claim, CallerClaim, Detached, CallOps
<1> QED
  BY <1>2, <1>5, <1>6, <1>7, <1>8, <1>9, QuietPush

\* The loop and on_trans_canceled() execute what has not begun.
LEMMA ExecuteQueued ==
  ASSUME IInv, ~Crashed, todo # <<>>, Rests(This) = {<<>>},
         ~Detached(This), This.ctx # "time", This.op \notin {"notify", "cancel"},
         NEW t \in Queued, state_[t] = "NOT_BEGIN", NEW c \in QueueCtx, Then(<<L("execute", t, c)>>),
         UNCHANGED <<atVars, queueVars, diagVars, ownVars, logVars, verVars, timeVars, events>>
  PROVE  Good'
<1>1. Shape /\ Claims /\ ObjectsInv /\ OwnInv /\ Queued \subseteq Trans
  BY Parts
<1>2. PICK l : l = L("execute", t, c)
  OBVIOUS
<1>3. l.op = "execute" /\ l.t = t /\ l.ctx = c /\ Then(<<l>>)
  BY <1>2 DEF L
<1>4. l \in Labels
  <2>1. "execute" \in CallOps /\ t \in Trans /\ c \in NewCtx \cup QueueCtx
    BY <1>1 DEF CallOps
  <2> QED
    BY <1>2, <2>1, MakeLabel
<1>5. Tail(todo) \in Rests(l)
  <2>1. Rests(l) = {<<>>}
    BY <1>3, RestsNone, QueueCtxApart DEF CallOps
  <2> QED
    BY <1>1, <2>1, ShapeIs
<1>6. UNCHANGED <<queueVars, timeVars, m_ver_state>> /\ UNCHANGED <<action_, client_>> /\ OwnInv'
  <2>1. UNCHANGED <<queueVars, timeVars, m_ver_state, action_, client_, armed, at_finished_, m_diag_handler, cur_diag_trans_>>
    BY DEF atVars, verVars, ownVars, diagVars
  <2> QED
    BY <1>1, <2>1, OwnSame
<1>7. Claim(l)' /\ CallerClaim(l)' /\ ~Detached(l)
  <2>1. Queued' = Queued /\ state_' = state_ /\ type_' = type_
    BY <1>6 DEF Queued, queueVars
  <2>2. type_[t] # "FREE"
    BY <1>1 DEF ObjectsInv
  <2>3. c \notin NewCtx
    BY QueueCtxApart
  <2> QED
    BY <1>3, <2>1, <2>2, <2>3 DEF Claim, CallerClaim, Detached, CallOps
<1> QED
  BY <1>3, <1>4, <1>5, <1>6, <1>7, QueueCtxApart, QuietPush

LEMMA LoopStep ==
  ASSUME IInv, ~Crashed, Loop
  PROVE  Good'
<1>1. /\ Shape /\ Claims /\ OwnInv /\ ObjectsInv /\ Queued \subseteq Trans
      /\ transactions_ \in Seq(Trans) /\ IsInjective(transactions_)
  BY Parts
<1>2. /\ todo # <<>> /\ This.op = "loop" /\ ~Detached(This) /\ This.ctx # "time"
      /\ This.op \notin {"notify", "cancel"} /\ Claim(This)
  <2>0. At({"loop"})
    BY DEF Loop
  <2>1. todo # <<>> /\ This.op = "loop" /\ Claim(This) /\ This \in Labels
    BY <1>1, <2>0, ThisClaim, ThisObject
  <2> DEFINE h == This
  <2> HIDE DEF h
  <2>2. h.ctx = ""
    BY <2>1, LabelIs DEF h
  <2> QED
    BY <2>1, <2>2 DEF Detached, h
<1>3. This.t \in Queued \cup {NoTrans}
  BY <1>2 DEF Claim
<1>4. UNCHANGED <<atVars, queueVars, diagVars, ownVars, logVars, verVars, timeVars, events>>
  BY DEF Loop
<1>5. UNCHANGED <<queueVars, timeVars, m_ver_state>> /\ UNCHANGED <<action_, client_>> /\ OwnInv'
  <2>1. UNCHANGED <<queueVars, timeVars, m_ver_state, action_, client_, armed, at_finished_, m_diag_handler, cur_diag_trans_>>
    BY <1>4 DEF atVars, verVars, ownVars, diagVars
  <2> QED
    BY <1>1, <2>1, OwnSame
<1>6. Rests(This) = {<<>>}
  BY <1>2, RestsNone
<1>7. CASE This.t = NoTrans
  <2>1. Then(<<>>)
    BY <1>7 DEF Loop
  <2> QED
    BY <1>2, <1>5, <2>1, QuietPop
<1>8. CASE This.t # NoTrans /\ state_[This.t] = "NOT_BEGIN"
  <2>1. Then(<<L("execute", This.t, "loop")>>) /\ This.t \in Queued /\ "loop" \in QueueCtx
    BY <1>3, <1>8 DEF Loop, QueueCtx
  <2> QED
    BY <1>2, <1>4, <1>6, <1>8, <2>1, ExecuteQueued
<1>9. CASE This.t # NoTrans /\ state_[This.t] # "NOT_BEGIN"
  <2>1. PICK l : l = L("loop", After(This.t), "")
    OBVIOUS
  <2>2. This.t \in Queued
    BY <1>3, <1>9
  <2>3. After(This.t) = NoTrans \/ After(This.t) \in Queued
    BY <1>1, <2>2, AfterIs
  <2>4. l \in Labels
    <3>1. After(This.t) \in Trans \cup {NoTrans}
      BY <1>1, <2>3
    <3> QED
      BY <2>1, <3>1, MakeLabel
  <2>5. l.op = "loop" /\ l.t = After(This.t) /\ l.ctx = "" /\ Then(<<l>>)
    BY <1>9, <2>1 DEF L, Loop
  <2>6. Tail(todo) \in Rests(l)
    BY <1>1, <1>2, <1>6, <2>5, ShapeIs, RestsNone
  <2>7. Claim(l)' /\ CallerClaim(l)' /\ ~Detached(l)
    <3>1. Queued' = Queued
      BY <1>5 DEF Queued, queueVars
    <3> QED
      BY <2>3, <2>5, <3>1 DEF Claim, CallerClaim, Detached, CallOps
  <2> QED
    BY <1>2, <1>5, <2>4, <2>5, <2>6, <2>7, QuietPush
<1> QED
  BY <1>7, <1>8, <1>9

LEMMA FrontStep ==
  ASSUME IInv, ~Crashed, FrontStarts
  PROVE  Good'
<1>1. Shape /\ Claims /\ OwnInv /\ transactions_ \in Seq(Trans) /\ Queued \subseteq Trans
  BY Parts
<1>2. /\ todo # <<>> /\ This.op = "front" /\ ~Detached(This) /\ This.ctx # "time"
      /\ This.op \notin {"notify", "cancel"}
  <2>1. At({"front"}) /\ {"front"} \in SUBSET DoOps
    BY DEF FrontStarts, DoOps
  <2> QED
    BY <1>1, <2>1, ThisDo
<1>3. UNCHANGED <<atVars, queueVars, diagVars, ownVars, logVars, verVars, timeVars, events>>
  BY DEF FrontStarts
<1>4. CASE First # NoTrans /\ state_[First] = "NOT_BEGIN"
  <2>1. Then(<<L("execute", First, "canceled")>>) /\ First \in Queued /\ "canceled" \in QueueCtx
    BY <1>1, <1>4, FirstIs DEF FrontStarts, QueueCtx
  <2>2. Rests(This) = {<<>>}
    BY <1>2, RestsNone
  <2> QED
    BY <1>2, <1>3, <1>4, <2>1, <2>2, ExecuteQueued
<1>5. CASE ~(First # NoTrans /\ state_[First] = "NOT_BEGIN")
  <2>1. Then(<<>>)
    BY <1>5 DEF FrontStarts
  <2>2. UNCHANGED <<queueVars, timeVars, m_ver_state>> /\ UNCHANGED <<action_, client_>> /\ OwnInv'
    <3>1. UNCHANGED <<queueVars, timeVars, m_ver_state, action_, client_, armed, at_finished_, m_diag_handler, cur_diag_trans_>>
      BY <1>3 DEF atVars, verVars, ownVars, diagVars
    <3> QED
      BY <1>1, <3>1, OwnSame
  <2> QED
    BY <1>2, <2>1, <2>2, QuietPop
<1> QED
  BY <1>4, <1>5

LEMMA EndDumpStep ==
  ASSUME IInv, ~Crashed, EndDump \/ EventMode
  PROVE  Good'
<1>1. Shape /\ Claims /\ OwnInv
  BY Parts
<1>2. /\ todo # <<>> /\ ~Detached(This) /\ This.ctx # "time"
      /\ This.op \notin {"notify", "cancel"}
  <2>1. At({"end_dump"}) \/ At({"event_mode"})
    BY DEF EndDump, EventMode
  <2>2. {"end_dump"} \in SUBSET DoOps /\ {"event_mode"} \in SUBSET DoOps
    BY DEF DoOps
  <2> QED
    BY <1>1, <2>1, <2>2, ThisDo
<1>3. UNCHANGED <<queueVars, timeVars, m_ver_state>> /\ UNCHANGED <<action_, client_>> /\ OwnInv' /\ Then(<<>>)
  <2>1. UNCHANGED <<queueVars, timeVars, m_ver_state, action_, client_, armed, at_finished_, m_diag_handler, cur_diag_trans_>>
          /\ Then(<<>>)
    BY DEF EndDump, EventMode, atVars, verVars, ownVars, diagVars
  <2> QED
    BY <1>1, <2>1, OwnSame
<1> QED
  BY <1>2, <1>3, QuietPop

LEMMA StartStep ==
  ASSUME IInv, ~Crashed, Start
  PROVE  Good'
<1>1. Shape /\ Claims /\ OwnInv
  BY Parts
<1>2. /\ todo # <<>> /\ This.op = "start" /\ ~Detached(This) /\ This.ctx # "time"
      /\ This.op \notin {"notify", "cancel"}
  <2>1. At({"start"}) /\ {"start"} \in SUBSET DoOps
    BY DEF Start, DoOps
  <2> QED
    BY <1>1, <2>1, ThisDo
<1>3. UNCHANGED <<queueVars, timeVars, m_ver_state>> /\ UNCHANGED <<action_, client_>> /\ OwnInv'
  <2>1. UNCHANGED <<queueVars, timeVars, m_ver_state, action_, client_, armed, at_finished_, m_diag_handler, cur_diag_trans_>>
    BY DEF Start, atVars, verVars, ownVars, diagVars
  <2> QED
    BY <1>1, <2>1, OwnSame
<1>4. CASE Then(<<>>)
  BY <1>2, <1>3, <1>4, QuietPop
<1>5. CASE Then(<<L("new", NoTrans, "version")>>)
  <2>1. PICK l : l = L("new", NoTrans, "version")
    OBVIOUS
  <2>2. l \in Labels
    <3>1. "version" \in NewCtx
      BY DEF NewCtx
    <3> QED
      BY <2>1, <3>1, MakeLabel
  <2>3. l.op = "new" /\ l.ctx = "version" /\ Then(<<l>>)
    BY <1>5, <2>1 DEF L
  <2>4. Claim(l)' /\ CallerClaim(l)' /\ ~Detached(l)
    BY <2>3, NoClaim
  <2>5. Tail(todo) \in Rests(l)
    <3>1. Tail(todo) \in Rests(This) /\ Rests(This) = {<<>>} \cup Ended \cup Finishing
      BY <1>1, <1>2, ShapeIs DEF Rests, CallOps
    <3>2. Rests(l) = AfterNew("version")
      BY <2>3, RestsOfCall
    <3> QED
      BY <3>1, <3>2 DEF AfterNew
  <2> QED
    BY <1>2, <1>3, <2>2, <2>3, <2>4, <2>5, QuietPush
<1> QED
  BY <1>4, <1>5 DEF Start

------------------------------------------------------------------------------
(* What happens when no handler runs.                                      *)

Fine == Shape /\ (~Crashed => CoreInv /\ QueryInv)

LEMMA GoodIsFine ==
  ASSUME Good'
  PROVE  Fine'
BY DEF Good, Fine

LEMMA CrashIsFine ==
  ASSUME Crash
  PROVE  Fine'
<1>1. PICK l : l = Do("crashed")
  OBVIOUS
<1>2. l \in Labels /\ l.op = "crashed"
  BY <1>1, MakeLabel, DoFields DEF DoOps
<1>3. <<>> \in Rests(l)
  BY <1>2 DEF Rests, CallOps
<1>4. todo' = <<l>>
  BY <1>1 DEF Crash
<1>5. Shape'
  BY <1>2, <1>3, <1>4, LastOne
<1> QED
  BY <1>5 DEF Fine, Crashed, Crash

LEMMA NoneToCallers ==
  ASSUME todo = <<>>
  PROVE  Left = {} /\ LeftToCallers = {}
BY DEF Left, LeftToCallers, Range

\* No handler holds an object: those that are not free are in the queue.
LEMMA IdleQueued ==
  ASSUME IInv, todo = <<>>, NEW t \in Trans, type_[t] # "FREE"
  PROVE  t \in Queued
<1>1. ObjectsInv
  BY Parts DEF Crashed
<1> QED
  BY <1>1, NoneToCallers DEF ObjectsInv

LEMMA IdleNone ==
  ASSUME IInv, todo = <<>>, todo' = <<>>,
         UNCHANGED <<queueVars, timeVars, m_ver_state>>, UNCHANGED <<action_, client_>> \/ ~Running', OwnInv'
  PROVE  Fine'
<1>1. Shape' /\ Left' = {} /\ LeftToCallers' = {}
  BY NoneLeft
<1> DEFINE N == {}
<1>2. /\ Left' = N \cup LeftToCallers /\ LeftToCallers' \subseteq N \cup LeftToCallers
      /\ \A m \in N : Claim(m)' /\ ~Detached(m) /\ m.ctx # "time"
      /\ \A m \in N : m.op = "cancel" => m.t \in Trans /\ type_[m.t] # "MODEM_TICK_QUERY"
      /\ \A m \in N \cap LeftToCallers' : CallerClaim(m)'
  BY <1>1, NoneToCallers
<1> HIDE DEF N
<1>3. UNCHANGED <<queueVars, timeVars>> /\ m_ver_state' \in {m_ver_state, "NOT_BEGIN", "FAILED"} /\ ~Crashed
  BY DEF Crashed
<1> QED
  BY <1>1, <1>2, <1>3, Quiet, GoodIsFine

LEMMA IdleOne ==
  ASSUME IInv, todo = <<>>, NEW l \in Labels, todo' = <<l>>, <<>> \in Rests(l),
         ~Detached(l), l.ctx # "time", Claim(l)',
         l.op = "cancel" => type_[l.t] # "MODEM_TICK_QUERY",
         UNCHANGED <<queueVars, timeVars, m_ver_state>>, UNCHANGED <<action_, client_>> \/ ~Running', OwnInv'
  PROVE  Fine'
<1>1. Shape' /\ Left' = {l} /\ LeftToCallers' = {}
  BY LastOne
<1> DEFINE N == {l}
<1>2. l.op = "cancel" => l.t \in Trans
  BY LabelIs DEF ObjectOps
<1>3. /\ Left' = N \cup LeftToCallers /\ LeftToCallers' \subseteq N \cup LeftToCallers
      /\ \A m \in N : Claim(m)' /\ ~Detached(m) /\ m.ctx # "time"
      /\ \A m \in N : m.op = "cancel" => m.t \in Trans /\ type_[m.t] # "MODEM_TICK_QUERY"
      /\ \A m \in N \cap LeftToCallers' : CallerClaim(m)'
  BY <1>1, <1>2, NoneToCallers
<1> HIDE DEF N
<1>4. UNCHANGED <<queueVars, timeVars>> /\ m_ver_state' \in {m_ver_state, "NOT_BEGIN", "FAILED"} /\ ~Crashed
  BY DEF Crashed
<1> QED
  BY <1>1, <1>3, <1>4, Quiet, GoodIsFine

LEMMA IdleTwo ==
  ASSUME IInv, todo = <<>>, NEW l \in Labels, NEW m \in Labels, todo' = <<l, m>>, <<m>> \in Rests(l),
         ~Detached(l), l.ctx # "time", l.op # "cancel", Claim(l)',
         ~Detached(m), m.ctx # "time", m.op # "cancel", Claim(m)', CallerClaim(m)',
         UNCHANGED <<queueVars, timeVars, m_ver_state>>, UNCHANGED <<action_, client_>> \/ ~Running', OwnInv'
  PROVE  Fine'
<1>1. Shape' /\ Left' = {l, m} /\ LeftToCallers' = {m}
  BY LastTwo
<1> DEFINE N == {l, m}
<1>3. /\ Left' = N \cup LeftToCallers /\ LeftToCallers' \subseteq N \cup LeftToCallers
      /\ \A k \in N : Claim(k)' /\ ~Detached(k) /\ k.ctx # "time" /\ k.op # "cancel"
      /\ \A k \in N \cap LeftToCallers' : CallerClaim(k)'
  BY <1>1, NoneToCallers
<1> HIDE DEF N
<1>4. UNCHANGED <<queueVars, timeVars>> /\ m_ver_state' \in {m_ver_state, "NOT_BEGIN", "FAILED"} /\ ~Crashed
  BY DEF Crashed
<1> QED
  BY <1>1, <1>3, <1>4, Quiet, GoodIsFine

LEMMA IdleThree ==
  ASSUME IInv, todo = <<>>, NEW l \in Labels, NEW m \in Labels, NEW n \in Labels,
         todo' = <<l, m, n>>, <<m, n>> \in Rests(l),
         \A k \in {l, m, n} : k.op \in DoOps \cup {"new"} /\ k.ctx # "time",
         UNCHANGED <<queueVars, timeVars, m_ver_state>>, UNCHANGED <<action_, client_>> \/ ~Running', OwnInv'
  PROVE  Fine'
<1>1. Shape' /\ Left' = {l, m, n} /\ LeftToCallers' = {m, n}
  BY LastThree
<1> DEFINE N == {l, m, n}
<1>2. \A k \in N : Claim(k)' /\ CallerClaim(k)' /\ ~Detached(k) /\ k.ctx # "time" /\ k.op # "cancel"
  BY NoClaim DEF DoOps
<1>3. /\ Left' = N \cup LeftToCallers /\ LeftToCallers' \subseteq N \cup LeftToCallers
      /\ \A k \in N \cap LeftToCallers' : CallerClaim(k)'
  BY <1>1, <1>2, NoneToCallers
<1> HIDE DEF N
<1>4. UNCHANGED <<queueVars, timeVars>> /\ m_ver_state' \in {m_ver_state, "NOT_BEGIN", "FAILED"} /\ ~Crashed
  BY DEF Crashed
<1> QED
  BY <1>1, <1>2, <1>3, <1>4, Quiet, GoodIsFine

\* The end of a transaction, of which no command runs.
LEMMA IdleFinish ==
  ASSUME IInv, todo = <<>>, NEW t \in Trans, type_[t] # "FREE", NEW s \in Results,
         todo' = <<L("finish", t, s)>>, ~RunsCommand(t)',
         UNCHANGED <<queueVars, timeVars, m_ver_state>>, UNCHANGED <<action_, client_>> \/ ~Running', OwnInv'
  PROVE  Fine'
<1>1. PICK l : l = L("finish", t, s)
  OBVIOUS
<1>2. l.op = "finish" /\ l.t = t /\ l.ctx = s /\ todo' = <<l>>
  BY <1>1 DEF L
<1>3. l \in Labels
  BY <1>1, MakeLabel
<1>4. t \in Queued'
  BY IdleQueued DEF Queued, queueVars
<1>5. Claim(l)' /\ ~Detached(l)
  BY <1>2, <1>4 DEF Claim, Detached, CallOps
<1>6. <<>> \in Rests(l)
  BY <1>2, RestsNone
<1>7. s # "time"
  BY DEF Results
<1> QED
  BY <1>2, <1>3, <1>5, <1>6, <1>7, IdleOne

\* The result of the command that ends.
LEMMA IdleResult ==
  ASSUME IInv, todo = <<>>, NEW ok \in {"OK", "FAIL"}, ReportResult(ok), ~Running',
         UNCHANGED transVars \/ UNCHANGED <<queueVars, diagVars, ownVars, logVars, verVars, timeVars, events>>
  PROVE  Fine'
<1>1. OwnInv /\ ~Crashed
  BY Parts DEF Crashed
<1>2. UNCHANGED <<queueVars, timeVars, m_ver_state>> /\ OwnInv'
  <2>1. UNCHANGED <<queueVars, timeVars, m_ver_state, armed, at_finished_, m_diag_handler, cur_diag_trans_>>
    BY DEF transVars, verVars, ownVars, diagVars
  <2> QED
    BY <1>1, <2>1, OwnSame
<1>3. CASE Running
  <2>1. client_ \in Trans /\ type_[client_] \in AtTypes /\ state_[client_] = "EXECUTING"
    BY <1>1, <1>3 DEF OwnInv, CommandInv
  <2>2. client_ \in Queued
    BY <2>1, IdleQueued, TypesApart
  <2>3. PICK l : l = L("result", client_, ok)
    OBVIOUS
  <2>4. l.op = "result" /\ l.t = client_ /\ l.ctx = ok /\ todo' = <<l>>
    BY <1>3, <2>3 DEF L, ReportResult
  <2>5. l \in Labels
    BY <2>1, <2>3, MakeLabel
  <2>6. PICK t : t = client_
    OBVIOUS
  <2>7. t \in Queued' /\ type_'[t] \in AtTypes /\ state_'[t] = "EXECUTING"
    BY <1>2, <2>1, <2>2, <2>6 DEF Queued, queueVars
  <2>8. Claim(l)' /\ ~Detached(l)
    BY <2>4, <2>6, <2>7 DEF Claim, Detached, CallOps
  <2>9. <<>> \in Rests(l)
    BY <2>4, RestsNone
  <2> QED
    BY <1>2, <2>4, <2>5, <2>8, <2>9, IdleOne
<1>4. CASE ~Running
  <2>1. todo' = <<>>
    BY <1>4 DEF ReportResult
  <2> QED
    BY <1>2, <2>1, IdleNone
<1> QED
  BY <1>3, <1>4

LEMMA AnswerStep ==
  ASSUME IInv, Answer \/ AtTimeout
  PROVE  Fine'
<1>1. PICK ok \in {"OK", "FAIL"} : ReportResult(ok)
  BY DEF Answer, AtTimeout
<1>2. action_' = "AT_NONE"
  BY DEF Answer, AtTimeout, AnswerArrives, TakeAnswer, CommandTimeout
<1>3. todo = <<>> /\ UNCHANGED <<queueVars, diagVars, ownVars, logVars, verVars, timeVars, events>>
  BY DEF Answer, AtTimeout, Idle
<1> QED
  BY <1>1, <1>2, <1>3, IdleResult DEF Running

LEMMA TickStep ==
  ASSUME IInv, TickArrives \/ AtReset
  PROVE  Fine'
<1>1. todo = <<>>
  BY DEF TickArrives, AtReset, Idle
<1>2. OwnInv
  BY <1>1, Parts DEF Crashed
<1>3. CASE Crash
  BY <1>3, CrashIsFine
<1>4. CASE ~Crash
  <2>1. /\ UNCHANGED <<action_, client_, todo, queueVars, timeVars, m_ver_state>>
        /\ UNCHANGED <<armed, at_finished_, m_diag_handler, cur_diag_trans_>>
    BY <1>4 DEF TickArrives, TimeInfo, AtReset, ModemForgets, transVars, verVars, ownVars, diagVars
  <2> QED
    BY <1>1, <1>2, <2>1, OwnSame, IdleNone
<1> QED
  BY <1>3, <1>4

\* A transaction on the diag device has no command.
LEMMA EndDiagStep ==
  ASSUME IInv, todo = <<>>, NEW t \in Trans, type_[t] \in DiagTypes,
         NEW results \in SUBSET Results, EndDiag(t, results),
         UNCHANGED <<atVars, queueVars, at_finished_, tick, logVars, verVars, timeVars, events>>
  PROVE  Fine'
<1>1. OwnInv
  BY Parts DEF Crashed
<1>2. PICK s \in Results : todo' = <<L("finish", t, s)>>
  BY DEF EndDiag, Results
<1>3. /\ UNCHANGED <<queueVars, timeVars, m_ver_state, action_, client_, at_finished_>> /\ armed' \subseteq armed
      /\ m_diag_handler' \in {m_diag_handler, NoTrans} /\ cur_diag_trans_' \in {cur_diag_trans_, NoTrans}
  BY DEF EndDiag, StopDiagTrans, diagVars, atVars, verVars
<1>4. OwnInv'
  BY <1>1, <1>3, OwnSame
<1>5. ~RunsCommand(t)'
  <2>1. ~RunsCommand(t)
    BY <1>1, TypesApart DEF OwnInv, CommandInv, RunsCommand
  <2> QED
    BY <1>3, <2>1 DEF RunsCommand, Running
<1>6. type_[t] # "FREE"
  BY TypesApart
<1> QED
  BY <1>2, <1>3, <1>4, <1>5, <1>6, IdleFinish

LEMMA DiagStep ==
  ASSUME IInv, DiagTimeout \/ DiagData
  PROVE  Fine'
<1>1. todo = <<>> /\ UNCHANGED <<atVars, queueVars, at_finished_, tick, logVars, verVars, timeVars, events>>
  BY DEF DiagTimeout, DiagData, Idle
<1>2. DeviceTypeOK /\ OwnInv
  BY <1>1, Parts DEF Crashed
<1>3. CASE Crash
  BY <1>3, CrashIsFine
<1>4. CASE DiagTimeout /\ ~Crash
  <2>1. PICK t \in armed : type_[t] \in DiagTypes \cup {"FREE"} /\ ~Freed(t) /\ EndDiag(t, {"FAILURE"})
    BY <1>4 DEF DiagTimeout
  <2>2. t \in Trans /\ t # NoTrans
    BY <1>2, NoTransIsNone DEF DeviceTypeOK
  <2>3. type_[t] \in DiagTypes /\ {"FAILURE"} \in SUBSET Results
    BY <2>1, <2>2 DEF Freed, Results
  <2> QED
    BY <1>1, <2>1, <2>2, <2>3, EndDiagStep
<1>5. CASE DiagData /\ ~Crash
  <2>1. PICK t : t = m_diag_handler
    OBVIOUS
  <2>2. t # NoTrans /\ ~Freed(t)
    BY <1>5, <2>1 DEF DiagData
  <2>3. PICK results \in SUBSET Results : EndDiag(t, results)
    <3>1. {"SUCCESS"} \in SUBSET Results /\ {"SUCCESS", "FAILURE"} \in SUBSET Results
      BY DEF Results
    <3> QED
      BY <1>5, <2>1, <3>1 DEF DiagData
  <2>4. t \in Trans /\ type_[t] \in DiagTypes
    BY <1>2, <2>1, <2>2 DEF DeviceTypeOK, OwnInv, DiagInv, Freed
  <2> QED
    BY <1>1, <2>3, <2>4, EndDiagStep
<1> QED
  BY <1>3, <1>4, <1>5

LEMMA LogTimerStep ==
  ASSUME IInv, LastLogTimeout \/ EventLogData
  PROVE  Fine'
<1>1. todo = <<>> /\ UNCHANGED <<atVars, queueVars, diagVars, at_finished_, tick, logVars, verVars, timeVars, events>>
  BY DEF LastLogTimeout, EventLogData, Idle
<1>2. DeviceTypeOK /\ OwnInv
  BY <1>1, Parts DEF Crashed
<1>3. PICK t \in armed :
        /\ armed' = armed \ {t}
        /\ \/ type_[t] = "SAVE_MODEM_LAST_LOG" /\ \E s \in Results : todo' = <<L("finish", t, s)>>
           \/ /\ type_[t] = "SAVE_EVENT_LOG" /\ t \in at_finished_
              /\ \E s \in Results : todo' = <<L("finish", t, s)>>
           \/ todo' = todo
  BY DEF LastLogTimeout, EventLogData, Results
<1>4. t \in Trans
  BY <1>2 DEF DeviceTypeOK
<1>5. UNCHANGED <<queueVars, timeVars, m_ver_state>> /\ UNCHANGED <<action_, client_>> /\ OwnInv'
  <2>1. /\ UNCHANGED <<queueVars, timeVars, m_ver_state, action_, client_, at_finished_, m_diag_handler, cur_diag_trans_>>
        /\ armed' \subseteq armed
    BY <1>1, <1>3 DEF atVars, verVars, diagVars
  <2> QED
    BY <1>2, <2>1, OwnSame
<1>6. CASE todo' = todo
  BY <1>1, <1>5, <1>6, IdleNone
<1>7. ASSUME NEW s \in Results, todo' = <<L("finish", t, s)>>,
             type_[t] = "SAVE_MODEM_LAST_LOG" \/ (type_[t] = "SAVE_EVENT_LOG" /\ t \in at_finished_)
      PROVE  Fine'
  <2>1. ~RunsCommand(t)
    BY <1>2, <1>7 DEF OwnInv, CommandInv, RunsCommand, AtTypes
  <2>2. ~RunsCommand(t)'
    BY <1>5, <2>1 DEF RunsCommand, Running
  <2>3. type_[t] # "FREE"
    BY <1>7
  <2> QED
    BY <1>1, <1>4, <1>5, <1>7, <2>2, <2>3, IdleFinish
<1> QED
  BY <1>3, <1>6, <1>7

------------------------------------------------------------------------------
(* Requests, events and timers: new transactions are asked for.            *)

LEMMA NewLabel ==
  ASSUME NEW c \in NewCtx
  PROVE  /\ L("new", NoTrans, c) \in Labels /\ L("new", NoTrans, c).op = "new" /\ L("new", NoTrans, c).ctx = c
         /\ Rests(L("new", NoTrans, c)) = AfterNew(c)
<1>1. PICK l : l = L("new", NoTrans, c)
  OBVIOUS
<1>2. l \in Labels
  BY <1>1, MakeLabel
<1>3. l.op = "new" /\ l.ctx = c
  BY <1>1 DEF L
<1>4. Rests(l) = AfterNew(c)
  BY <1>3, RestsOfCall
<1> QED
  BY <1>1, <1>2, <1>3, <1>4

\* No handler runs, and none of the objects is touched.
LEMMA IdleOwn ==
  ASSUME IInv, todo = <<>>,
         UNCHANGED <<action_, client_, queueVars, armed, at_finished_, m_diag_handler, cur_diag_trans_>>
  PROVE  OwnInv'
<1>1. OwnInv
  BY Parts DEF Crashed
<1> QED
  BY <1>1, OwnSame

LEMMA IdleNew ==
  ASSUME IInv, todo = <<>>, NEW c \in NewCtx \ {"time", "etb", "dump"}, todo' = <<L("new", NoTrans, c)>>,
         UNCHANGED <<queueVars, timeVars, m_ver_state, action_, client_, armed, at_finished_, m_diag_handler, cur_diag_trans_>>
  PROVE  Fine'
<1>1. PICK l : l = L("new", NoTrans, c)
  OBVIOUS
<1>2. l \in Labels /\ l.op = "new" /\ l.ctx = c /\ Rests(l) = AfterNew(c) /\ todo' = <<l>>
  BY <1>1, NewLabel
<1>3. <<>> \in Rests(l)
  BY <1>2 DEF AfterNew
<1>4. Claim(l)' /\ ~Detached(l)
  BY <1>2, NoClaim
<1>5. OwnInv'
  BY IdleOwn
<1>6. UNCHANGED <<queueVars, timeVars, m_ver_state>> /\ UNCHANGED <<action_, client_>>
  OBVIOUS
<1> QED
  BY <1>2, <1>3, <1>4, <1>5, <1>6, IdleOne

LEMMA ModemEventStep ==
  ASSUME IInv, ModemEvent \/ RequeryModemVer
  PROVE  Fine'
<1>1. /\ todo = <<>>
      /\ UNCHANGED <<queueVars, timeVars, m_ver_state, action_, client_, armed, at_finished_, m_diag_handler, cur_diag_trans_>>
  BY DEF ModemEvent, RequeryModemVer, Event, Idle, atVars, verVars, ownVars, diagVars
<1>2. todo' = <<L("new", NoTrans, "event")>> \/ todo' = <<L("new", NoTrans, "requery")>>
  BY DEF ModemEvent, RequeryModemVer
<1>3. {"event", "requery"} \subseteq NewCtx \ {"time", "etb", "dump"}
  BY DEF NewCtx
<1> QED
  BY <1>1, <1>2, <1>3, IdleNew

LEMMA ClientRequestStep ==
  ASSUME IInv, ClientRequest
  PROVE  Fine'
<1>1. /\ todo = <<>>
      /\ UNCHANGED <<queueVars, timeVars, m_ver_state, action_, client_, armed, at_finished_, m_diag_handler, cur_diag_trans_>>
  BY DEF ClientRequest, Event, Idle, atVars, verVars, ownVars, diagVars
<1>2. transactions_ \in Seq(Trans) /\ Queued \subseteq Trans
  BY <1>1, Parts DEF Crashed
<1>3. PICK ty \in Requests :
        todo' = (IF ty = "STOP_LOG" /\ Len(transactions_) = 1 /\ type_[First] = "VERSION_QUERY"
                 THEN <<L("drop", First, "")>> ELSE <<>>) \o <<L("new", NoTrans, ty)>>
  BY DEF ClientRequest
<1>4. ty \in NewCtx \ {"time", "etb", "dump"}
  BY DEF NewCtx, Requests
<1>5. PICK m : m = L("new", NoTrans, ty)
  OBVIOUS
<1>6. m \in Labels /\ m.op = "new" /\ m.ctx = ty /\ Rests(m) = AfterNew(ty)
  BY <1>4, <1>5, NewLabel
<1>7. CASE ~(ty = "STOP_LOG" /\ Len(transactions_) = 1 /\ type_[First] = "VERSION_QUERY")
  <2>1. todo' = <<>> \o <<m>>
    BY <1>3, <1>5, <1>7
  <2>2. <<m>> \in Seq(Labels)
    BY <1>6, OneLabel
  <2>3. todo' = <<L("new", NoTrans, ty)>>
    BY <1>5, <2>1, <2>2, NoMoreLabels
  <2> QED
    BY <1>1, <1>4, <2>3, IdleNew
<1>8. CASE ty = "STOP_LOG" /\ Len(transactions_) = 1 /\ type_[First] = "VERSION_QUERY"
  <2>1. PICK t : t = First
    OBVIOUS
  <2>2. t \in Queued /\ t \in Trans
    <3>1. transactions_ # <<>> /\ 1 \in DOMAIN transactions_ /\ Head(transactions_) = transactions_[1]
      BY <1>2, <1>8
    <3>2. t = transactions_[1]
      BY <2>1, <3>1 DEF First
    <3> QED
      BY <1>2, <3>1, <3>2 DEF Queued
  <2>3. PICK l : l = L("drop", t, "")
    OBVIOUS
  <2>4. l.op = "drop" /\ l.t = t /\ l.ctx = ""
    BY <2>3 DEF L
  <2>5. l \in Labels
    BY <2>2, <2>3, MakeLabel DEF ObjectOps
  <2>6. todo' = <<l, m>>
    <3>1. todo' = <<l>> \o <<m>>
      BY <1>3, <1>5, <1>8, <2>1, <2>3
    <3> QED
      BY <1>6, <2>5, <3>1, OneAndOne
  <2>7. <<m>> \in Rests(l)
    BY <1>5, <1>8, <2>4 DEF Rests, CallOps
  <2>8. Claim(l)' /\ ~Detached(l)
    <3>1. t \in Queued' /\ type_'[t] = "VERSION_QUERY"
      BY <1>1, <1>8, <2>1, <2>2 DEF Queued, queueVars
    <3> QED
      BY <2>4, <3>1 DEF Claim, Detached, CallOps
  <2>9. Claim(m)' /\ CallerClaim(m)' /\ ~Detached(m)
    BY <1>6, NoClaim
  <2>10. OwnInv'
    BY <1>1, IdleOwn
  <2>11. UNCHANGED <<queueVars, timeVars, m_ver_state>> /\ UNCHANGED <<action_, client_>>
    BY <1>1
  <2> QED
    BY <1>1, <1>4, <1>6, <2>4, <2>5, <2>6, <2>7, <2>8, <2>9, <2>10, <2>11, IdleTwo
<1> QED
  BY <1>7, <1>8

LEMMA ClientLeavesStep ==
  ASSUME IInv, ClientLeaves
  PROVE  Fine'
<1>1. /\ todo = <<>>
      /\ UNCHANGED <<queueVars, timeVars, m_ver_state, action_, client_, armed, at_finished_, m_diag_handler, cur_diag_trans_>>
  BY DEF ClientLeaves, Event, Idle, atVars, verVars, ownVars, diagVars
<1>2. Queued \subseteq Trans
  BY <1>1, Parts DEF Crashed
<1>3. PICK t \in Queued : type_[t] \in GlobalTypes /\ todo' = <<L("cancel", t, "")>>
  BY DEF ClientLeaves
<1>4. PICK l : l = L("cancel", t, "")
  OBVIOUS
<1>5. l.op = "cancel" /\ l.t = t /\ l.ctx = "" /\ todo' = <<l>>
  BY <1>3, <1>4 DEF L
<1>6. l \in Labels
  BY <1>2, <1>4, MakeLabel DEF ObjectOps
<1>7. <<>> \in Rests(l)
  BY <1>5, RestsNone
<1>8. Claim(l)' /\ ~Detached(l)
  <2>1. t \in Queued' /\ type_'[t] \in GlobalTypes
    BY <1>1, <1>3 DEF Queued, queueVars
  <2> QED
    BY <1>5, <2>1 DEF Claim, Detached, CallOps
<1>9. OwnInv'
  BY <1>1, IdleOwn
<1>10. UNCHANGED <<queueVars, timeVars, m_ver_state>> /\ UNCHANGED <<action_, client_>>
  BY <1>1
<1>11. type_[l.t] # "MODEM_TICK_QUERY"
  BY <1>3, <1>5, TypesApart
<1> QED
  BY <1>1, <1>5, <1>6, <1>7, <1>8, <1>9, <1>10, <1>11, IdleOne

LEMMA ProcessAssertStep ==
  ASSUME IInv, ProcessAssert
  PROVE  Fine'
<1>1. /\ todo = <<>>
      /\ UNCHANGED <<queueVars, timeVars, m_ver_state, action_, client_, armed, at_finished_, m_diag_handler, cur_diag_trans_>>
  BY DEF ProcessAssert, Event, Idle, atVars, verVars, ownVars, diagVars
<1>2. OwnInv' /\ UNCHANGED <<queueVars, timeVars, m_ver_state>> /\ UNCHANGED <<action_, client_>>
  BY <1>1, IdleOwn
<1>3. PICK evt \in CpEvents, shall_dump \in BOOLEAN :
        todo' = (IF ~shall_dump THEN <<Do("end_dump")>>
                 ELSE (IF evt = "CE_BLOCKED" THEN <<L("new", NoTrans, "etb")>> ELSE <<>>)
                      \o <<L("new", NoTrans, "dump")>>)
                \o <<Do("time_assert")>>
  BY DEF ProcessAssert
<1>4. PICK e, d, b, a : e = Do("end_dump") /\ d = L("new", NoTrans, "dump") /\ b = L("new", NoTrans, "etb")
                          /\ a = Do("time_assert")
  OBVIOUS
<1>5. /\ e \in Labels /\ e.op = "end_dump" /\ e.ctx = "" /\ a \in Labels /\ a.op = "time_assert" /\ a.ctx = ""
      /\ d \in Labels /\ d.op = "new" /\ d.ctx = "dump" /\ Rests(d) = AfterNew("dump")
      /\ b \in Labels /\ b.op = "new" /\ b.ctx = "etb" /\ Rests(b) = AfterNew("etb")
  BY <1>4, NewLabel, MakeLabel, DoFields DEF NewCtx, DoOps
<1>6. /\ Claim(e)' /\ ~Detached(e) /\ Claim(d)' /\ ~Detached(d)
      /\ Claim(a)' /\ CallerClaim(a)' /\ ~Detached(a)
  BY <1>5, NoClaim DEF DoOps
<1>7. <<a>> \in Rests(e) /\ <<a>> \in Rests(d) /\ <<d, a>> \in Rests(b)
  <2>1. Rests(e) = {<<a>>} \cup Back
    BY <1>4, <1>5 DEF Rests, CallOps
  <2>2. AfterNew("dump") = {<<a>>} /\ AfterNew("etb") = {<<d, a>>}
    BY <1>4 DEF AfterNew
  <2> QED
    BY <1>5, <2>1, <2>2
<1>8. CASE ~shall_dump
  <2>1. todo' = <<e>> \o <<a>>
    BY <1>3, <1>4, <1>8
  <2>2. todo' = <<e, a>>
    BY <1>5, <2>1, OneAndOne
  <2> QED
    BY <1>1, <1>2, <1>5, <1>6, <1>7, <2>2, IdleTwo
<1>9. CASE shall_dump /\ evt # "CE_BLOCKED"
  <2>1. todo' = (<<>> \o <<d>>) \o <<a>>
    BY <1>3, <1>4, <1>9
  <2>2. <<>> \o <<d>> = <<d>>
    BY <1>5, OneLabel, NoMoreLabels
  <2>3. todo' = <<d, a>>
    BY <1>5, <2>1, <2>2, OneAndOne
  <2> QED
    BY <1>1, <1>2, <1>5, <1>6, <1>7, <2>3, IdleTwo
<1>10. CASE shall_dump /\ evt = "CE_BLOCKED"
  <2>1. todo' = (<<b>> \o <<d>>) \o <<a>>
    BY <1>3, <1>4, <1>10
  <2>2. <<b>> \o <<d>> = <<b, d>>
    BY <1>5, OneAndOne
  <2>3. <<b, d>> \o <<a>> = <<b, d, a>>
    <3>1. /\ <<b, d>> \in Seq(Labels) /\ Len(<<b, d>>) = 2 /\ <<b, d>>[1] = b /\ <<b, d>>[2] = d
          /\ <<a>> \in Seq(Labels) /\ Len(<<a>>) = 1 /\ <<a>>[1] = a
      <4>1. Len(<<b, d>>) = 2 /\ <<b, d>>[1] = b /\ <<b, d>>[2] = d /\ Len(<<a>>) = 1 /\ <<a>>[1] = a
        OBVIOUS
      <4> QED
        BY <1>5, <4>1, OneLabel, TwoLabels
    <3> DEFINE x == <<b, d>>
               y == <<a>>
               z == x \o y
    <3> HIDE DEF x, y
    <3>2. z \in Seq(Labels) /\ Len(z) = 3 /\ z[1] = b /\ z[2] = d /\ z[3] = a
      BY <3>1 DEF x, y
    <3> HIDE DEF z
    <3>3. z = <<b, d, a>>
      BY <3>2
    <3> QED
      BY <3>3 DEF x, y, z
  <2>4. todo' = <<b, d, a>>
    BY <2>1, <2>2, <2>3
  <2>5. \A k \in {b, d, a} : k.op \in DoOps \cup {"new"} /\ k.ctx # "time"
    BY <1>5 DEF DoOps
  <2> QED
    BY <1>1, <1>2, <1>5, <1>7, <2>4, <2>5, IdleThree
<1> QED
  BY <1>8, <1>9, <1>10

\* The time is asked for when it is neither known nor being asked for.
LEMMA AskTime ==
  ASSUME TimeInv, Shape, todo = <<>>, trans_state_ \notin {"EXECUTING", "SUCCESS"},
         NEW N, Left' = N, \E l \in N : l.ctx = "time", \A l \in N : l.op = "new",
         retry' = FALSE, UNCHANGED <<trans_state_, trans_ts_, ts, type_>>
  PROVE  TimeInv'
<1>1. Asking'
  BY DEF Asking
<1>2. Left = {} /\ trans_ts_ = NoTrans
  BY NoneToCallers DEF TimeInv
<1>3. \A t \in Trans : type_[t] # "MODEM_TICK_QUERY"
  BY <1>2, NoTransIsNone DEF TimeInv
<1>4. /\ trans_state_ = "SUCCESS" => ts # "none"
      /\ trans_state_ = "NOT_BEGIN" => ts = "none"
  BY DEF TimeInv
<1>5. \A l \in Left' : l.op # "cancel"
  OBVIOUS
<1> QED
  BY <1>1, <1>2, <1>3, <1>4, <1>5 DEF TimeInv

LEMMA AskStep ==
  ASSUME IInv, todo = <<>>, Shape', NEW N, Left' = N, LeftToCallers' \subseteq N,
         \A l \in N : l.op = "new", (\E l \in N : l.ctx = "time") <=> trans_state_ \notin {"EXECUTING", "SUCCESS"},
         retry' = (retry /\ trans_state_ \in {"EXECUTING", "SUCCESS"}),
         UNCHANGED <<action_, client_, queueVars, armed, at_finished_, m_diag_handler, cur_diag_trans_,
                     m_ver_state, trans_state_, trans_ts_, ts>>
  PROVE  Fine'
<1>1. /\ Shape /\ VersionInv /\ TimeInv /\ IsInjective(transactions_) /\ Queued \subseteq Trans /\ ~Crashed
      /\ QueryTypeOK
  BY Parts DEF Crashed
<1>2. UNCHANGED <<transactions_, type_>> /\ Queued' = Queued
  BY <1>1, SameQueue DEF queueVars
<1>3. OwnInv'
  BY IdleOwn
<1>4. LeftToCallers = {} /\ Left = {}
  BY NoneToCallers
<1>5. \A l \in N : Claim(l)' /\ CallerClaim(l)' /\ ~Detached(l)
  BY NoClaim
<1>6. Claims' /\ ObjectsInv'
  <2>1. Left' = N \cup LeftToCallers /\ LeftToCallers' \subseteq N \cup LeftToCallers
    BY <1>4
  <2>2. /\ \A l \in N : Claim(l)' /\ ~Detached(l)
        /\ \A l \in N \cap LeftToCallers' : CallerClaim(l)'
        /\ todo # <<>> => ~Detached(This)
    BY <1>5
  <2>3. UNCHANGED queueVars /\ UNCHANGED <<action_, client_>>
    OBVIOUS
  <2> QED
    BY <1>1, <2>1, <2>2, <2>3, QuietCore
<1>7. VersionInv'
  BY <1>1, <1>2, VersionKeeps
<1>8. TimeInv'
  <2>1. CASE trans_state_ \notin {"EXECUTING", "SUCCESS"}
    <3>1. retry' = FALSE
      BY <2>1
    <3> QED
      BY <1>1, <1>2, <2>1, <3>1, AskTime
  <2>2. CASE trans_state_ \in {"EXECUTING", "SUCCESS"}
    <3>1. ~Asking
      BY <1>4 DEF Asking
    <3>2. retry' = retry
      BY <1>1, <2>2 DEF QueryTypeOK
    <3>3. /\ Left' = N \cup LeftToCallers
          /\ (\E l \in N : l.ctx = "time") <=> Asking
          /\ \A l \in N : l.op = "cancel" => l.t \in Trans /\ type_[l.t] # "MODEM_TICK_QUERY"
      BY <1>4, <2>2, <3>1
    <3> QED
      BY <1>1, <1>2, <3>2, <3>3, TimeKeeps
  <2> QED
    BY <2>1, <2>2
<1> QED
  BY <1>3, <1>6, <1>7, <1>8 DEF Fine, CoreInv, QueryInv, OwnInv

LEMMA StartQueryStep ==
  ASSUME IInv, StartQuery
  PROVE  Fine'
<1>1. /\ todo = <<>> /\ retry /\ retry' = FALSE /\ todo' = <<L("new", NoTrans, "time")>>
      /\ UNCHANGED <<action_, client_, queueVars, armed, at_finished_, m_diag_handler, cur_diag_trans_,
                     m_ver_state, trans_state_, trans_ts_, ts>>
  BY DEF StartQuery, Idle, atVars, verVars, ownVars, diagVars
<1>2. trans_state_ \notin {"EXECUTING", "SUCCESS"}
  <2>1. TimeInv
    BY <1>1, Parts DEF Crashed
  <2> QED
    BY <1>1, <2>1 DEF TimeInv
<1>3. PICK l : l = L("new", NoTrans, "time")
  OBVIOUS
<1>4. l \in Labels /\ l.op = "new" /\ l.ctx = "time" /\ Rests(l) = AfterNew("time") /\ todo' = <<l>>
  BY <1>1, <1>3, NewLabel DEF NewCtx
<1>5. <<>> \in Rests(l)
  BY <1>4 DEF AfterNew
<1>6. Shape' /\ Left' = {l} /\ LeftToCallers' = {}
  BY <1>4, <1>5, LastOne
<1> DEFINE N == {l}
<1>7. /\ Left' = N /\ LeftToCallers' \subseteq N /\ \A k \in N : k.op = "new"
      /\ (\E k \in N : k.ctx = "time") <=> trans_state_ \notin {"EXECUTING", "SUCCESS"}
  BY <1>2, <1>4, <1>6
<1> HIDE DEF N
<1>8. retry' = (retry /\ trans_state_ \in {"EXECUTING", "SUCCESS"})
  BY <1>1, <1>2
<1> QED
  BY <1>1, <1>6, <1>7, <1>8, AskStep

LEMMA ProcessAliveStep ==
  ASSUME IInv, ProcessAlive
  PROVE  Fine'
<1> DEFINE again == trans_state_ \notin {"EXECUTING", "SUCCESS"}
           ver == log_mode_ # "LM_OFF" /\ m_ver_state \in {"NOT_BEGIN", "FAILED"}
<1>1. /\ todo = <<>> /\ retry' = (retry /\ ~again)
      /\ todo' = (IF again THEN <<L("new", NoTrans, "time")>> ELSE <<>>)
                 \o (IF ver THEN <<L("new", NoTrans, "version")>> ELSE <<>>)
      /\ UNCHANGED <<action_, client_, queueVars, armed, at_finished_, m_diag_handler, cur_diag_trans_,
                     m_ver_state, trans_state_, trans_ts_, ts>>
  BY DEF ProcessAlive, Event, Idle, atVars, verVars, ownVars, diagVars
<1>2. PICK l, v : l = L("new", NoTrans, "time") /\ v = L("new", NoTrans, "version")
  OBVIOUS
<1>3. /\ l \in Labels /\ l.op = "new" /\ l.ctx = "time" /\ Rests(l) = AfterNew("time")
      /\ v \in Labels /\ v.op = "new" /\ v.ctx = "version" /\ Rests(v) = AfterNew("version")
  BY <1>2, NewLabel DEF NewCtx
<1>4. <<>> \in Rests(l) /\ <<v>> \in Rests(l) /\ <<>> \in Rests(v)
  BY <1>2, <1>3 DEF AfterNew
<1>5. todo' = (IF again THEN <<l>> ELSE <<>>) \o (IF ver THEN <<v>> ELSE <<>>)
  BY <1>1, <1>2
<1>6. <<l>> \in Seq(Labels) /\ <<v>> \in Seq(Labels)
  BY <1>3, OneLabel
<1> HIDE DEF ver
<1>7. \E N : /\ Shape' /\ Left' = N /\ LeftToCallers' \subseteq N /\ \A k \in N : k.op = "new"
             /\ (\E k \in N : k.ctx = "time") <=> again
  <2>1. CASE again /\ ver
    <3>1. todo' = <<l, v>>
      BY <1>3, <1>5, <2>1, OneAndOne
    <3>2. Shape' /\ Left' = {l, v} /\ LeftToCallers' = {v}
      BY <1>3, <1>4, <3>1, LastTwo
    <3> QED
      BY <1>3, <2>1, <3>2
  <2>2. CASE again /\ ~ver
    <3>1. todo' = <<l>> \o <<>>
      BY <1>5, <2>2
    <3>2. todo' = <<l>>
      BY <1>6, <3>1, NoMoreLabels
    <3>3. Shape' /\ Left' = {l} /\ LeftToCallers' = {}
      BY <1>3, <1>4, <3>2, LastOne
    <3> QED
      BY <1>3, <2>2, <3>3
  <2>3. CASE ~again /\ ver
    <3>1. todo' = <<>> \o <<v>>
      BY <1>5, <2>3
    <3>2. todo' = <<v>>
      BY <1>6, <3>1, NoMoreLabels
    <3>3. Shape' /\ Left' = {v} /\ LeftToCallers' = {}
      BY <1>3, <1>4, <3>2, LastOne
    <3> QED
      BY <1>3, <2>3, <3>3
  <2>4. CASE ~again /\ ~ver
    <3>1. todo' = <<>> \o <<>>
      BY <1>5, <2>4
    <3>2. todo' = <<>>
      BY <3>1
    <3>3. Shape' /\ Left' = {} /\ LeftToCallers' = {}
      BY <3>2, NoneLeft
    <3> QED
      BY <2>4, <3>3
  <2> QED
    BY <2>1, <2>2, <2>3, <2>4
<1>8. PICK N : /\ Shape' /\ Left' = N /\ LeftToCallers' \subseteq N /\ \A k \in N : k.op = "new"
               /\ (\E k \in N : k.ctx = "time") <=> again
  BY <1>7
<1>9. retry' = (retry /\ trans_state_ \in {"EXECUTING", "SUCCESS"})
  BY <1>1
<1> QED
  BY <1>1, <1>8, <1>9, AskStep

------------------------------------------------------------------------------
(* Results of commands, and the assertion.                                 *)

\* Nobody waits for the call.
LEMMA ThisLast ==
  ASSUME Shape, todo # <<>>, Rests(This) = {<<>>}
  PROVE  /\ LeftToCallers = {}
         /\ \A s \in Seq(Labels) : Then(s) => todo' = s
<1>1. Tail(todo) = <<>>
  BY ShapeIs
<1>2. LeftToCallers = {}
  BY <1>1 DEF LeftToCallers, Range
<1>3. ASSUME NEW s \in Seq(Labels), Then(s)
      PROVE  todo' = s
  <2>1. todo' = s \o <<>>
    BY <1>1, <1>3 DEF Then
  <2> QED
    BY <2>1, NoMoreLabels
<1> QED
  BY <1>2, <1>3

LEMMA CommandResultStep ==
  ASSUME IInv, ~Crashed, CommandResult
  PROVE  Good'
<1>1. Shape /\ Claims /\ OwnInv /\ Queued \subseteq Trans
  BY Parts
<1>2. At({"result"})
  BY DEF CommandResult
<1>3. todo # <<>> /\ This.op = "result" /\ Claim(This) /\ This.t \in Trans /\ This.ctx \in {"OK", "FAIL"}
  BY <1>1, <1>2, ThisClaim, ThisObject
<1>4. PICK t : t = This.t
  OBVIOUS
<1>5. t \in Trans /\ t \in Queued /\ type_[t] \in AtTypes /\ ~Running
  BY <1>3, <1>4 DEF Claim
<1>6. UNCHANGED <<queueVars, timeVars, m_ver_state, action_, client_, armed, at_finished_, m_diag_handler, cur_diag_trans_>>
  BY DEF CommandResult, atVars, verVars, ownVars, diagVars
<1>7. OwnInv'
  BY <1>1, <1>6, OwnSame
<1>8. ~Detached(This) /\ This.ctx # "time" /\ Rests(This) = {<<>>}
  BY <1>3, RestsNone DEF Detached
<1>9. LeftToCallers = {} /\ \A s \in Seq(Labels) : Then(s) => todo' = s
  BY <1>1, <1>3, <1>8, ThisLast
<1>10. PICK f, e, b, a : /\ f = L("finish", t, ResultOf(This.ctx)) /\ e = Do("event_mode")
                         /\ b = Do("stop") /\ a = Do("start")
  OBVIOUS
<1>11. /\ e \in Labels /\ e.op = "event_mode" /\ e.ctx = ""
       /\ b \in Labels /\ b.op = "stop" /\ b.ctx = "" /\ a \in Labels /\ a.op = "start" /\ a.ctx = ""
  BY <1>10, MakeLabel, DoFields DEF DoOps
<1>12. f \in Labels /\ f.op = "finish" /\ f.t = t /\ f.ctx \in Results
  <2>1. ResultOf(This.ctx) \in Results
    BY DEF ResultOf, Results
  <2>2. f \in Labels
    BY <1>5, <1>10, <2>1, MakeLabel
  <2> QED
    BY <1>10, <2>1, <2>2 DEF L
<1>13. Claim(f)' /\ CallerClaim(f)' /\ ~Detached(f) /\ f.ctx # "time"
  <2>1. t \in Queued' /\ ~RunsCommand(t)' /\ type_'[t] \in AtTypes
    BY <1>5, <1>6 DEF Queued, queueVars, RunsCommand, Running
  <2> QED
    BY <1>12, <2>1 DEF Claim, CallerClaim, Detached, CallOps, Results
<1>14. \A k \in {e, b, a} : Claim(k)' /\ CallerClaim(k)' /\ ~Detached(k) /\ k.ctx # "time" /\ k.op # "cancel"
  BY <1>11, NoClaim DEF DoOps
<1>15. /\ <<f>> \in Rests(e) /\ <<f>> \in Rests(b) /\ <<f>> \in Rests(a) /\ <<>> \in Rests(f)
       /\ <<e, f>> \in Rests(b)
  <2>1. <<f>> \in Finishing
    <3>1. ResultOf(This.ctx) \in Results
      BY DEF ResultOf, Results
    <3> QED
      BY <1>5, <1>10, <3>1 DEF Finishing
  <2>2. <<e, f>> = <<e>> \o <<f>>
    BY <1>11, <1>12, OneAndOne
  <2>3. <<e, f>> \in {<<Do("event_mode")>> \o r : r \in Finishing}
    BY <1>10, <2>1, <2>2
  <2>4. Rests(e) = Finishing
    BY <1>11 DEF Rests, CallOps
  <2>5. Rests(b) = Ended \cup Finishing \cup {<<Do("event_mode")>> \o r : r \in Finishing}
    BY <1>11 DEF Rests, CallOps
  <2>6. Rests(a) = {<<>>} \cup Ended \cup Finishing
    BY <1>11 DEF Rests, CallOps
  <2>7. Rests(f) = {<<>>}
    BY <1>12, RestsNone
  <2> QED
    BY <2>1, <2>3, <2>4, <2>5, <2>6, <2>7
<1>16. <<>> \in Seq(Labels) /\ <<f>> \in Seq(Labels) /\ <<e>> \in Seq(Labels) /\ <<b>> \in Seq(Labels)
       /\ <<a>> \in Seq(Labels) /\ <<e, f>> \in Seq(Labels) /\ <<b, f>> \in Seq(Labels)
       /\ <<a, f>> \in Seq(Labels) /\ <<b, e>> \in Seq(Labels)
  BY <1>11, <1>12, OneLabel, TwoLabels
<1>17. \/ todo' = <<>> \/ todo' = <<f>> \/ todo' = <<e, f>> \/ todo' = <<b, f>> \/ todo' = <<a, f>>
       \/ todo' = <<b, e, f>>
  <2>1. \/ Then(<<>>)
        \/ Then(<<>> \o <<f>>)
        \/ Then(Consequence(type_[t]) \o <<f>>)
    BY <1>4, <1>10 DEF CommandResult
  <2>2. Consequence(type_[t]) \in {<<>>, <<b>>, <<a>>, <<b>> \o <<e>>, <<>> \o <<e>>}
    BY <1>10 DEF Consequence
  <2>3. /\ <<>> \o <<f>> = <<f>> /\ <<b>> \o <<f>> = <<b, f>> /\ <<a>> \o <<f>> = <<a, f>>
        /\ <<e>> \o <<f>> = <<e, f>> /\ <<b>> \o <<e>> = <<b, e>> /\ <<>> \o <<e>> = <<e>>
    BY <1>11, <1>12, <1>16, OneAndOne, NoMoreLabels
  <2>4. <<b, e>> \o <<f>> = <<b, e, f>> /\ <<b, e, f>> \in Seq(Labels)
    <3>1. /\ Len(<<b, e>>) = 2 /\ <<b, e>>[1] = b /\ <<b, e>>[2] = e /\ Len(<<f>>) = 1 /\ <<f>>[1] = f
      OBVIOUS
    <3> DEFINE x == <<b, e>>
               y == <<f>>
               z == x \o y
    <3>2. x \in Seq(Labels) /\ y \in Seq(Labels)
      BY <1>16
    <3> HIDE DEF x, y
    <3>3. z \in Seq(Labels) /\ Len(z) = 3 /\ z[1] = b /\ z[2] = e /\ z[3] = f
      BY <3>1, <3>2 DEF x, y
    <3> HIDE DEF z
    <3>4. z = <<b, e, f>>
      BY <3>3
    <3> QED
      BY <3>3, <3>4 DEF x, y, z
  <2>5. \/ Then(<<>>) \/ Then(<<f>>) \/ Then(<<e, f>>) \/ Then(<<b, f>>) \/ Then(<<a, f>>)
        \/ Then(<<b, e, f>>)
    <3>1. Then(Consequence(type_[t]) \o <<f>>) =>
            \/ Then(<<f>>) \/ Then(<<e, f>>) \/ Then(<<b, f>>) \/ Then(<<a, f>>) \/ Then(<<b, e, f>>)
      BY <2>2, <2>3, <2>4
    <3> QED
      BY <2>1, <2>3, <3>1
  <2> QED
    BY <1>9, <1>16, <2>4, <2>5
<1>18. \E N : /\ Shape' /\ Left' = N /\ LeftToCallers' \subseteq N /\ N \subseteq {f, e, b, a}
  <2>1. CASE todo' = <<>>
    BY <2>1, NoneLeft
  <2>2. CASE todo' = <<f>>
    <3>1. Shape' /\ Left' = {f} /\ LeftToCallers' = {}
      BY <1>12, <1>15, <2>2, LastOne
    <3> QED
      BY <3>1
  <2>3. CASE \E k \in {e, b, a} : todo' = <<k, f>>
    <3>1. PICK k \in {e, b, a} : todo' = <<k, f>>
      BY <2>3
    <3>2. k \in Labels /\ <<f>> \in Rests(k)
      BY <1>11, <1>15
    <3>3. Shape' /\ Left' = {k, f} /\ LeftToCallers' = {f}
      BY <1>12, <3>1, <3>2, LastTwo
    <3> QED
      BY <3>3
  <2>4. CASE todo' = <<b, e, f>>
    <3>1. Shape' /\ Left' = {b, e, f} /\ LeftToCallers' = {e, f}
      BY <1>11, <1>12, <1>15, <2>4, LastThree
    <3> QED
      BY <3>1
  <2> QED
    BY <1>17, <2>1, <2>2, <2>3, <2>4
<1>19. PICK N : Shape' /\ Left' = N /\ LeftToCallers' \subseteq N /\ N \subseteq {f, e, b, a}
  BY <1>18
<1>20. /\ Left' = N \cup LeftToCallers /\ LeftToCallers' \subseteq N \cup LeftToCallers
       /\ \A l \in N : Claim(l)' /\ ~Detached(l) /\ l.ctx # "time"
       /\ \A l \in N : l.op = "cancel" => l.t \in Trans /\ type_[l.t] # "MODEM_TICK_QUERY"
       /\ \A l \in N \cap LeftToCallers' : CallerClaim(l)'
  BY <1>9, <1>12, <1>13, <1>14, <1>19
<1>21. UNCHANGED <<queueVars, timeVars>> /\ m_ver_state' \in {m_ver_state, "NOT_BEGIN", "FAILED"}
       /\ UNCHANGED <<action_, client_>>
  BY <1>6
<1> QED
  BY <1>3, <1>7, <1>8, <1>19, <1>20, <1>21, Quiet

LEMMA ExportResultStep ==
  ASSUME IInv, ~Crashed, ExportResult
  PROVE  Good'
<1>1. Shape /\ Claims /\ OwnInv /\ Queued \subseteq Trans
  BY Parts
<1>2. At({"result"})
  BY DEF ExportResult
<1>3. todo # <<>> /\ This.op = "result" /\ Claim(This) /\ This.t \in Trans /\ This.ctx \in {"OK", "FAIL"}
  BY <1>1, <1>2, ThisClaim, ThisObject
<1>4. PICK t : t = This.t
  OBVIOUS
<1>5. t \in Trans /\ t \in Queued /\ type_[t] \in AtTypes /\ ~Running /\ state_[t] = "EXECUTING"
  BY <1>3, <1>4 DEF Claim
<1>6. /\ UNCHANGED <<queueVars, timeVars, m_ver_state, action_, client_, armed, m_diag_handler, cur_diag_trans_>>
      /\ at_finished_' = at_finished_ \cup {t}
  BY <1>4 DEF ExportResult, atVars, verVars, diagVars
<1>7. OwnInv'
  <2>1. ~Running' /\ CommandInv'
    BY <1>5, <1>6 DEF CommandInv, Running
  <2>2. UnbegunInv'
    BY <1>1, <1>5, <1>6 DEF OwnInv, UnbegunInv, queueVars
  <2>3. DiagInv'
    BY <1>1, <1>6 DEF OwnInv, DiagInv, queueVars
  <2> QED
    BY <2>1, <2>2, <2>3 DEF OwnInv
<1>8. ~Detached(This) /\ This.ctx # "time" /\ Rests(This) = {<<>>}
  BY <1>3, RestsNone DEF Detached
<1>9. UNCHANGED <<queueVars, timeVars, m_ver_state>> /\ UNCHANGED <<action_, client_>>
  BY <1>6
<1>10. CASE Then(<<>>)
  BY <1>3, <1>7, <1>8, <1>9, <1>10, QuietPop
<1>11. ASSUME NEW s \in Results, Then(<<L("finish", t, s)>>)
       PROVE  Good'
  <2>1. PICK f : f = L("finish", t, s)
    OBVIOUS
  <2>2. f \in Labels
    BY <1>5, <2>1, MakeLabel
  <2>3. f.op = "finish" /\ f.t = t /\ f.ctx = s /\ Then(<<f>>)
    BY <1>11, <2>1 DEF L
  <2>4. t \in Queued' /\ ~RunsCommand(t)' /\ type_'[t] \in AtTypes
    BY <1>5, <1>6 DEF Queued, queueVars, RunsCommand, Running
  <2>5. Claim(f)' /\ CallerClaim(f)' /\ ~Detached(f) /\ f.ctx # "time"
    BY <2>3, <2>4 DEF Claim, CallerClaim, Detached, CallOps, Results
  <2>6. Tail(todo) \in Rests(f)
    BY <1>1, <1>3, <1>8, <2>3, ShapeIs, RestsNone
  <2> QED
    BY <1>3, <1>7, <1>8, <1>9, <2>2, <2>3, <2>5, <2>6, QuietPush
<1>12. Then(<<>>) \/ \E s \in Results : Then(<<L("finish", t, s)>>)
  BY <1>4 DEF ExportResult, Results
<1> QED
  BY <1>10, <1>11, <1>12

LEMMA TimeAssertStep ==
  ASSUME IInv, ~Crashed, TimeAssert
  PROVE  Good'
<1>1. /\ Shape /\ Claims /\ OwnInv /\ VersionInv /\ TimeInv /\ QueryTypeOK /\ Queued \subseteq Trans
      /\ IsInjective(transactions_)
  BY Parts
<1>2. /\ todo # <<>> /\ This.op = "time_assert" /\ ~Detached(This) /\ This.ctx # "time"
      /\ This.op \notin {"notify", "cancel"}
  <2>1. At({"time_assert"}) /\ {"time_assert"} \in SUBSET DoOps
    BY DEF TimeAssert, DoOps
  <2> QED
    BY <1>1, <2>1, ThisDo
<1>3. UNCHANGED <<queueVars, m_ver_state, action_, client_, armed, at_finished_, m_diag_handler, cur_diag_trans_>>
  BY DEF TimeAssert, atVars, verVars, ownVars, diagVars
<1>4. OwnInv'
  BY <1>1, <1>3, OwnSame
<1>5. Rests(This) = {<<>>}
  BY <1>2, RestsNone
<1>6. LeftToCallers = {} /\ \A s \in Seq(Labels) : Then(s) => todo' = s
  BY <1>1, <1>2, <1>5, ThisLast
<1>7. Left = {This}
  BY <1>1, <1>2, <1>6, ShapeIs
<1>8. /\ trans_ts_ # NoTrans => trans_ts_ \in Queued /\ type_[trans_ts_] = "MODEM_TICK_QUERY"
      /\ \A t \in Trans : type_[t] = "MODEM_TICK_QUERY" => t = trans_ts_
  <2>1. L("notify", trans_ts_, "") # This
    <3>1. L("notify", trans_ts_, "").op = "notify"
      BY DEF L
    <3> QED
      BY <1>2, <3>1
  <2>2. L("notify", trans_ts_, "") \notin Left
    BY <1>7, <2>1
  <2> QED
    BY <1>1, <1>2, <1>7, <2>2 DEF TimeInv
<1>9. UNCHANGED <<transactions_, type_>> /\ Queued' = Queued
  BY <1>1, <1>3, SameQueue DEF queueVars
<1>10. trans_state_' = "NOT_BEGIN" /\ retry' = FALSE /\ trans_ts_' = NoTrans /\ ts' = "none"
  BY DEF TimeAssert
<1>11. \E N : /\ Shape' /\ Left' = N /\ LeftToCallers' = {}
              /\ \A l \in N : /\ Claim(l)' /\ ~Detached(l) /\ l.ctx # "time"
                              /\ l.op = "cancel" => l.t \in Trans
              /\ \A t \in Trans : type_[t] = "MODEM_TICK_QUERY" => \E l \in N : l.t = t /\ l.op = "cancel"
  <2>1. CASE trans_ts_ = NoTrans
    <3>1. todo' = <<>>
      <4>1. Then(<<>>) /\ <<>> \in Seq(Labels)
        BY <2>1 DEF TimeAssert
      <4> QED
        BY <1>6, <4>1
    <3>2. Shape' /\ Left' = {} /\ LeftToCallers' = {}
      BY <3>1, NoneLeft
    <3> QED
      BY <1>8, <2>1, <3>2, NoTransIsNone
  <2>2. CASE trans_ts_ # NoTrans
    <3>1. PICK t : t = trans_ts_
      OBVIOUS
    <3>2. PICK l : l = L("cancel", t, "")
      OBVIOUS
    <3>3. t \in Trans /\ t \in Queued /\ type_[t] = "MODEM_TICK_QUERY"
      BY <1>1, <1>8, <2>2, <3>1
    <3>4. l \in Labels
      BY <3>2, <3>3, MakeLabel DEF ObjectOps
    <3>5. l.op = "cancel" /\ l.t = t /\ l.ctx = ""
      BY <3>2 DEF L
    <3>6. todo' = <<l>>
      <4>1. Then(<<l>>) /\ <<l>> \in Seq(Labels)
        BY <2>2, <3>1, <3>2, <3>4, OneLabel DEF TimeAssert
      <4> QED
        BY <1>6, <4>1
    <3>7. Shape' /\ Left' = {l} /\ LeftToCallers' = {}
      BY <3>4, <3>5, <3>6, LastOne, RestsNone
    <3>8. Claim(l)' /\ ~Detached(l)
      <4>1. t \in Queued' /\ type_'[t] = "MODEM_TICK_QUERY"
        BY <1>9, <3>3
      <4> QED
        BY <3>5, <4>1 DEF Claim, Detached, CallOps
    <3> QED
      BY <1>8, <3>1, <3>3, <3>5, <3>7, <3>8
  <2> QED
    BY <2>1, <2>2
<1>12. PICK N : /\ Shape' /\ Left' = N /\ LeftToCallers' = {}
                /\ \A l \in N : /\ Claim(l)' /\ ~Detached(l) /\ l.ctx # "time"
                                /\ l.op = "cancel" => l.t \in Trans
                /\ \A t \in Trans : type_[t] = "MODEM_TICK_QUERY" => \E l \in N : l.t = t /\ l.op = "cancel"
  BY <1>11
<1>13. Claims' /\ ObjectsInv'
  <2>1. /\ Left' = N \cup LeftToCallers /\ LeftToCallers' \subseteq N \cup LeftToCallers
        /\ \A l \in N \cap LeftToCallers' : CallerClaim(l)'
        /\ UNCHANGED queueVars /\ UNCHANGED <<action_, client_>>
    BY <1>3, <1>6, <1>12
  <2> QED
    BY <1>2, <1>12, <2>1, QuietCore
<1>14. VersionInv'
  BY <1>1, <1>2, <1>3, <1>9, VersionKeeps
<1>15. TimeInv'
  <2>1. ~Asking'
    BY <1>12 DEF Asking
  <2>2. \A l \in Left' : l.op = "cancel" => l.t # trans_ts_'
    BY <1>10, <1>12, NoTransIsNone
  <2> QED
    BY <1>9, <1>10, <1>12, <2>1, <2>2 DEF TimeInv
<1> QED
  BY <1>4, <1>12, <1>13, <1>14, <1>15 DEF Good, CoreInv, QueryInv, OwnInv

------------------------------------------------------------------------------
(* A new transaction.                                                      *)

LEMMA TypeForTime ==
  ASSUME NEW c \in NewCtx
  PROVE  /\ TypeFor(c) # "FREE"
         /\ TypeFor(c) = "MODEM_TICK_QUERY" <=> c = "time"
         /\ c = "version" => TypeFor(c) = "VERSION_QUERY"
BY DEF NewCtx, Requests, TypeFor

LEMMA NewTransStep ==
  ASSUME IInv, ~Crashed, NewTrans
  PROVE  Good'
<1>1. /\ Shape /\ Claims /\ ObjectsInv /\ OwnInv /\ VersionInv /\ TimeInv /\ QueueTypeOK
      /\ Queued \subseteq Trans /\ IsInjective(transactions_) /\ transactions_ \in Seq(Trans)
  BY Parts
<1>2. PICK x \in Unused :
        /\ This.ctx \in NewCtx
        /\ type_' = [type_ EXCEPT ![x] = TypeFor(This.ctx)]
        /\ \/ Then(<<L("execute", x, This.ctx)>>) /\ transactions_' = transactions_
           \/ Then(<<L("queued", x, This.ctx)>>) /\ transactions_' = Append(transactions_, x)
  BY <1>1, NewTransIs
<1>3. PICK c : c = This.ctx
  OBVIOUS
<1>4. PICK op \in {"execute", "queued"} :
        /\ Then(<<L(op, x, c)>>)
        /\ op = "execute" => transactions_' = transactions_
        /\ op = "queued" => transactions_' = Append(transactions_, x)
  BY <1>2, <1>3
<1>5. PICK l : l = L(op, x, c)
  OBVIOUS
<1>6. x \in Trans /\ type_[x] = "FREE" /\ x \notin armed /\ x # m_diag_handler /\ x # cur_diag_trans_
  BY <1>2, UnusedIs
<1>7. l.op = op /\ l.t = x /\ l.ctx = c /\ Then(<<l>>)
  BY <1>4, <1>5 DEF L
<1>8. l \in Labels
  <2>1. op \in CallOps /\ c \in NewCtx \cup QueueCtx
    BY <1>2, <1>3 DEF CallOps
  <2> QED
    BY <1>5, <1>6, <2>1, MakeLabel
<1>9. todo # <<>> /\ This.op = "new" /\ c \in NewCtx
  BY <1>2, <1>3 DEF NewTrans, At
<1>10. Tail(todo) \in Rests(l)
  <2>1. Rests(This) = AfterNew(c) /\ Rests(l) = AfterNew(c)
    BY <1>3, <1>7, <1>9, RestsOfCall DEF CallOps
  <2> QED
    BY <1>1, <1>9, <2>1, ShapeIs
<1>11. Shape' /\ Left' = {l} \cup LeftToCallers /\ LeftToCallers' = LeftToCallers
  BY <1>1, <1>7, <1>8, <1>9, <1>10, PushOne
<1>12. x \notin Queued /\ state_[x] = "NOT_BEGIN"
  BY <1>1, <1>6 DEF ObjectsInv, OwnInv, UnbegunInv
<1>13. /\ UNCHANGED <<action_, client_, state_, armed, at_finished_, m_diag_handler, cur_diag_trans_>>
       /\ UNCHANGED <<timeVars, m_ver_state>>
  BY DEF NewTrans, atVars, ownVars, diagVars, verVars
<1>14. /\ type_'[x] = TypeFor(c) /\ \A t \in Trans \ {x} : type_'[t] = type_[t]
       /\ TypeFor(c) # "FREE"
  BY <1>1, <1>2, <1>3, <1>6, <1>9, TypeForTime DEF QueueTypeOK
<1>15. /\ IsInjective(transactions_') /\ Queued' = IF op = "queued" THEN Queued \cup {x} ELSE Queued
  <2>1. CASE op = "queued"
    <3>1. transactions_' = Append(transactions_, x)
      BY <1>4, <2>1
    <3> QED
      BY <1>1, <1>6, <1>12, <2>1, <3>1, AppendIs
  <2>2. CASE op = "execute"
    <3>1. UNCHANGED transactions_
      BY <1>4, <2>2
    <3> QED
      BY <1>1, <2>2, <3>1, SameQueue
  <2> QED
    BY <2>1, <2>2
<1>16. \A t \in Trans \ {x} : Kept(t)
  BY <1>13, <1>14, <1>15 DEF Kept, RunsCommand, Running
<1>17. \A k \in LeftToCallers : k.t # x
  BY <1>1, <1>6, <1>9, CallersAway
<1>18. Claim(l)' /\ CallerClaim(l)'
  <2>1. type_'[x] # "FREE" /\ type_'[x] = TypeFor(c) /\ state_'[x] = "NOT_BEGIN"
    BY <1>12, <1>13, <1>14
  <2>2. c \notin QueueCtx
    BY <1>9, QueueCtxApart
  <2>3. CASE op = "execute"
    <3>1. x \notin Queued'
      BY <1>12, <1>15, <2>3
    <3> QED
      BY <1>7, <2>1, <2>2, <2>3, <3>1 DEF Claim, CallerClaim, Detached, CallOps
  <2>4. CASE op = "queued"
    <3>1. x \in Queued'
      BY <1>15, <2>4
    <3> QED
      BY <1>7, <2>1, <2>2, <2>4, <3>1 DEF Claim, CallerClaim, Detached, CallOps
  <2> QED
    BY <2>3, <2>4
<1>19. Claims' /\ ObjectsInv'
  <2> DEFINE X == {x}
             N == {l}
  <2>1. /\ X \in SUBSET Trans /\ (\A t \in Trans \ X : Kept(t)) /\ \A k \in LeftToCallers : k.t \notin X
        /\ Left' = N \cup LeftToCallers /\ LeftToCallers' \subseteq N \cup LeftToCallers
        /\ \A k \in N : Claim(k)'
        /\ \A k \in N \cap LeftToCallers' : CallerClaim(k)'
        /\ \A k \in N : Detached(k) => k.t \in X
    BY <1>6, <1>7, <1>11, <1>16, <1>17, <1>18
  <2>2. type_'[x] # "FREE" /\ (x \in Queued' \/ Detached(l))
    BY <1>7, <1>9, <1>14, <1>15 DEF Detached
  <2>3. \A y \in X : type_'[y] # "FREE" <=> y \in Queued' \/ \E k \in N : Detached(k) /\ k.t = y
    BY <1>7, <2>2
  <2>4. ~Detached(This)
    BY <1>9 DEF Detached
  <2>5. IsInjective(transactions_)'
    BY <1>15
  <2> HIDE DEF X, N
  <2> QED
    BY <1>1, <2>1, <2>3, <2>4, <2>5, CallStep
<1>20. OwnInv'
  <2>1. CommandInv'
    <3>1. Running => client_ # x
      BY <1>1, <1>12 DEF OwnInv, CommandInv
    <3>2. Running => client_ \in Trans \ {x}
      BY <1>1, <3>1 DEF OwnInv, CommandInv
    <3> QED
      BY <1>1, <1>13, <1>14, <3>2 DEF OwnInv, CommandInv, Running
  <2>2. UnbegunInv'
    BY <1>1, <1>6, <1>13, <1>14 DEF OwnInv, UnbegunInv
  <2>3. DiagInv'
    <3>1. \A t \in {m_diag_handler, cur_diag_trans_} : t = NoTrans \/ type_'[t] = type_[t]
      BY <1>1, <1>2, <1>6 DEF QueueTypeOK
    <3> QED
      BY <1>1, <1>13, <3>1 DEF OwnInv, DiagInv
  <2> QED
    BY <2>1, <2>2, <2>3 DEF OwnInv
<1>21. VersionInv'
  <2>1. \A t \in Queued : type_'[t] = type_[t] /\ t \in Queued'
    BY <1>1, <1>12, <1>14, <1>15
  <2> QED
    BY <1>1, <1>9, <1>13, <2>1, VersionKeeps
<1>22. TimeInv'
  <2>1. Asking' <=> c = "time"
    <3> DEFINE N == {l}
    <3>1. Left' = N \cup LeftToCallers /\ ((\E k \in N : k.ctx = "time") <=> c = "time")
      BY <1>7, <1>11
    <3> HIDE DEF N
    <3> QED
      BY <1>1, <3>1, AskingThen
  <2>2. Asking <=> c = "time"
    BY <1>1, <1>3, <1>9, ShapeIs, CallersAskNothing DEF Asking
  <2>3. UNCHANGED <<trans_state_, trans_ts_, ts, retry>>
    BY <1>13 DEF timeVars
  <2>4. trans_state_ = "EXECUTING" => trans_ts_ \in Trans \ {x} /\ trans_ts_ \in Queued
    <3>1. L("notify", trans_ts_, "") \notin Left
      <4>1. L("notify", trans_ts_, "").op = "notify"
        BY DEF L
      <4>2. L("notify", trans_ts_, "") # This /\ L("notify", trans_ts_, "") \notin LeftToCallers
        BY <1>1, <1>9, <4>1, CallersAskNothing
      <4> QED
        BY <1>1, <1>9, <4>2, ShapeIs
    <3>2. trans_state_ = "EXECUTING" => trans_ts_ \in Queued
      BY <1>1, <3>1 DEF TimeInv
    <3> QED
      BY <1>1, <1>12, <3>2
  <2>5. trans_state_ = "EXECUTING" => trans_ts_ \in Queued' /\ type_'[trans_ts_] = "MODEM_TICK_QUERY"
    BY <1>1, <1>14, <1>15, <2>4 DEF TimeInv
  <2>6. ASSUME NEW t \in Trans, type_'[t] = "MODEM_TICK_QUERY"
        PROVE  t = trans_ts_ \/ \E k \in Left' : k.t = t /\ (k.ctx = "time" \/ k.op = "cancel")
    <3>1. CASE t = x
      <4>1. c = "time"
        BY <1>9, <1>14, <2>6, <3>1, TypeForTime
      <4> QED
        BY <1>7, <1>11, <3>1, <4>1
    <3>2. CASE t # x
      <4>1. t = trans_ts_ \/ \E k \in Left : k.t = t /\ (k.ctx = "time" \/ k.op = "cancel")
        BY <1>1, <1>14, <2>6, <3>2 DEF TimeInv
      <4>2. ASSUME NEW k \in Left, k.t = t
            PROVE  k \in LeftToCallers
        <5>1. This.t = NoTrans
          <6> DEFINE h == This
          <6>1. h \in Labels /\ h.op = "new"
            BY <1>1, <1>9, ShapeIs
          <6> HIDE DEF h
          <6>2. h.t = NoTrans
            BY <6>1, LabelIs
          <6> QED
            BY <6>2 DEF h
        <5> QED
          BY <1>1, <1>9, <4>2, <5>1, ShapeIs, NoTransIsNone
      <4> QED
        BY <1>11, <4>1, <4>2
    <3> QED
      BY <3>1, <3>2
  <2>7. \A k \in Left' : k.op = "cancel" => k.t # trans_ts_
    <3>1. \A k \in Left' : k.op # "cancel"
      BY <1>1, <1>7, <1>11, CallersAskNothing
    <3> QED
      BY <3>1
  <2> QED
    BY <1>1, <2>1, <2>2, <2>3, <2>5, <2>6, <2>7 DEF TimeInv
<1> QED
  BY <1>11, <1>19, <1>20, <1>21, <1>22 DEF Good, CoreInv, QueryInv, OwnInv

\* A new transaction is in the hands of who asked for it.
LEMMA ThisNew ==
  ASSUME Shape, Claims, QueueTypeOK, NEW ops \in SUBSET CallOps, At(ops), This.ctx \notin {"loop", "canceled"}
  PROVE  /\ todo # <<>> /\ This.op \in ops /\ This.t \in Trans /\ This.ctx \in NewCtx
         /\ Rests(This) = AfterNew(This.ctx)
         /\ type_[This.t] = TypeFor(This.ctx) /\ type_[This.t] # "FREE"
         /\ Detached(This) <=> This.op # "queued"
         /\ This.op = "queued" => This.t \in Queued
         /\ This.op # "queued" => This.t \notin Queued
         /\ This.op \in {"SUCCESS", "ERROR"} => state_[This.t] # "EXECUTING"
         /\ This.op = "execute" => state_[This.t] = "NOT_BEGIN"
<1>1. todo # <<>> /\ This.op \in ops /\ Claim(This) /\ This.t \in Trans /\ This.ctx \in NewCtx \cup QueueCtx
  BY ThisClaim, ThisObject
<1> DEFINE h == This
<1>2. h.op \in CallOps /\ Claim(h) /\ h.ctx \in NewCtx
  BY <1>1 DEF QueueCtx
<1>3. Rests(h) = AfterNew(h.ctx)
  BY <1>2, RestsOfCall
<1> HIDE DEF h
<1>4. Detached(h) <=> h.op # "queued"
  BY <1>2 DEF Detached, CallOps
<1>5. /\ type_[h.t] = TypeFor(h.ctx) /\ type_[h.t] # "FREE"
      /\ h.op = "queued" => h.t \in Queued
      /\ h.op # "queued" => h.t \notin Queued
      /\ h.op \in {"SUCCESS", "ERROR"} => state_[h.t] # "EXECUTING"
      /\ h.op = "execute" => state_[h.t] = "NOT_BEGIN"
  BY <1>2, <1>4 DEF Claim
<1> QED
  BY <1>1, <1>2, <1>3, <1>4, <1>5 DEF h

\* It is the end of the dump when the dump is not started.
LEMMA DumpOver ==
  ASSUME Shape, todo # <<>>, NEW over \in BOOLEAN, over => Rests(This) = AfterNew("dump"),
         Then(IF over THEN <<Do("end_dump")>> ELSE <<>>)
  PROVE  \E N : /\ Shape' /\ Left' = N \cup LeftToCallers /\ LeftToCallers' \subseteq N \cup LeftToCallers
                /\ \A k \in N : k.op = "end_dump" /\ k.ctx = ""
<1>1. CASE over
  <2>1. PICK e : e = Do("end_dump")
    OBVIOUS
  <2>2. e \in Labels /\ e.op = "end_dump" /\ e.ctx = "" /\ Then(<<e>>)
    BY <1>1, <2>1, MakeLabel, DoFields DEF DoOps
  <2>3. Tail(todo) \in Rests(e)
    <3>1. Tail(todo) \in {<<Do("time_assert")>>}
      BY <1>1, ShapeIs DEF AfterNew
    <3>2. Rests(e) = {<<Do("time_assert")>>} \cup Back
      BY <2>2 DEF Rests, CallOps
    <3> QED
      BY <3>1, <3>2
  <2>4. Shape' /\ Left' = {e} \cup LeftToCallers /\ LeftToCallers' = LeftToCallers
    BY <2>2, <2>3, PushOne
  <2> DEFINE N == {e}
  <2>5. /\ Shape' /\ Left' = N \cup LeftToCallers /\ LeftToCallers' \subseteq N \cup LeftToCallers
        /\ \A k \in N : k.op = "end_dump" /\ k.ctx = ""
    BY <2>2, <2>4
  <2> HIDE DEF N
  <2> QED
    BY <2>5
<1>2. CASE ~over
  <2>1. Then(<<>>)
    BY <1>2
  <2>2. Shape' /\ Left' = LeftToCallers /\ LeftToCallers' \subseteq LeftToCallers
    BY <2>1, Pop
  <2> DEFINE N == {}
  <2>3. /\ Shape' /\ Left' = N \cup LeftToCallers /\ LeftToCallers' \subseteq N \cup LeftToCallers
        /\ \A k \in N : k.op = "end_dump" /\ k.ctx = ""
    BY <2>2
  <2> HIDE DEF N
  <2> QED
    BY <2>3
<1> QED
  BY <1>1, <1>2

LEMMA NewBegunStep ==
  ASSUME IInv, ~Crashed, NewBegun
  PROVE  Good'
<1>1. /\ Shape /\ Claims /\ ObjectsInv /\ OwnInv /\ VersionInv /\ TimeInv /\ QueueTypeOK
      /\ Queued \subseteq Trans /\ IsInjective(transactions_) /\ transactions_ \in Seq(Trans)
  BY Parts
<1>2. PICK t, c : t = This.t /\ c = This.ctx
  OBVIOUS
<1>3. /\ todo # <<>> /\ This.op \in {"queued", "STARTED"} /\ t \in Trans /\ c \in NewCtx
      /\ Rests(This) = AfterNew(c)
      /\ type_[t] = TypeFor(c) /\ type_[t] # "FREE"
      /\ Detached(This) <=> This.op # "queued"
      /\ This.op = "queued" => t \in Queued
      /\ This.op # "queued" => t \notin Queued
  <2>1. At({"queued", "STARTED"}) /\ This.ctx \notin {"loop", "canceled"}
          /\ {"queued", "STARTED"} \in SUBSET CallOps
    BY DEF NewBegun, CallOps
  <2> QED
    BY <1>1, <1>2, <2>1, ThisNew
<1>4. PICK N : /\ Shape' /\ Left' = N \cup LeftToCallers /\ LeftToCallers' \subseteq N \cup LeftToCallers
               /\ \A k \in N : k.op = "end_dump" /\ k.ctx = ""
  <2> DEFINE over == c = "dump" /\ This.op = "queued"
  <2>1. over \in BOOLEAN /\ (over => Rests(This) = AfterNew("dump"))
          /\ Then(IF over THEN <<Do("end_dump")>> ELSE <<>>)
    BY <1>2, <1>3 DEF NewBegun
  <2> HIDE DEF over
  <2> QED
    BY <1>1, <1>3, <2>1, DumpOver
<1>5. /\ UNCHANGED <<action_, client_, type_, state_, armed, at_finished_, m_diag_handler, cur_diag_trans_>>
      /\ UNCHANGED <<retry, ts>>
  BY DEF NewBegun, atVars, ownVars, diagVars
<1>6. IsInjective(transactions_') /\ Queued' = Queued \cup {t}
  <2>1. CASE This.op = "queued"
    <3>1. UNCHANGED transactions_
      BY <2>1 DEF NewBegun
    <3> QED
      BY <1>1, <1>3, <2>1, <3>1, SameQueue
  <2>2. CASE This.op = "STARTED"
    <3>1. transactions_' = Append(transactions_, t) /\ t \notin Queued
      BY <1>2, <1>3, <2>2 DEF NewBegun
    <3> QED
      BY <1>1, <1>3, <3>1, AppendIs
  <2> QED
    BY <1>3, <2>1, <2>2
<1>7. \A k \in N : Claim(k)' /\ CallerClaim(k)' /\ ~Detached(k)
  BY <1>4, NoClaim DEF DoOps
<1>8. Claims' /\ ObjectsInv'
  <2>1. PICK X : X = IF This.op = "queued" THEN {} ELSE {t}
    OBVIOUS
  <2>2. X \in SUBSET Trans /\ \A u \in Trans \ X : Kept(u)
    BY <1>3, <1>5, <1>6, <2>1 DEF Kept, RunsCommand, Running
  <2>3. \A k \in LeftToCallers : k.t \notin X
    <3>1. CASE This.op = "queued"
      BY <2>1, <3>1
    <3>2. CASE This.op = "STARTED"
      BY <1>1, <1>2, <1>3, <2>1, <3>2, CallersAway
    <3> QED
      BY <1>3, <3>1, <3>2
  <2>4. Detached(This) => This.t \in X
    BY <1>2, <1>3, <2>1
  <2>5. \A x \in X : type_'[x] # "FREE" <=> x \in Queued' \/ \E k \in N : Detached(k) /\ k.t = x
    BY <1>3, <1>5, <1>6, <2>1
  <2>6. IsInjective(transactions_)'
    BY <1>6
  <2> QED
    BY <1>1, <1>4, <1>7, <2>2, <2>3, <2>4, <2>5, <2>6, CallStep
<1>9. OwnInv'
  BY <1>1, <1>5, OwnKept
<1>10. VersionInv'
  <2>1. CASE c = "version"
    BY <1>3, <1>5, <1>6, <2>1, TypeForTime DEF VersionInv
  <2>2. CASE c # "version"
    <3>1. m_ver_state' = m_ver_state
      BY <1>2, <2>2 DEF NewBegun
    <3>2. \A u \in Queued : type_'[u] = type_[u] /\ u \in Queued'
      BY <1>5, <1>6
    <3>3. This.op # "notify"
      BY <1>3
    <3> QED
      BY <1>1, <3>1, <3>2, <3>3, VersionKeeps
  <2> QED
    BY <2>1, <2>2
<1>11. TimeInv'
  <2>1. CASE c = "time"
    <3>1. trans_state_' = "EXECUTING" /\ trans_ts_' = t
      BY <1>2, <2>1 DEF NewBegun
    <3>2. ~Asking'
      <4>1. ~\E k \in N : k.ctx = "time"
        BY <1>4
      <4> QED
        BY <1>1, <1>4, <4>1, AskingThen
    <3>3. Asking /\ ~retry
      <4>1. Asking
        BY <1>1, <1>2, <1>3, <2>1, ShapeIs DEF Asking
      <4> QED
        BY <1>1, <4>1 DEF TimeInv
    <3>4. trans_ts_ = NoTrans
      BY <1>1, <3>3 DEF TimeInv
    <3>5. ASSUME NEW u \in Trans, type_[u] = "MODEM_TICK_QUERY"
          PROVE  u = t
      <4>1. PICK k \in Left : k.t = u /\ (k.ctx = "time" \/ k.op = "cancel")
        BY <1>1, <3>4, <3>5, NoTransIsNone DEF TimeInv
      <4>2. k = This
        BY <1>1, <1>3, <4>1, ShapeIs, CallersAskNothing
      <4> QED
        BY <1>2, <4>1, <4>2
    <3>6. type_[t] = "MODEM_TICK_QUERY"
      BY <1>3, <2>1, TypeForTime
    <3>7. \A k \in Left' : k.op # "cancel"
      BY <1>1, <1>4, CallersAskNothing
    <3> QED
      BY <1>3, <1>5, <1>6, <3>1, <3>2, <3>3, <3>5, <3>6, <3>7 DEF TimeInv
  <2>2. CASE c # "time"
    <3>1. UNCHANGED <<trans_state_, trans_ts_>>
      BY <1>2, <2>2 DEF NewBegun
    <3>2. ~Asking
      BY <1>1, <1>2, <2>2, LeftIs, CallersAskNothing DEF Asking
    <3>3. /\ (\E k \in N : k.ctx = "time") <=> Asking
          /\ \A k \in N : k.op = "cancel" => k.t \in Trans /\ type_[k.t] # "MODEM_TICK_QUERY"
          /\ This.op \notin {"notify", "cancel"} /\ This.ctx # "time"
      BY <1>2, <1>3, <1>4, <2>2, <3>2
    <3>4. \A u \in Queued : type_'[u] = type_[u] /\ u \in Queued'
      BY <1>5, <1>6
    <3> QED
      BY <1>1, <1>4, <1>5, <3>1, <3>3, <3>4, TimeKeeps
  <2> QED
    BY <2>1, <2>2
<1> QED
  BY <1>4, <1>8, <1>9, <1>10, <1>11 DEF Good, CoreInv, QueryInv, OwnInv

LEMMA NewEndedStep ==
  ASSUME IInv, ~Crashed, NewEnded
  PROVE  Good'
<1>1. /\ Shape /\ Claims /\ ObjectsInv /\ OwnInv /\ VersionInv /\ TimeInv /\ QueueTypeOK
      /\ Queued \subseteq Trans /\ IsInjective(transactions_) /\ transactions_ \in Seq(Trans)
  BY Parts
<1>2. PICK t, c : t = This.t /\ c = This.ctx
  OBVIOUS
<1>3. /\ todo # <<>> /\ This.op \in {"SUCCESS", "ERROR"} /\ t \in Trans /\ c \in NewCtx
      /\ Rests(This) = AfterNew(c)
      /\ type_[t] = TypeFor(c) /\ type_[t] # "FREE" /\ t \notin Queued
      /\ state_[t] # "EXECUTING"
  <2>1. At({"SUCCESS", "ERROR"}) /\ This.ctx \notin {"loop", "canceled"}
          /\ {"SUCCESS", "ERROR"} \in SUBSET CallOps
    BY DEF NewEnded, CallOps
  <2> QED
    BY <1>1, <1>2, <2>1, ThisNew
<1>4. PICK N : /\ Shape' /\ Left' = N \cup LeftToCallers /\ LeftToCallers' \subseteq N \cup LeftToCallers
               /\ \A k \in N : k.op = "end_dump" /\ k.ctx = ""
  <2> DEFINE over == c = "dump"
  <2>1. over \in BOOLEAN /\ (over => Rests(This) = AfterNew("dump"))
          /\ Then(IF over THEN <<Do("end_dump")>> ELSE <<>>)
    BY <1>2, <1>3 DEF NewEnded
  <2> HIDE DEF over
  <2> QED
    BY <1>1, <1>3, <2>1, DumpOver
<1>5. /\ UNCHANGED <<action_, client_, transactions_, armed, m_diag_handler, cur_diag_trans_, trans_ts_, ts>>
      /\ Free(t) /\ m_ver_state' \in {m_ver_state, "FAILED"}
  BY <1>2 DEF NewEnded, atVars, diagVars
<1>6. IsInjective(transactions_)' /\ Queued' = Queued
  BY <1>1, <1>5, SameQueue
<1>7. /\ type_'[t] = "FREE" /\ state_'[t] = "NOT_BEGIN"
      /\ \A u \in Trans \ {t} : type_'[u] = type_[u] /\ state_'[u] = state_[u]
  BY <1>1, <1>3, <1>5, FreeIs
<1>8. Claims' /\ ObjectsInv'
  <2>1. PICK X : X = {t}
    OBVIOUS
  <2>2. X \in SUBSET Trans /\ \A u \in Trans \ X : Kept(u)
    BY <1>3, <1>5, <1>6, <1>7, <2>1 DEF Kept, RunsCommand, Running
  <2>3. \A k \in LeftToCallers : k.t \notin X
    BY <1>1, <1>2, <1>3, <2>1, CallersAway
  <2>4. This.t \in X
    BY <1>2, <2>1
  <2>5. \A k \in N : Claim(k)' /\ CallerClaim(k)' /\ ~Detached(k)
    BY <1>4, NoClaim DEF DoOps
  <2>6. \A x \in X : type_'[x] # "FREE" <=> x \in Queued' \/ \E k \in N : Detached(k) /\ k.t = x
    BY <1>3, <1>6, <1>7, <2>1, <2>5
  <2> QED
    BY <1>1, <1>4, <1>6, <2>2, <2>3, <2>4, <2>5, <2>6, CallStep
<1>9. OwnInv'
  <2>1. ~RunsCommand(t)
    BY <1>1, <1>3 DEF OwnInv, CommandInv, RunsCommand
  <2>2. UNCHANGED <<action_, client_>> /\ armed' \subseteq armed /\ m_diag_handler' \in {m_diag_handler, NoTrans}
          /\ cur_diag_trans_' \in {cur_diag_trans_, NoTrans}
    BY <1>5
  <2> QED
    BY <1>1, <1>3, <1>5, <2>1, <2>2, OwnFree
<1>10. \A u \in Queued : type_'[u] = type_[u] /\ u \in Queued'
  BY <1>1, <1>3, <1>6, <1>7
<1>11. VersionInv'
  BY <1>1, <1>3, <1>5, <1>10, VersionKeeps
<1>12. TimeInv'
  <2>1. CASE c = "time"
    <3>1. trans_state_' = "START_FAIL" /\ retry' = TRUE
      BY <1>2, <2>1 DEF NewEnded
    <3>2. ~Asking'
      <4>1. ~\E k \in N : k.ctx = "time"
        BY <1>4
      <4> QED
        BY <1>1, <1>4, <4>1, AskingThen
    <3>3. Asking
      BY <1>1, <1>2, <1>3, <2>1, ShapeIs DEF Asking
    <3>4. trans_ts_ = NoTrans
      BY <1>1, <3>3 DEF TimeInv
    <3>5. ASSUME NEW u \in Trans, type_[u] = "MODEM_TICK_QUERY"
          PROVE  u = t
      <4>1. PICK k \in Left : k.t = u /\ (k.ctx = "time" \/ k.op = "cancel")
        BY <1>1, <3>4, <3>5, NoTransIsNone DEF TimeInv
      <4>2. k = This
        BY <1>1, <1>3, <4>1, ShapeIs, CallersAskNothing
      <4> QED
        BY <1>2, <4>1, <4>2
    <3>6. \A u \in Trans : type_'[u] # "MODEM_TICK_QUERY"
      BY <1>7, <3>5
    <3>7. \A k \in Left' : k.op # "cancel"
      BY <1>1, <1>4, CallersAskNothing
    <3> QED
      BY <1>5, <3>1, <3>2, <3>4, <3>6, <3>7 DEF TimeInv
  <2>2. CASE c # "time"
    <3>1. UNCHANGED <<trans_state_, retry>>
      BY <1>2, <2>2 DEF NewEnded
    <3>2. ~Asking
      BY <1>1, <1>2, <2>2, LeftIs, CallersAskNothing DEF Asking
    <3>3. /\ (\E k \in N : k.ctx = "time") <=> Asking
          /\ \A k \in N : k.op = "cancel" => k.t \in Trans /\ type_[k.t] # "MODEM_TICK_QUERY"
          /\ This.op \notin {"notify", "cancel"} /\ This.ctx # "time"
      BY <1>2, <1>3, <1>4, <2>2, <3>2
    <3>4. \A u \in Trans : type_'[u] = "MODEM_TICK_QUERY" => type_[u] = "MODEM_TICK_QUERY"
      BY <1>7
    <3> QED
      BY <1>1, <1>4, <1>5, <1>10, <3>1, <3>3, <3>4, TimeKeeps
  <2> QED
    BY <2>1, <2>2
<1> QED
  BY <1>4, <1>8, <1>9, <1>11, <1>12 DEF Good, CoreInv, QueryInv, OwnInv

------------------------------------------------------------------------------
(* A transaction is executed.                                              *)

\* The call concerns one object.
LEMMA OneObject ==
  ASSUME QueueTypeOK, Shape, Claims, ObjectsInv, NEW t \in Trans, NEW N,
         \A u \in Trans \ {t} : Kept(u), \A l \in LeftToCallers : l.t # t,
         Left' = N \cup LeftToCallers, LeftToCallers' \subseteq N \cup LeftToCallers,
         \A l \in N : Claim(l)', \A l \in N \cap LeftToCallers' : CallerClaim(l)',
         Detached(This) => This.t = t, \A l \in N : Detached(l) => l.t = t,
         IsInjective(transactions_)',
         type_'[t] # "FREE" <=> t \in Queued' \/ \E l \in N : Detached(l) /\ l.t = t
  PROVE  Claims' /\ ObjectsInv'
<1> DEFINE X == {t}
<1>1. /\ X \in SUBSET Trans /\ (\A u \in Trans \ X : Kept(u)) /\ \A l \in LeftToCallers : l.t \notin X
      /\ Detached(This) => This.t \in X
      /\ \A l \in N : Detached(l) => l.t \in X
      /\ \A x \in X : type_'[x] # "FREE" <=> x \in Queued' \/ \E l \in N : Detached(l) /\ l.t = x
  OBVIOUS
<1> HIDE DEF X
<1> QED
  BY <1>1, CallStep

\* What the transaction that is executed begins to own.
LEMMA ExecuteOwn ==
  ASSUME QueueTypeOK, OwnInv, NEW t \in Trans, state_[t] = "NOT_BEGIN", type_[t] # "FREE",
         NEW s, SetState(t, s), UNCHANGED <<type_, at_finished_>>, armed' \subseteq armed \cup {t},
         m_diag_handler' \in {m_diag_handler, t, NoTrans}, cur_diag_trans_' \in {cur_diag_trans_, t, NoTrans},
         type_[t] \in DiagTypes \/ UNCHANGED <<m_diag_handler, cur_diag_trans_>>,
         s = "NOT_BEGIN" => type_[t] = "ORCA_ETB_DUMP" \/ UNCHANGED <<armed, m_diag_handler>>,
         \/ UNCHANGED <<action_, client_>>
         \/ client_' = t /\ action_' = CommandOf(type_[t]) /\ type_[t] \in AtTypes /\ s = "EXECUTING"
  PROVE  OwnInv'
<1>1. state_'[t] = s /\ \A u \in Trans \ {t} : state_'[u] = state_[u]
  BY SetStateIs
<1>2. t \notin at_finished_ /\ (Running => client_ # t)
  BY DEF OwnInv, UnbegunInv, CommandInv
<1>3. CommandInv'
  <2>1. CASE UNCHANGED <<action_, client_>>
    <3>1. Running' => Running /\ client_ \in Trans \ {t}
      BY <1>2, <2>1 DEF OwnInv, CommandInv, Running
    <3> QED
      BY <1>1, <2>1, <3>1 DEF OwnInv, CommandInv
  <2>2. CASE client_' = t /\ action_' = CommandOf(type_[t]) /\ type_[t] \in AtTypes /\ s = "EXECUTING"
    BY <1>1, <1>2, <2>2 DEF CommandInv
  <2> QED
    BY <2>1, <2>2
<1>4. UnbegunInv'
  <2>1. ASSUME NEW u \in Trans, u # t
        PROVE  /\ state_'[u] = "NOT_BEGIN" => u \notin at_finished_'
               /\ state_'[u] = "NOT_BEGIN" /\ type_'[u] \notin {"FREE", "ORCA_ETB_DUMP"} =>
                    u \notin armed' /\ m_diag_handler' # u
               /\ type_'[u] = "FREE" => state_'[u] = "NOT_BEGIN"
    BY <1>1, <2>1, NoTransIsNone DEF OwnInv, UnbegunInv
  <2>2. /\ state_'[t] = "NOT_BEGIN" => t \notin at_finished_'
        /\ type_'[t] = "FREE" => state_'[t] = "NOT_BEGIN"
    BY <1>2
  <2>3. state_'[t] = "NOT_BEGIN" /\ type_'[t] \notin {"FREE", "ORCA_ETB_DUMP"} =>
          t \notin armed' /\ m_diag_handler' # t
    BY <1>1 DEF OwnInv, UnbegunInv
  <2> QED
    BY <2>1, <2>2, <2>3 DEF UnbegunInv
<1>5. DiagInv'
  BY DEF OwnInv, DiagInv
<1> QED
  BY <1>3, <1>4, <1>5 DEF OwnInv

\* The call becomes l, which tells the caller how it went; it may first do
\* something for the transaction that ends at once.
LEMMA ExecuteKeeps ==
  ASSUME IInv, ~Crashed, At({"execute"}), Shape',
         NEW op \in {"STARTED", "SUCCESS", "ERROR"}, NEW l, l = L(op, This.t, This.ctx),
         NEW N, l \in N, \A k \in N : k = l \/ (k.op \in DoOps /\ k.ctx = ""),
         Left' = N \cup LeftToCallers, LeftToCallers' \subseteq N \cup LeftToCallers,
         l \in LeftToCallers' => l \in LeftToCallers \/ (op = "SUCCESS" /\ type_[This.t] \in GlobalTypes),
         UNCHANGED <<transactions_, type_, timeVars, m_ver_state>>,
         NEW s, SetState(This.t, s), op # "STARTED" => s # "EXECUTING",
         UNCHANGED <<action_, client_>> \/ client_' = This.t, OwnInv'
  PROVE  Good'
<1>1. /\ Shape /\ Claims /\ ObjectsInv /\ VersionInv /\ TimeInv /\ QueueTypeOK
      /\ Queued \subseteq Trans /\ IsInjective(transactions_)
  BY Parts
<1>2. todo # <<>> /\ This.op = "execute" /\ Claim(This) /\ This.t \in Trans /\ This.ctx \in NewCtx \cup QueueCtx
  BY <1>1, ThisClaim, ThisObject DEF CallOps
<1>3. PICK t, c, h : t = This.t /\ c = This.ctx /\ h = This
  OBVIOUS
<1>4. l.op = op /\ l.t = t /\ l.ctx = c /\ t \in Trans
  BY <1>2, <1>3 DEF L
<1>5. state_'[t] = s /\ \A u \in Trans \ {t} : state_'[u] = state_[u]
  BY <1>1, <1>3, <1>4, SetStateIs
<1>6. IsInjective(transactions_)' /\ Queued' = Queued
  BY <1>1, SameQueue
<1>7. \A u \in Trans \ {t} : Kept(u)
  BY <1>3, <1>5, <1>6 DEF Kept, RunsCommand, Running
<1>8. \A k \in LeftToCallers : k.t # t
  BY <1>1, <1>2, <1>3, <1>4, CallersAway
<1>9. /\ type_[t] # "FREE"
      /\ c \in NewCtx => type_[t] = TypeFor(c) /\ t \notin Queued
      /\ c \in QueueCtx => t \in Queued
      /\ Detached(h) <=> c \in NewCtx
  BY <1>2, <1>3 DEF Claim, Detached, CallOps
<1>10. Detached(l) <=> c \in NewCtx
  BY <1>4 DEF Detached
<1>11. Claim(l)'
  <2>1. /\ type_'[t] # "FREE"
        /\ c \in NewCtx => type_'[t] = TypeFor(c) /\ t \notin Queued'
        /\ c \in QueueCtx => t \in Queued'
        /\ op # "STARTED" => state_'[t] # "EXECUTING"
    BY <1>5, <1>6, <1>9
  <2> QED
    BY <1>4, <1>10, <2>1 DEF Claim, CallOps
<1>12. \A k \in N \ {l} : Claim(k)' /\ CallerClaim(k)' /\ ~Detached(k)
  BY NoClaim
<1>13. l \in LeftToCallers' => CallerClaim(l)'
  <2>1. l \notin LeftToCallers
    BY <1>4, <1>8
  <2>2. type_'[t] = type_[t]
    BY <1>3
  <2> QED
    BY <1>3, <1>4, <2>1, <2>2 DEF CallerClaim
<1>14. Claims' /\ ObjectsInv'
  <2>1. /\ Left' = N \cup LeftToCallers /\ LeftToCallers' \subseteq N \cup LeftToCallers
        /\ (\A k \in N : Claim(k)') /\ \A k \in N \cap LeftToCallers' : CallerClaim(k)'
    BY <1>11, <1>12, <1>13
  <2>2. Detached(This) => This.t = t
    BY <1>3
  <2>3. \A k \in N : Detached(k) => k.t = t
    BY <1>4, <1>12
  <2>4. type_'[t] # "FREE" /\ (t \in Queued' \/ \E k \in N : Detached(k) /\ k.t = t)
    BY <1>2, <1>3, <1>4, <1>6, <1>9, <1>10
  <2> QED
    BY <1>1, <1>4, <1>6, <1>7, <1>8, <2>1, <2>2, <2>3, <2>4, OneObject
<1>15. VersionInv'
  BY <1>1, <1>2, <1>6, VersionKeeps
<1>16. TimeInv'
  <2>1. Asking <=> c = "time"
    BY <1>1, <1>2, <1>3, ShapeIs, CallersAskNothing DEF Asking
  <2>2. (\E k \in N : k.ctx = "time") <=> c = "time"
    BY <1>4
  <2>3. /\ This.ctx = "time" => \E k \in N : k.ctx = "time" /\ k.t = This.t
        /\ \A k \in N : k.op # "cancel"
        /\ This.op \notin {"notify", "cancel"}
    BY <1>2, <1>3, <1>4 DEF DoOps
  <2>4. UNCHANGED <<trans_state_, trans_ts_, ts, retry>>
    BY DEF timeVars
  <2> QED
    BY <1>1, <1>2, <1>6, <2>1, <2>2, <2>3, <2>4, TimeKeeps
<1> QED
  BY <1>14, <1>15, <1>16 DEF Good, CoreInv, QueryInv, OwnInv

LEMMA ExecuteReturns ==
  ASSUME IInv, ~Crashed, At({"execute"}),
         NEW op \in {"STARTED", "SUCCESS", "ERROR"}, Then(<<L(op, This.t, This.ctx)>>),
         UNCHANGED <<transactions_, type_, timeVars, m_ver_state>>,
         NEW s, SetState(This.t, s), op # "STARTED" => s # "EXECUTING",
         UNCHANGED <<action_, client_>> \/ client_' = This.t, OwnInv'
  PROVE  Good'
<1>1. Shape /\ Claims
  BY Parts
<1>2. todo # <<>> /\ This.op = "execute" /\ This.t \in Trans /\ This.ctx \in NewCtx \cup QueueCtx
  BY <1>1, ThisObject DEF CallOps
<1>3. PICK l : l = L(op, This.t, This.ctx)
  OBVIOUS
<1>4. l.op = op /\ l.t = This.t /\ l.ctx = This.ctx /\ Then(<<l>>)
  BY <1>3 DEF L
<1>5. l \in Labels
  BY <1>2, <1>3, MakeLabel DEF CallOps
<1>6. Tail(todo) \in Rests(l)
  <2>1. Rests(This) = AfterNew(This.ctx) /\ Rests(l) = AfterNew(This.ctx)
    BY <1>2, <1>4, RestsOfCall DEF CallOps
  <2> QED
    BY <1>1, <1>2, <2>1, ShapeIs
<1>7. Shape' /\ Left' = {l} \cup LeftToCallers /\ LeftToCallers' = LeftToCallers
  BY <1>1, <1>2, <1>4, <1>5, <1>6, PushOne
<1> DEFINE N == {l}
<1>8. /\ l \in N /\ \A k \in N : k = l \/ (k.op \in DoOps /\ k.ctx = "")
      /\ Left' = N \cup LeftToCallers /\ LeftToCallers' \subseteq N \cup LeftToCallers
      /\ l \in LeftToCallers' => l \in LeftToCallers \/ (op = "SUCCESS" /\ type_[This.t] \in GlobalTypes)
  BY <1>7
<1> HIDE DEF N
<1> QED
  BY <1>3, <1>7, <1>8, ExecuteKeeps

\* The log starts or stops, and the call returns.
LEMMA ExecuteAndEnds ==
  ASSUME IInv, ~Crashed, At({"execute"}), NEW b \in {"start", "stop"},
         Then(<<Do(b)>> \o <<L("SUCCESS", This.t, This.ctx)>>), type_[This.t] \in GlobalTypes,
         UNCHANGED <<transactions_, type_, timeVars, m_ver_state>>,
         NEW s, SetState(This.t, s), s # "EXECUTING", UNCHANGED <<action_, client_>>, OwnInv'
  PROVE  Good'
<1>1. Shape /\ Claims
  BY Parts
<1>2. /\ todo # <<>> /\ This.op = "execute" /\ This.t \in Trans /\ This.ctx \in NewCtx \cup QueueCtx
      /\ Claim(This)
  BY <1>1, ThisClaim, ThisObject DEF CallOps
<1>3. PICK l, a : l = L("SUCCESS", This.t, This.ctx) /\ a = Do(b)
  OBVIOUS
<1>4. l.op = "SUCCESS" /\ l.t = This.t /\ l.ctx = This.ctx
  BY <1>3 DEF L
<1>5. l \in Labels
  BY <1>2, <1>3, MakeLabel DEF CallOps
<1>6. a \in Labels /\ a.op = b /\ a.ctx = ""
  BY <1>3, MakeLabel, DoFields DEF DoOps
<1>7. This.ctx \in GlobalTypes \cup QueueCtx
  <2>1. This.ctx \in NewCtx => TypeFor(This.ctx) \in GlobalTypes
    BY <1>2 DEF Claim, CallOps
  <2>2. TypeFor(This.ctx) \in GlobalTypes => This.ctx \in GlobalTypes
    BY DEF TypeFor, GlobalTypes
  <2> QED
    BY <1>2, <2>1, <2>2
<1>8. Rests(This) = {<<>>}
  <2>1. This.ctx \notin {"time", "version", "etb", "dump"}
    BY <1>7, QueueCtxApart DEF GlobalTypes
  <2> QED
    BY <1>2, <2>1, RestsNone DEF CallOps
<1>9. LeftToCallers = {} /\ \A q \in Seq(Labels) : Then(q) => todo' = q
  BY <1>1, <1>2, <1>8, ThisLast
<1>10. todo' = <<a, l>>
  <2>1. <<a>> \o <<l>> = <<a, l>>
    BY <1>5, <1>6, OneAndOne
  <2>2. Then(<<a, l>>)
    BY <1>3, <2>1
  <2>3. <<a, l>> \in Seq(Labels)
    BY <1>5, <1>6, TwoLabels
  <2> QED
    BY <1>9, <2>2, <2>3
<1>11. <<l>> \in Rests(a)
  <2>1. <<l>> \in Ended
    BY <1>2, <1>3, <1>7 DEF Ended
  <2>2. Ended \subseteq Rests(a)
    BY <1>6 DEF Rests, CallOps
  <2> QED
    BY <2>1, <2>2
<1>12. Shape' /\ Left' = {a, l} /\ LeftToCallers' = {l}
  BY <1>5, <1>6, <1>10, <1>11, LastTwo
<1> DEFINE N == {a, l}
           op == "SUCCESS"
<1>13. /\ l \in N /\ \A k \in N : k = l \/ (k.op \in DoOps /\ k.ctx = "")
       /\ Left' = N \cup LeftToCallers /\ LeftToCallers' \subseteq N \cup LeftToCallers
       /\ l \in LeftToCallers' => l \in LeftToCallers \/ (op = "SUCCESS" /\ type_[This.t] \in GlobalTypes)
       /\ op \in {"STARTED", "SUCCESS", "ERROR"} /\ l = L(op, This.t, This.ctx)
       /\ op # "STARTED" => s # "EXECUTING"
  BY <1>3, <1>6, <1>9, <1>12 DEF DoOps
<1> HIDE DEF N, op
<1> QED
  BY <1>12, <1>13, ExecuteKeeps

\* What is executed has not begun.
LEMMA ThisExecute ==
  ASSUME IInv, ~Crashed, At({"execute"})
  PROVE  /\ QueueTypeOK /\ OwnInv /\ This.t \in Trans /\ state_[This.t] = "NOT_BEGIN" /\ type_[This.t] # "FREE"
<1>1. Shape /\ Claims /\ QueueTypeOK /\ OwnInv
  BY Parts
<1>2. This.op = "execute" /\ This.t \in Trans /\ Claim(This)
  BY <1>1, ThisClaim, ThisObject DEF CallOps
<1> QED
  BY <1>1, <1>2 DEF Claim, CallOps

LEMMA ExecuteAtOnceStep ==
  ASSUME IInv, ~Crashed, ExecuteAtOnce
  PROVE  Good'
<1>1. At({"execute"})
  BY DEF ExecuteAtOnce
<1>2. PICK t : t = This.t
  OBVIOUS
<1>3. QueueTypeOK /\ OwnInv /\ t \in Trans /\ state_[t] = "NOT_BEGIN" /\ type_[t] # "FREE"
  BY <1>1, <1>2, ThisExecute
<1>4. PICK s \in {"FAILURE", "SUCCESS"} : SetState(t, s)
  BY <1>2 DEF ExecuteAtOnce
<1>5. UNCHANGED <<transactions_, type_, timeVars, m_ver_state, action_, client_, at_finished_, armed,
                  m_diag_handler, cur_diag_trans_>>
  BY DEF ExecuteAtOnce, atVars, diagVars, ownVars, verVars
<1>6. OwnInv'
  BY <1>3, <1>4, <1>5, ExecuteOwn
<1>7. PICK l, a, b : l = L("SUCCESS", This.t, This.ctx) /\ a = Do("start") /\ b = Do("stop")
  OBVIOUS
<1>8. \/ Then((<<>> \o <<>>) \o <<l>>)
      \/ Then((<<a>> \o <<>>) \o <<l>>) /\ type_[t] = "START_NORMAL_LOG"
      \/ Then((<<>> \o <<b>>) \o <<l>>) /\ type_[t] = "STOP_LOG"
  BY <1>2, <1>7 DEF ExecuteAtOnce
<1>9. (<<>> \o <<>>) \o <<l>> = <<l>> /\ <<a>> \o <<>> = <<a>> /\ <<>> \o <<b>> = <<b>>
  <2> DEFINE S == {l, a, b}
  <2>1. l \in S /\ a \in S /\ b \in S
    OBVIOUS
  <2> HIDE DEF S
  <2>2. <<l>> \in Seq(S) /\ <<a>> \in Seq(S) /\ <<b>> \in Seq(S) /\ <<>> \in Seq(S)
    BY <2>1, OneLabel
  <2>3. <<>> \o <<>> = <<>>
    BY <2>2, NoMoreLabels
  <2> QED
    BY <2>2, <2>3, NoMoreLabels
<1>10. CASE Then(<<l>>)
  <2>1. UNCHANGED <<transactions_, type_, timeVars, m_ver_state>> /\ UNCHANGED <<action_, client_>>
    BY <1>5
  <2> QED
    BY <1>1, <1>2, <1>4, <1>6, <1>7, <1>10, <2>1, ExecuteReturns
<1>11. CASE (Then(<<a>> \o <<l>>) \/ Then(<<b>> \o <<l>>)) /\ type_[t] \in GlobalTypes
  <2>1. UNCHANGED <<transactions_, type_, timeVars, m_ver_state>> /\ UNCHANGED <<action_, client_>>
    BY <1>5
  <2> QED
    BY <1>1, <1>2, <1>4, <1>6, <1>7, <1>11, <2>1, ExecuteAndEnds
<1> QED
  BY <1>8, <1>9, <1>10, <1>11 DEF GlobalTypes

LEMMA ExecuteDiagStep ==
  ASSUME IInv, ~Crashed, ExecuteDiag
  PROVE  Good'
<1>1. At({"execute"})
  BY DEF ExecuteDiag
<1>2. PICK t : t = This.t
  OBVIOUS
<1>3. QueueTypeOK /\ OwnInv /\ t \in Trans /\ state_[t] = "NOT_BEGIN" /\ type_[t] # "FREE"
  BY <1>1, <1>2, ThisExecute
<1>4. type_[t] \in DiagTypes
  BY <1>2 DEF ExecuteDiag
<1>5. UNCHANGED <<transactions_, type_, timeVars, m_ver_state, action_, client_, at_finished_>>
  BY DEF ExecuteDiag, atVars, verVars
<1>6. PICK op \in {"STARTED", "SUCCESS"}, s \in {"NOT_BEGIN", "EXECUTING", "FAILURE"} :
        /\ Then(<<L(op, This.t, This.ctx)>>) /\ SetState(t, s)
        /\ s = "NOT_BEGIN" => type_[t] = "ORCA_ETB_DUMP"
        /\ op # "STARTED" => s # "EXECUTING"
        /\ armed' \subseteq armed \cup {t}
        /\ m_diag_handler' \in {m_diag_handler, t, NoTrans} /\ cur_diag_trans_' \in {cur_diag_trans_, t, NoTrans}
  <2>1. CASE /\ SetState(t, "FAILURE")
             /\ Then(<<L("SUCCESS", This.t, This.ctx)>>)
             /\ UNCHANGED <<diagVars, armed>>
    BY <2>1 DEF diagVars
  <2>2. CASE /\ cur_diag_trans_' = NoTrans
             /\ SetState(t, IF type_[t] = "ORCA_ETB_DUMP" THEN "NOT_BEGIN" ELSE "FAILURE")
             /\ Then(<<L("SUCCESS", This.t, This.ctx)>>)
             /\ UNCHANGED <<m_diag_handler, armed>>
    BY <2>2
  <2>3. CASE /\ m_diag_handler' = t
             /\ cur_diag_trans_' = t
             /\ SetState(t, IF type_[t] = "ORCA_ETB_DUMP" THEN "NOT_BEGIN" ELSE "EXECUTING")
             /\ armed' = armed \cup {t}
             /\ Then(<<L("STARTED", This.t, This.ctx)>>)
    BY <2>3
  <2> QED
    BY <1>2, <2>1, <2>2, <2>3 DEF ExecuteDiag
<1>7. UNCHANGED <<type_, at_finished_>> /\ UNCHANGED <<action_, client_>>
        /\ UNCHANGED <<transactions_, type_, timeVars, m_ver_state>>
  BY <1>5
<1>8. OwnInv'
  BY <1>3, <1>4, <1>6, <1>7, ExecuteOwn
<1> QED
  BY <1>1, <1>2, <1>6, <1>7, <1>8, ExecuteReturns

LEMMA ExecuteCommandStep ==
  ASSUME IInv, ~Crashed, ExecuteCommand
  PROVE  Good'
<1>1. At({"execute"})
  BY DEF ExecuteCommand
<1>2. PICK t : t = This.t
  OBVIOUS
<1>3. QueueTypeOK /\ OwnInv /\ t \in Trans /\ state_[t] = "NOT_BEGIN" /\ type_[t] # "FREE"
  BY <1>1, <1>2, ThisExecute
<1>4. type_[t] \in AtTypes
  BY <1>2 DEF ExecuteCommand
<1>5. UNCHANGED <<transactions_, type_, timeVars, m_ver_state, m_diag_handler, cur_diag_trans_, at_finished_>>
  BY DEF ExecuteCommand, diagVars, verVars
<1>6. PICK op, s :
        /\ op \in {"STARTED", "SUCCESS", "ERROR"}
        /\ Then(<<L(op, This.t, This.ctx)>>) /\ SetState(t, s)
        /\ op # "STARTED" => s # "EXECUTING"
        /\ armed' \subseteq armed \cup {t} /\ (s = "NOT_BEGIN" => UNCHANGED armed)
        /\ \/ UNCHANGED <<action_, client_>>
           \/ client_' = t /\ action_' = CommandOf(type_[t]) /\ s = "EXECUTING"
  <2>1. CASE /\ StartCommand(t, CommandOf(type_[t]))
             /\ SetState(t, "EXECUTING")
             /\ armed' = IF type_[t] = "SAVE_EVENT_LOG" THEN armed \cup {t} ELSE armed
             /\ Then(<<L("STARTED", This.t, This.ctx)>>)
    BY <2>1 DEF StartCommand
  <2>2. CASE /\ RefuseCommand(CommandOf(type_[t]))
             /\ SetState(t, IF type_[t] = "STOP_LOG" THEN state_[t] ELSE "FAILURE")
             /\ Then(<<L(IF type_[t] \in {"MODEM_TICK_QUERY", "STOP_LOG"} THEN "ERROR" ELSE "SUCCESS",
                         This.t, This.ctx)>>)
             /\ UNCHANGED armed
    <3>1. UNCHANGED <<action_, client_>>
      BY <2>2 DEF RefuseCommand
    <3> QED
      BY <1>3, <2>2, <3>1
  <2>3. CASE /\ SetState(t, "FAILURE")
             /\ Then(<<L("SUCCESS", This.t, This.ctx)>>)
             /\ UNCHANGED <<atVars, armed>>
    BY <2>3 DEF atVars
  <2> QED
    BY <1>2, <2>1, <2>2, <2>3 DEF ExecuteCommand
<1>7. /\ UNCHANGED <<type_, at_finished_>> /\ UNCHANGED <<m_diag_handler, cur_diag_trans_>>
      /\ UNCHANGED <<transactions_, type_, timeVars, m_ver_state>>
      /\ s = "NOT_BEGIN" => UNCHANGED <<armed, m_diag_handler>>
  BY <1>5, <1>6
<1>8. OwnInv'
  BY <1>3, <1>4, <1>6, <1>7, ExecuteOwn
<1>9. UNCHANGED <<action_, client_>> \/ client_' = This.t
  BY <1>2, <1>6
<1> QED
  BY <1>1, <1>2, <1>6, <1>7, <1>8, <1>9, ExecuteReturns

LEMMA ExecuteLastLogStep ==
  ASSUME IInv, ~Crashed, ExecuteLastLog
  PROVE  Good'
<1>1. At({"execute"})
  BY DEF ExecuteLastLog
<1>2. PICK t : t = This.t
  OBVIOUS
<1>3. QueueTypeOK /\ OwnInv /\ t \in Trans /\ state_[t] = "NOT_BEGIN" /\ type_[t] # "FREE"
  BY <1>1, <1>2, ThisExecute
<1>4. PICK op, s : op = "STARTED" /\ s = "EXECUTING"
  OBVIOUS
<1>5. Then(<<L(op, This.t, This.ctx)>>) /\ SetState(t, s) /\ armed' = armed \cup {t}
  BY <1>2, <1>4 DEF ExecuteLastLog
<1>6. /\ UNCHANGED <<type_, at_finished_>> /\ UNCHANGED <<m_diag_handler, cur_diag_trans_>>
      /\ UNCHANGED <<transactions_, type_, timeVars, m_ver_state>> /\ UNCHANGED <<action_, client_>>
  BY DEF ExecuteLastLog, atVars, diagVars, verVars
<1>7. OwnInv'
  BY <1>3, <1>4, <1>5, <1>6, ExecuteOwn
<1> QED
  BY <1>1, <1>2, <1>4, <1>5, <1>6, <1>7, ExecuteReturns

------------------------------------------------------------------------------
(* A transaction leaves the queue.                                         *)

\* Its client is notified before the next one starts.
LEMMA LeavesQueue ==
  ASSUME IInv, ~Crashed, todo # <<>>, Rests(This) = {<<>>},
         ~Detached(This), This.ctx # "time", This.op \notin {"notify", "cancel"},
         NEW t \in Queued, transactions_' = Without(t),
         UNCHANGED <<type_, timeVars, m_ver_state, action_, client_>>,
         \A u \in Trans \ {t} : state_'[u] = state_[u], state_'[t] # "EXECUTING",
         NEW m \in Labels, <<m>> \in Back, m.op \in {"begin", "front", "loop"}, m.ctx = "",
         m.op = "loop" => m.t \in (Queued \ {t}) \cup {NoTrans},
         Then(<<L("notify", t, ""), m>>), OwnInv'
  PROVE  Good'
<1>1. /\ Shape /\ Claims /\ ObjectsInv /\ VersionInv /\ TimeInv /\ QueueTypeOK
      /\ Queued \subseteq Trans /\ IsInjective(transactions_) /\ transactions_ \in Seq(Trans)
  BY Parts
<1>2. PICK n : n = L("notify", t, "")
  OBVIOUS
<1>3. n.op = "notify" /\ n.t = t /\ n.ctx = "" /\ t \in Trans
  BY <1>1, <1>2 DEF L
<1>4. n \in Labels
  BY <1>2, <1>3, MakeLabel DEF ObjectOps
<1>5. LeftToCallers = {} /\ \A s \in Seq(Labels) : Then(s) => todo' = s
  BY <1>1, ThisLast
<1>6. todo' = <<n, m>>
  <2>1. <<n, m>> \in Seq(Labels)
    BY <1>4, TwoLabels
  <2> QED
    BY <1>2, <1>5, <2>1
<1>7. <<m>> \in Rests(n)
  BY <1>3 DEF Rests, CallOps
<1>8. Shape' /\ Left' = {n, m} /\ LeftToCallers' = {m}
  BY <1>4, <1>6, <1>7, LastTwo
<1> DEFINE N == {n, m}
<1>9. /\ Left' = N \cup LeftToCallers /\ LeftToCallers' \subseteq N \cup LeftToCallers
      /\ n \in N /\ \A k \in N : k = n \/ k = m
      /\ \A k \in N \cap LeftToCallers' : k = m
  BY <1>5, <1>8
<1> HIDE DEF N
<1>10. IsInjective(transactions_)' /\ Queued' = Queued \ {t}
  BY <1>1, WithoutIs
<1>11. \A u \in Trans \ {t} : Kept(u)
  BY <1>10 DEF Kept, RunsCommand, Running
<1>12. type_'[t] # "FREE"
  BY <1>1, <1>3 DEF ObjectsInv
<1>13. Claim(n)' /\ Detached(n)
  BY <1>3, <1>10, <1>12 DEF Claim, Detached, CallOps
<1>14. Claim(m)' /\ CallerClaim(m)' /\ ~Detached(m)
  <2>1. m.op = "loop" => m.t \in Queued' \cup {NoTrans}
    BY <1>10
  <2> QED
    BY <2>1 DEF Claim, CallerClaim, Detached, CallOps
<1>15. Claims' /\ ObjectsInv'
  <2>1. (\A k \in N : Claim(k)') /\ \A k \in N \cap LeftToCallers' : CallerClaim(k)'
    BY <1>9, <1>13, <1>14
  <2>2. /\ \A l \in LeftToCallers : l.t # t
        /\ \A k \in N : Detached(k) => k.t = t
    BY <1>3, <1>5, <1>9, <1>14
  <2>4. /\ Left' = N \cup LeftToCallers /\ LeftToCallers' \subseteq N \cup LeftToCallers
        /\ IsInjective(transactions_)' /\ Claims /\ ObjectsInv /\ Shape /\ QueueTypeOK
    BY <1>1, <1>9, <1>10
  <2>3. type_'[t] # "FREE" <=> t \in Queued' \/ \E k \in N : Detached(k) /\ k.t = t
    BY <1>3, <1>9, <1>12, <1>13
  <2> QED
    BY <1>1, <1>3, <1>11, <2>1, <2>2, <2>3, <2>4, OneObject
<1>16. L("notify", t, "") \in N /\ L("notify", t, "") \in Left'
  BY <1>2, <1>8, <1>9
<1>17. VersionInv'
  <2>1. \A u \in Queued : u \in Queued' \/ L("notify", u, "") \in Left'
    BY <1>10, <1>16
  <2> QED
    BY <1>1, <2>1, VersionKeeps
<1>18. TimeInv'
  <2>1. ~Asking
    BY <1>1, LeftIs, CallersAskNothing DEF Asking
  <2>2. \A k \in N : k.ctx # "time" /\ k.op # "cancel"
    BY <1>3, <1>9
  <2>3. \A u \in Queued : u \in Queued' \/ L("notify", u, "") \in N
    BY <1>10, <1>16
  <2>4. UNCHANGED <<trans_state_, trans_ts_, ts, retry>>
    BY DEF timeVars
  <2> QED
    BY <1>1, <1>9, <2>1, <2>2, <2>3, <2>4, TimeKeeps
<1> QED
  BY <1>8, <1>15, <1>17, <1>18 DEF Good, CoreInv, QueryInv, OwnInv

LEMMA FinishStep ==
  ASSUME IInv, ~Crashed, Finish
  PROVE  Good'
<1>1. Shape /\ Claims /\ ObjectsInv /\ OwnInv /\ QueueTypeOK /\ Queued \subseteq Trans
  BY Parts
<1>2. At({"finish"})
  BY DEF Finish
<1>3. todo # <<>> /\ This.op = "finish" /\ Claim(This) /\ This.t \in Trans /\ This.ctx \in Results
  BY <1>1, <1>2, ThisClaim, ThisObject
<1>4. PICK t, s : t = This.t /\ s = This.ctx
  OBVIOUS
<1>5. t \in Queued /\ t \in Trans /\ s \in Results /\ ~RunsCommand(t)
  BY <1>3, <1>4 DEF Claim
<1>6. Rests(This) = {<<>>} /\ ~Detached(This) /\ This.ctx # "time" /\ This.op \notin {"notify", "cancel"}
  BY <1>3, RestsNone DEF Detached, Results
<1>7. SetState(t, s) /\ transactions_' = Without(t)
        /\ UNCHANGED <<type_, timeVars, m_ver_state, action_, client_, armed, at_finished_, m_diag_handler, cur_diag_trans_>>
  BY <1>4 DEF Finish, atVars, verVars, ownVars, diagVars
<1>8. state_'[t] = s /\ \A u \in Trans \ {t} : state_'[u] = state_[u]
  BY <1>1, <1>5, <1>7, SetStateIs
<1>9. s # "EXECUTING" /\ s # "NOT_BEGIN" /\ type_[t] # "FREE"
  BY <1>1, <1>5 DEF Results, ObjectsInv
<1>10. OwnInv'
  <2>1. CommandInv'
    <3>1. Running => client_ \in Trans \ {t}
      BY <1>1, <1>5 DEF OwnInv, CommandInv, RunsCommand
    <3> QED
      BY <1>1, <1>7, <1>8, <3>1 DEF OwnInv, CommandInv, Running
  <2>2. UnbegunInv'
    BY <1>1, <1>7, <1>8, <1>9 DEF OwnInv, UnbegunInv
  <2>3. DiagInv'
    BY <1>1, <1>7 DEF OwnInv, DiagInv
  <2> QED
    BY <2>1, <2>2, <2>3 DEF OwnInv
<1>11. PICK m : m = Do("begin")
  OBVIOUS
<1>12. m \in Labels /\ m.op = "begin" /\ m.ctx = "" /\ <<m>> \in Back
  BY <1>11, MakeLabel, DoFields DEF DoOps, Back
<1>13. Then(<<L("notify", t, ""), m>>)
  BY <1>4, <1>11 DEF Finish
<1>14. UNCHANGED <<type_, timeVars, m_ver_state, action_, client_>> /\ state_'[t] # "EXECUTING"
  BY <1>7, <1>8, <1>9
<1> QED
  BY <1>3, <1>5, <1>6, <1>7, <1>8, <1>10, <1>12, <1>13, <1>14, LeavesQueue

LEMMA LoopReturnStep ==
  ASSUME IInv, ~Crashed, LoopReturn
  PROVE  Good'
<1>1. /\ Shape /\ Claims /\ ObjectsInv /\ OwnInv /\ QueueTypeOK /\ Queued \subseteq Trans
      /\ transactions_ \in Seq(Trans) /\ IsInjective(transactions_)
  BY Parts
<1>2. At({"STARTED", "SUCCESS", "ERROR"}) /\ This.ctx \in QueueCtx
  BY DEF LoopReturn, QueueCtx
<1>3. todo # <<>> /\ This.op \in {"STARTED", "SUCCESS", "ERROR"} /\ Claim(This) /\ This.t \in Trans
  BY <1>1, <1>2, ThisClaim, ThisObject DEF CallOps
<1>4. PICK t : t = This.t
  OBVIOUS
<1>5. t \in Queued /\ (This.op # "STARTED" => state_[t] # "EXECUTING")
  BY <1>2, <1>3, <1>4 DEF Claim, CallOps
<1>6. Rests(This) = {<<>>} /\ ~Detached(This) /\ This.ctx # "time" /\ This.op \notin {"notify", "cancel"}
  <2>1. This.ctx \notin NewCtx \cup {"time", "version", "etb", "dump"}
    BY <1>2, QueueCtxApart
  <2> QED
    BY <1>3, <2>1, RestsNone DEF Detached, CallOps
<1>7. UNCHANGED <<type_, state_, timeVars, m_ver_state, action_, client_, armed, at_finished_, m_diag_handler, cur_diag_trans_>>
  BY DEF LoopReturn, atVars, verVars, ownVars, diagVars
<1>8. OwnInv'
  BY <1>1, <1>7, OwnKept
<1>9. CASE This.op = "STARTED"
  <2>1. Then(<<>>) /\ UNCHANGED <<queueVars, timeVars, m_ver_state>> /\ UNCHANGED <<action_, client_>>
    BY <1>7, <1>9 DEF LoopReturn, queueVars
  <2> QED
    BY <1>3, <1>6, <1>8, <2>1, QuietPop
<1>10. CASE This.op # "STARTED"
  <2>1. PICK m : m = IF This.ctx = "loop" THEN L("loop", After(t), "") ELSE Do("front")
    OBVIOUS
  <2>2. Then(<<L("notify", t, ""), m>>) /\ transactions_' = Without(t)
    BY <1>4, <1>10, <2>1 DEF LoopReturn, NextStarts
  <2>3. After(t) \in (Queued \ {t}) \cup {NoTrans}
    BY <1>1, <1>5, AfterIs
  <2>4. CASE This.ctx = "loop"
    <3>1. m = L("loop", After(t), "") /\ After(t) \in Trans \cup {NoTrans}
      BY <1>1, <2>1, <2>3, <2>4
    <3>2. m \in Labels /\ <<m>> \in Back
      BY <3>1, MakeLabel DEF Back
    <3>3. m.op = "loop" /\ m.ctx = "" /\ m.t = After(t)
      BY <3>1 DEF L
    <3>4. UNCHANGED <<type_, timeVars, m_ver_state, action_, client_>> /\ state_'[t] # "EXECUTING"
            /\ \A u \in Trans \ {t} : state_'[u] = state_[u]
      BY <1>5, <1>7, <1>10
    <3> QED
      BY <1>3, <1>5, <1>6, <1>8, <2>2, <2>3, <3>2, <3>3, <3>4, LeavesQueue
  <2>5. CASE This.ctx # "loop"
    <3>1. m = Do("front")
      BY <2>1, <2>5
    <3>2. m \in Labels /\ <<m>> \in Back /\ m.op = "front" /\ m.ctx = ""
      BY <3>1, MakeLabel, DoFields DEF Back, DoOps
    <3>3. UNCHANGED <<type_, timeVars, m_ver_state, action_, client_>> /\ state_'[t] # "EXECUTING"
            /\ \A u \in Trans \ {t} : state_'[u] = state_[u]
      BY <1>5, <1>7, <1>10
    <3> QED
      BY <1>3, <1>5, <1>6, <1>8, <2>2, <3>2, <3>3, LeavesQueue
  <2> QED
    BY <2>4, <2>5
<1> QED
  BY <1>9, <1>10

\* A transaction of the diag device is canceled by the log.
LEMMA QueryLeaves ==
  ASSUME IInv, ~Crashed, todo # <<>>, ~Detached(This), This.ctx # "time", This.op \notin {"notify", "cancel"},
         Then(<<>>), NEW q \in Queued, type_[q] \in DiagTypes, \A l \in LeftToCallers : l.t # q,
         transactions_' = Without(q), Free(q), armed' \subseteq armed,
         UNCHANGED <<timeVars, action_, client_>>, m_ver_state' = "NOT_BEGIN",
         m_diag_handler' \in {m_diag_handler, NoTrans}, cur_diag_trans_' \in {cur_diag_trans_, NoTrans}
  PROVE  Good'
<1>1. /\ Shape /\ Claims /\ ObjectsInv /\ VersionInv /\ TimeInv /\ OwnInv /\ QueueTypeOK
      /\ Queued \subseteq Trans /\ IsInjective(transactions_) /\ transactions_ \in Seq(Trans)
  BY Parts
<1>2. Shape' /\ Left' = LeftToCallers /\ LeftToCallers' \subseteq LeftToCallers
  BY <1>1, Pop
<1>3. q \in Trans /\ IsInjective(transactions_)' /\ Queued' = Queued \ {q}
  BY <1>1, WithoutIs
<1>4. /\ type_'[q] = "FREE" /\ state_'[q] = "NOT_BEGIN"
      /\ \A u \in Trans \ {q} : type_'[u] = type_[u] /\ state_'[u] = state_[u]
  BY <1>1, <1>3, FreeIs
<1>5. \A u \in Trans \ {q} : Kept(u)
  BY <1>3, <1>4 DEF Kept, RunsCommand, Running
<1> DEFINE N == {}
<1>6. /\ Left' = N \cup LeftToCallers /\ LeftToCallers' \subseteq N \cup LeftToCallers
      /\ (\A k \in N : Claim(k)') /\ \A k \in N \cap LeftToCallers' : CallerClaim(k)'
      /\ (\A k \in N : Detached(k) => k.t = q) /\ (\A k \in N : k.ctx # "time" /\ k.op # "cancel")
      /\ ~\E k \in N : Detached(k) /\ k.t = q
  BY <1>2
<1> HIDE DEF N
<1>7. Claims' /\ ObjectsInv'
  <2>1. type_'[q] # "FREE" <=> q \in Queued' \/ \E k \in N : Detached(k) /\ k.t = q
    BY <1>3, <1>4, <1>6
  <2> QED
    BY <1>1, <1>3, <1>5, <1>6, <2>1, OneObject
<1>8. OwnInv'
  <2>1. ~RunsCommand(q) /\ UNCHANGED <<action_, client_>>
    BY <1>1, TypesApart DEF OwnInv, CommandInv, RunsCommand
  <2> QED
    BY <1>1, <1>3, <2>1, OwnFree
<1>9. VersionInv'
  BY DEF VersionInv
<1>10. TimeInv'
  <2>1. ~Asking
    BY <1>1, LeftIs, CallersAskNothing DEF Asking
  <2>2. UNCHANGED <<trans_state_, trans_ts_, ts, retry>>
    BY DEF timeVars
  <2>3. \A u \in Trans : type_'[u] = "MODEM_TICK_QUERY" => type_[u] = "MODEM_TICK_QUERY"
    BY <1>4
  <2>4. \A u \in Queued : type_[u] = "MODEM_TICK_QUERY" => type_'[u] = type_[u] /\ u \in Queued'
    BY <1>1, <1>3, <1>4, TypesApart
  <2> QED
    BY <1>1, <1>6, <2>1, <2>2, <2>3, <2>4, TimeKeeps
<1> QED
  BY <1>2, <1>7, <1>8, <1>9, <1>10 DEF Good, CoreInv, QueryInv, OwnInv

LEMMA DropQueryStep ==
  ASSUME IInv, ~Crashed, DropQuery
  PROVE  Fine'
<1>1. Shape /\ Claims /\ ObjectsInv /\ QueueTypeOK /\ Queued \subseteq Trans
  BY Parts
<1>2. At({"drop"})
  BY DEF DropQuery
<1>3. todo # <<>> /\ This.op = "drop" /\ Claim(This) /\ This.t \in Trans /\ This \in Labels
  BY <1>1, <1>2, ThisClaim, ThisObject DEF ObjectOps
<1>4. PICK q : q = This.t
  OBVIOUS
<1>5. q \in Queued /\ q \in Trans /\ type_[q] \in DiagTypes
  BY <1>3, <1>4, TypesApart DEF Claim
<1>6. ~Detached(This) /\ This.ctx # "time" /\ This.op \notin {"notify", "cancel"}
  <2>1. PICK h : h = This
    OBVIOUS
  <2>2. h.ctx = ""
    BY <1>3, <2>1, LabelIs DEF ObjectOps
  <2> QED
    BY <1>3, <2>1, <2>2 DEF Detached
<1>7. CASE Crash
  BY <1>7, CrashIsFine
<1>8. CASE ~Crash
  <2>1. /\ transactions_' = Without(q) /\ Free(q) /\ armed' = armed \ {q}
        /\ m_ver_state' = "NOT_BEGIN" /\ Then(<<>>)
        /\ UNCHANGED diagVars \/ StopDiagTrans
        /\ UNCHANGED <<atVars, timeVars>>
    BY <1>4, <1>8 DEF DropQuery
  <2>2. /\ armed' \subseteq armed /\ UNCHANGED <<timeVars, action_, client_>>
        /\ m_diag_handler' \in {m_diag_handler, NoTrans} /\ cur_diag_trans_' \in {cur_diag_trans_, NoTrans}
    BY <2>1 DEF StopDiagTrans, diagVars, atVars
  <2>3. \A l \in LeftToCallers : l.t # q
    BY <1>1, <1>3, <1>5, CallersAway
  <2>4. Good'
    BY <1>3, <1>5, <1>6, <2>1, <2>2, <2>3, QueryLeaves
  <2> QED
    BY <2>4, GoodIsFine
<1> QED
  BY <1>7, <1>8

LEMMA StopStep ==
  ASSUME IInv, ~Crashed, Stop
  PROVE  Fine'
<1>1. /\ Shape /\ Claims /\ ObjectsInv /\ OwnInv /\ QueueTypeOK /\ DeviceTypeOK /\ Queued \subseteq Trans
  BY Parts
<1>2. /\ todo # <<>> /\ This.op = "stop" /\ ~Detached(This) /\ This.ctx # "time"
      /\ This.op \notin {"notify", "cancel"}
  <2>1. At({"stop"}) /\ {"stop"} \in SUBSET DoOps
    BY DEF Stop, DoOps
  <2> QED
    BY <1>1, <2>1, ThisDo
<1>3. CASE Crash
  BY <1>3, CrashIsFine
<1>4. PICK q : q = cur_diag_trans_
  OBVIOUS
<1>5. ASSUME ~Crash
      PROVE  /\ Then(<<>>) /\ m_diag_handler' = NoTrans /\ UNCHANGED <<timeVars, action_, client_>>
             /\ \/ UNCHANGED <<queueVars, armed, at_finished_, cur_diag_trans_, m_ver_state>>
                \/ StopQuery(q) /\ ~Dangling(q)
  BY <1>4, <1>5 DEF Stop, ownVars, atVars
<1>6. CASE ~Crash /\ UNCHANGED <<queueVars, armed, at_finished_, cur_diag_trans_, m_ver_state>>
  <2>1. UNCHANGED <<queueVars, timeVars, m_ver_state>> /\ UNCHANGED <<action_, client_>> /\ Then(<<>>)
    BY <1>5, <1>6
  <2>2. OwnInv'
    BY <1>1, <1>5, <1>6, OwnSame
  <2>3. Good'
    BY <1>2, <2>1, <2>2, QuietPop
  <2> QED
    BY <2>3, GoodIsFine
<1>7. CASE ~Crash /\ StopQuery(q) /\ ~Dangling(q)
  <2>1. q \in Trans /\ type_[q] \in DiagTypes
    <3>1. q # NoTrans /\ ~Freed(q)
      BY <1>7 DEF Dangling
    <3> QED
      BY <1>1, <1>4, <3>1 DEF DeviceTypeOK, OwnInv, DiagInv, Freed
  <2>2. /\ armed' \subseteq armed /\ m_ver_state' = "NOT_BEGIN"
        /\ m_diag_handler' \in {m_diag_handler, NoTrans} /\ cur_diag_trans_' \in {cur_diag_trans_, NoTrans}
    BY <1>5, <1>7 DEF StopQuery
  <2>3. CASE type_[q] = "MEMORY_DUMP"
    <3>1. UNCHANGED <<queueVars, at_finished_>>
      BY <1>7, <2>3 DEF StopQuery, queueVars
    <3>2. UNCHANGED <<queueVars, timeVars>> /\ UNCHANGED <<action_, client_>> /\ Then(<<>>)
            /\ m_ver_state' \in {m_ver_state, "NOT_BEGIN", "FAILED"}
      BY <1>5, <1>7, <2>2, <3>1
    <3>3. OwnInv'
      BY <1>1, <2>2, <3>1, <3>2, OwnSame
    <3>4. Shape' /\ Left' = LeftToCallers /\ LeftToCallers' \subseteq LeftToCallers
      BY <1>1, <1>2, <3>2, Pop
    <3> DEFINE N == {}
    <3>5. /\ Left' = N \cup LeftToCallers /\ LeftToCallers' \subseteq N \cup LeftToCallers
          /\ \A m \in N : Claim(m)' /\ ~Detached(m) /\ m.ctx # "time" /\ m.op # "cancel"
          /\ \A m \in N \cap LeftToCallers' : CallerClaim(m)'
      BY <3>4
    <3> HIDE DEF N
    <3>6. Good'
      BY <1>2, <3>2, <3>3, <3>4, <3>5, Quiet
    <3> QED
      BY <3>6, GoodIsFine
  <2>4. CASE type_[q] # "MEMORY_DUMP"
    <3>1. transactions_' = Without(q) /\ Free(q)
      BY <1>7, <2>4 DEF StopQuery
    <3>2. \A l \in LeftToCallers : l.t # q
      BY <1>1, <1>2, <2>1, CallersAway
    <3>3. q \in Queued
      <4>1. type_[q] # "FREE"
        BY <2>1, TypesApart
      <4>2. ~\E l \in Left : Detached(l) /\ l.t = q
        BY <1>1, <1>2, <3>2, ShapeIs
      <4> QED
        BY <1>1, <2>1, <4>1, <4>2 DEF ObjectsInv
    <3>4. UNCHANGED <<timeVars, action_, client_>> /\ Then(<<>>)
      BY <1>5, <1>7
    <3>5. Good'
      BY <1>2, <2>1, <2>2, <3>1, <3>2, <3>3, <3>4, QueryLeaves
    <3> QED
      BY <3>5, GoodIsFine
  <2> QED
    BY <2>3, <2>4
<1> QED
  BY <1>3, <1>5, <1>6, <1>7

\* A client is told, and deletes the transaction.
LEMMA NotifyStep ==
  ASSUME IInv, ~Crashed, Notify
  PROVE  Good'
<1>1. /\ Shape /\ Claims /\ ObjectsInv /\ OwnInv /\ VersionInv /\ TimeInv /\ QueueTypeOK
      /\ Queued \subseteq Trans /\ IsInjective(transactions_)
  BY Parts
<1>2. At({"notify"})
  BY DEF Notify
<1>3. todo # <<>> /\ This.op = "notify" /\ Claim(This) /\ This.t \in Trans /\ This \in Labels
  BY <1>1, <1>2, ThisClaim, ThisObject DEF ObjectOps
<1>4. PICK t, h : t = This.t /\ h = This
  OBVIOUS
<1>5. t \in Trans /\ type_[t] # "FREE" /\ t \notin Queued /\ state_[t] # "EXECUTING"
  BY <1>3, <1>4 DEF Claim, Detached
<1>6. h.ctx = "" /\ h = L("notify", t, "") /\ Rests(h) = Back /\ Tail(todo) \in Back
  <2>1. h.ctx = "" /\ h = L(h.op, h.t, h.ctx)
    BY <1>3, <1>4, LabelIs DEF ObjectOps
  <2>2. Rests(h) = Back
    BY <1>3, <1>4 DEF Rests, CallOps
  <2> QED
    BY <1>1, <1>3, <1>4, <2>1, <2>2, ShapeIs
<1>7. Free(t) /\ UNCHANGED <<transactions_, armed, action_, client_, m_diag_handler, cur_diag_trans_, retry>>
  BY <1>4 DEF Notify, atVars, diagVars
<1>8. /\ type_'[t] = "FREE" /\ state_'[t] = "NOT_BEGIN"
      /\ \A u \in Trans \ {t} : type_'[u] = type_[u] /\ state_'[u] = state_[u]
  BY <1>1, <1>5, <1>7, FreeIs
<1>9. IsInjective(transactions_)' /\ Queued' = Queued
  BY <1>1, <1>7, SameQueue
<1>10. PICK again, over : /\ again = (type_[t] = "MODEM_TICK_QUERY" /\ state_[t] = "FAILURE")
                          /\ over = (type_[t] = "MEMORY_DUMP")
  OBVIOUS
<1>11. PICK a, e : a = L("new", NoTrans, "time") /\ e = Do("end_dump")
  OBVIOUS
<1>12. /\ a \in Labels /\ a.op = "new" /\ a.ctx = "time" /\ Rests(a) = AfterNew("time")
       /\ e \in Labels /\ e.op = "end_dump" /\ e.ctx = ""
  BY <1>11, NewLabel, MakeLabel, DoFields DEF NewCtx, DoOps
<1>13. Tail(todo) \in Rests(a) /\ Tail(todo) \in Rests(e)
  <2>1. Back \subseteq AfterNew("time")
    BY DEF AfterNew
  <2>2. Back \subseteq Rests(e)
    BY <1>12 DEF Rests, CallOps
  <2> QED
    BY <1>6, <1>12, <2>1, <2>2
<1>14. Then((IF again THEN <<a>> ELSE <<>>) \o (IF over THEN <<e>> ELSE <<>>))
  BY <1>4, <1>10, <1>11 DEF Notify
<1>15. \E N : /\ Shape' /\ Left' = N \cup LeftToCallers /\ LeftToCallers' \subseteq N \cup LeftToCallers
              /\ \A k \in N : k.op \in DoOps \cup {"new"} /\ k.op # "cancel"
              /\ (\E k \in N : k.ctx = "time") <=> again
  <2>1. <<a>> \in Seq(Labels) /\ <<e>> \in Seq(Labels) /\ <<>> \in Seq(Labels)
    BY <1>12, OneLabel
  <2>2. ~(again /\ over)
    BY <1>10
  <2>3. CASE again /\ ~over
    <3>1. Then(<<a>>)
      <4>1. Then(<<a>> \o <<>>)
        BY <1>14, <2>3
      <4>2. <<a>> \o <<>> = <<a>>
        BY <2>1, NoMoreLabels
      <4> QED
        BY <4>1, <4>2
    <3>2. Shape' /\ Left' = {a} \cup LeftToCallers /\ LeftToCallers' = LeftToCallers
      BY <1>1, <1>3, <1>12, <1>13, <3>1, PushOne
    <3> DEFINE N == {a}
    <3>3. /\ Shape' /\ Left' = N \cup LeftToCallers /\ LeftToCallers' \subseteq N \cup LeftToCallers
          /\ \A k \in N : k.op \in DoOps \cup {"new"} /\ k.op # "cancel"
          /\ (\E k \in N : k.ctx = "time") <=> again
      BY <1>12, <2>3, <3>2
    <3> HIDE DEF N
    <3> QED
      BY <3>3
  <2>4. CASE ~again /\ over
    <3>1. Then(<<e>>)
      <4>1. Then(<<>> \o <<e>>)
        BY <1>14, <2>4
      <4>2. <<>> \o <<e>> = <<e>>
        BY <2>1, NoMoreLabels
      <4> QED
        BY <4>1, <4>2
    <3>2. Shape' /\ Left' = {e} \cup LeftToCallers /\ LeftToCallers' = LeftToCallers
      BY <1>1, <1>3, <1>12, <1>13, <3>1, PushOne
    <3> DEFINE N == {e}
    <3>3. /\ Shape' /\ Left' = N \cup LeftToCallers /\ LeftToCallers' \subseteq N \cup LeftToCallers
          /\ \A k \in N : k.op \in DoOps \cup {"new"} /\ k.op # "cancel"
          /\ (\E k \in N : k.ctx = "time") <=> again
      BY <1>12, <2>4, <3>2 DEF DoOps
    <3> HIDE DEF N
    <3> QED
      BY <3>3
  <2>5. CASE ~again /\ ~over
    <3>1. Then(<<>>)
      <4>1. Then(<<>> \o <<>>)
        BY <1>14, <2>5
      <4>2. <<>> \o <<>> = <<>>
        BY <2>1, NoMoreLabels
      <4> QED
        BY <4>1, <4>2
    <3>2. Shape' /\ Left' = LeftToCallers /\ LeftToCallers' \subseteq LeftToCallers
      BY <1>1, <1>3, <3>1, Pop
    <3> DEFINE N == {}
    <3>3. /\ Shape' /\ Left' = N \cup LeftToCallers /\ LeftToCallers' \subseteq N \cup LeftToCallers
          /\ \A k \in N : k.op \in DoOps \cup {"new"} /\ k.op # "cancel"
          /\ (\E k \in N : k.ctx = "time") <=> again
      BY <2>5, <3>2
    <3> HIDE DEF N
    <3> QED
      BY <3>3
  <2> QED
    BY <1>10, <2>2, <2>3, <2>4, <2>5
<1>16. PICK N : /\ Shape' /\ Left' = N \cup LeftToCallers /\ LeftToCallers' \subseteq N \cup LeftToCallers
                /\ \A k \in N : k.op \in DoOps \cup {"new"} /\ k.op # "cancel"
                /\ (\E k \in N : k.ctx = "time") <=> again
  BY <1>15
<1>17. Claims' /\ ObjectsInv'
  <2>1. \A k \in N : Claim(k)' /\ CallerClaim(k)' /\ ~Detached(k)
    BY <1>16, NoClaim
  <2>2. /\ (\A k \in N : Claim(k)') /\ (\A k \in N \cap LeftToCallers' : CallerClaim(k)')
        /\ \A k \in N : Detached(k) => k.t = t
    BY <2>1
  <2>3. \A l \in LeftToCallers : l.t # t
    BY <1>1, <1>3, <1>4, <1>5, CallersAway
  <2>4. \A u \in Trans \ {t} : Kept(u)
    BY <1>7, <1>8, <1>9 DEF Kept, RunsCommand, Running
  <2>5. type_'[t] # "FREE" <=> t \in Queued' \/ \E k \in N : Detached(k) /\ k.t = t
    BY <1>5, <1>8, <1>9, <2>1
  <2>6. /\ Left' = N \cup LeftToCallers /\ LeftToCallers' \subseteq N \cup LeftToCallers
        /\ IsInjective(transactions_)' /\ Claims /\ ObjectsInv /\ Shape /\ QueueTypeOK
        /\ This.t = t
    BY <1>1, <1>4, <1>9, <1>16
  <2> QED
    BY <1>5, <2>2, <2>3, <2>4, <2>5, <2>6, OneObject
<1>18. OwnInv'
  <2>1. ~RunsCommand(t)
    BY <1>1, <1>5 DEF OwnInv, CommandInv, RunsCommand
  <2>2. UNCHANGED <<action_, client_>> /\ armed' \subseteq armed /\ m_diag_handler' \in {m_diag_handler, NoTrans}
          /\ cur_diag_trans_' \in {cur_diag_trans_, NoTrans}
    BY <1>7
  <2> QED
    BY <1>1, <1>5, <1>7, <2>1, <2>2, OwnFree
<1>19. \A u : L("notify", u, "") \in Left => u = t
  <2> SUFFICES ASSUME NEW u, L("notify", u, "") \in Left
               PROVE  u = t
    OBVIOUS
  <2>1. PICK l : l = L("notify", u, "")
    OBVIOUS
  <2>2. l.op = "notify" /\ l.t = u
    BY <2>1 DEF L
  <2>3. l = This
    BY <1>1, <1>3, <2>1, <2>2, ShapeIs, CallersAskNothing
  <2> QED
    BY <1>4, <2>2, <2>3
<1>20. VersionInv'
  <2> SUFFICES ASSUME m_ver_state' = "QUERY"
               PROVE  \E u \in Trans : type_'[u] = "VERSION_QUERY" /\ u \in Queued'
    BY DEF VersionInv
  <2>1. type_[t] # "VERSION_QUERY" /\ m_ver_state = "QUERY"
    BY <1>4 DEF Notify
  <2>2. PICK u \in Trans : type_[u] = "VERSION_QUERY" /\ (u \in Queued \/ L("notify", u, "") \in Left)
    BY <1>1, <2>1 DEF VersionInv
  <2>3. u # t
    BY <2>1, <2>2
  <2> QED
    BY <1>8, <1>9, <1>19, <2>2, <2>3
<1>21. \A l \in Left : l.ctx # "time" /\ l.op # "cancel"
  BY <1>1, <1>3, <1>4, <1>6, ShapeIs, CallersAskNothing
<1>22. Asking' <=> again
  BY <1>1, <1>16, AskingThen
<1>23. \A l \in Left' : l.op # "cancel"
  BY <1>1, <1>16, CallersAskNothing
<1>24. ~Asking
  BY <1>21 DEF Asking
<1>25. \A u \in Trans : type_[u] = "MODEM_TICK_QUERY" => u = trans_ts_
  BY <1>1, <1>21 DEF TimeInv
<1>26. TimeInv'
  <2>1. CASE type_[t] = "MODEM_TICK_QUERY"
    <3>1. t = trans_ts_
      BY <1>5, <1>25, <2>1
    <3>2. trans_state_ = "EXECUTING" /\ ~retry
      BY <1>1, <1>5, <3>1, NoTransIsNone DEF TimeInv
    <3>3. /\ trans_ts_' = NoTrans
          /\ trans_state_' = IF state_[t] = "FAILURE" THEN "EXECUTING_FAIL" ELSE "SUCCESS"
          /\ state_[t] # "FAILURE" => ts' # "none"
      BY <1>4, <2>1 DEF Notify
    <3>4. \A u \in Trans : type_'[u] # "MODEM_TICK_QUERY"
      BY <1>8, <1>25, <3>1
    <3>5. again <=> state_[t] = "FAILURE"
      BY <1>10, <2>1
    <3>6. ~retry'
      BY <1>7, <3>2
    <3> QED
      BY <1>22, <1>23, <3>3, <3>4, <3>5, <3>6 DEF TimeInv
  <2>2. CASE type_[t] # "MODEM_TICK_QUERY"
    <3>1. UNCHANGED <<trans_ts_, trans_state_, ts, retry>>
      BY <1>4, <1>7, <2>2 DEF Notify
    <3>2. ~Asking'
      BY <1>10, <1>22, <2>2
    <3>3. trans_state_ = "EXECUTING" => /\ trans_ts_ \in Trans \ {t} /\ type_[trans_ts_] = "MODEM_TICK_QUERY"
                                        /\ trans_ts_ \in Queued
      BY <1>1, <1>19, <2>2 DEF TimeInv
    <3>4. trans_state_ = "EXECUTING" => type_'[trans_ts_] = "MODEM_TICK_QUERY" /\ trans_ts_ \in Queued'
      BY <1>8, <1>9, <3>3
    <3>5. \A u \in Trans : type_'[u] = "MODEM_TICK_QUERY" => u = trans_ts_
      BY <1>8, <1>25
    <3> QED
      BY <1>1, <1>23, <1>24, <3>1, <3>2, <3>3, <3>4, <3>5 DEF TimeInv
  <2> QED
    BY <2>1, <2>2
<1> QED
  BY <1>16, <1>17, <1>18, <1>20, <1>26 DEF Good, CoreInv, QueryInv, OwnInv

\* A transaction of the AT controller is canceled, and its command with it.
LEMMA CancelTransStep ==
  ASSUME IInv, ~Crashed, CancelTrans
  PROVE  Good'
<1>1. /\ Shape /\ Claims /\ ObjectsInv /\ OwnInv /\ VersionInv /\ TimeInv /\ QueueTypeOK
      /\ Queued \subseteq Trans /\ IsInjective(transactions_) /\ transactions_ \in Seq(Trans)
  BY Parts
<1>2. At({"cancel"})
  BY DEF CancelTrans
<1>3. todo # <<>> /\ This.op = "cancel" /\ Claim(This) /\ This.t \in Trans /\ This \in Labels
  BY <1>1, <1>2, ThisClaim, ThisObject DEF ObjectOps
<1>4. PICK t, h : t = This.t /\ h = This
  OBVIOUS
<1>5. t \in Trans /\ t \in Queued /\ type_[t] # "VERSION_QUERY" /\ type_[t] \in AtTypes
  BY <1>3, <1>4, TypesApart DEF Claim
<1>6. h.ctx = "" /\ Rests(h) = {<<>>} /\ ~Detached(h)
  <2>1. h.ctx = ""
    BY <1>3, <1>4, LabelIs DEF ObjectOps
  <2> QED
    BY <1>3, <1>4, <2>1, RestsNone DEF Detached
<1>7. LeftToCallers = {} /\ \A s \in Seq(Labels) : Then(s) => todo' = s
  BY <1>1, <1>3, <1>4, <1>6, ThisLast
<1>8. Left = {h}
  BY <1>1, <1>3, <1>4, <1>7, ShapeIs
<1>9. PICK f : f = Do("front")
  OBVIOUS
<1>10. f \in Labels /\ f.op = "front" /\ f.ctx = ""
  BY <1>9, MakeLabel, DoFields DEF DoOps
<1>11. todo' = <<f>>
  <2>1. Then(<<f>>) /\ <<f>> \in Seq(Labels)
    BY <1>9, <1>10, OneLabel DEF CancelTrans
  <2> QED
    BY <1>7, <2>1
<1>12. Shape' /\ Left' = {f} /\ LeftToCallers' = {}
  BY <1>10, <1>11, LastOne, RestsNone
<1>13. /\ transactions_' = Without(t) /\ Free(t)
       /\ UNCHANGED <<armed, m_diag_handler, cur_diag_trans_, m_ver_state, timeVars>>
       /\ \/ state_[t] = "EXECUTING" /\ ~Running'
          \/ state_[t] # "EXECUTING" /\ UNCHANGED <<action_, client_>>
  BY <1>4 DEF CancelTrans, CancelCommand, Running, atVars, diagVars, verVars
<1>14. IsInjective(transactions_)' /\ Queued' = Queued \ {t}
  BY <1>1, <1>13, WithoutIs
<1>15. /\ type_'[t] = "FREE" /\ state_'[t] = "NOT_BEGIN"
       /\ \A u \in Trans \ {t} : type_'[u] = type_[u] /\ state_'[u] = state_[u]
  BY <1>1, <1>5, <1>13, FreeIs
<1>16. Claims' /\ ObjectsInv'
  <2> DEFINE N == {f}
  <2>1. \A k \in N : Claim(k)' /\ CallerClaim(k)' /\ ~Detached(k)
    BY <1>10, NoClaim DEF DoOps
  <2>2. /\ Left' = N \cup LeftToCallers /\ LeftToCallers' \subseteq N \cup LeftToCallers
        /\ (\A k \in N : Claim(k)') /\ (\A k \in N \cap LeftToCallers' : CallerClaim(k)')
        /\ \A k \in N : Detached(k) => k.t = t
    BY <1>7, <1>12, <2>1
  <2> HIDE DEF N
  <2>3. \A u \in Trans \ {t} : Kept(u)
    BY <1>13, <1>14, <1>15 DEF Kept, RunsCommand, Running
  <2>4. type_'[t] # "FREE" <=> t \in Queued' \/ \E k \in N : Detached(k) /\ k.t = t
    BY <1>14, <1>15, <2>1
  <2>5. /\ IsInjective(transactions_)' /\ Claims /\ ObjectsInv /\ Shape /\ QueueTypeOK
        /\ This.t = t /\ \A l \in LeftToCallers : l.t # t
    BY <1>1, <1>4, <1>7, <1>14
  <2> QED
    BY <1>5, <2>2, <2>3, <2>4, <2>5, OneObject
<1>17. OwnInv'
  <2>1. state_[t] # "EXECUTING" => ~RunsCommand(t)
    BY <1>1 DEF OwnInv, CommandInv, RunsCommand
  <2>2. (UNCHANGED <<action_, client_>> /\ ~RunsCommand(t)) \/ ~Running'
    BY <1>13, <2>1
  <2>3. armed' \subseteq armed /\ m_diag_handler' \in {m_diag_handler, NoTrans}
          /\ cur_diag_trans_' \in {cur_diag_trans_, NoTrans}
    BY <1>13
  <2> QED
    BY <1>1, <1>5, <1>13, <2>2, <2>3, OwnFree
<1>18. VersionInv'
  <2>1. \A u \in Queued : type_[u] = "VERSION_QUERY" => type_'[u] = type_[u] /\ u \in Queued'
    BY <1>1, <1>5, <1>14, <1>15
  <2>2. m_ver_state' = m_ver_state /\ This.op # "notify"
    BY <1>3, <1>13
  <2> QED
    BY <1>1, <2>1, <2>2, VersionKeeps
<1>19. TimeInv'
  <2>1. t # trans_ts_
    BY <1>1, <1>3, <1>4, <1>8 DEF TimeInv
  <2>2. ~Asking /\ ~Asking'
    BY <1>6, <1>8, <1>10, <1>12 DEF Asking
  <2>3. \A u : L("notify", u, "") # h
    <3>1. \A u : L("notify", u, "").op = "notify"
      BY DEF L
    <3>2. h.op = "cancel"
      BY <1>3, <1>4
    <3> QED
      BY <3>1, <3>2
  <2>4. trans_state_ = "EXECUTING" => /\ trans_ts_ \in Trans \ {t} /\ type_[trans_ts_] = "MODEM_TICK_QUERY"
                                      /\ trans_ts_ \in Queued
    BY <1>1, <1>8, <2>1, <2>3 DEF TimeInv
  <2>5. trans_state_ = "EXECUTING" => type_'[trans_ts_] = "MODEM_TICK_QUERY" /\ trans_ts_ \in Queued'
    BY <1>14, <1>15, <2>4
  <2>6. ASSUME NEW u \in Trans, type_'[u] = "MODEM_TICK_QUERY"
        PROVE  u = trans_ts_
    <3>1. u # t /\ type_[u] = "MODEM_TICK_QUERY"
      BY <1>15, <2>6
    <3>2. u = trans_ts_ \/ \E l \in Left : l.t = u
      BY <1>1, <3>1 DEF TimeInv
    <3> QED
      BY <1>4, <1>8, <3>1, <3>2
  <2>7. \A l \in Left' : l.op # "cancel"
    BY <1>10, <1>12
  <2>8. UNCHANGED <<trans_ts_, trans_state_, ts, retry>>
    BY <1>13 DEF timeVars
  <2> QED
    BY <1>1, <2>2, <2>4, <2>5, <2>6, <2>7, <2>8 DEF TimeInv
<1> QED
  BY <1>12, <1>16, <1>17, <1>18, <1>19 DEF Good, CoreInv, QueryInv, OwnInv

------------------------------------------------------------------------------
(* The invariant is inductive.                                             *)

\* When the system boots there is no object and no command, and the time is
\* still to be asked for.
LEMMA BootLabels ==
  ASSUME ModemInit
  PROVE  /\ Shape /\ ~Crashed /\ LeftToCallers \subseteq Left
         /\ (\A l \in Left : l.op \in {"new", "start"})
         /\ \E l \in Left : l.ctx = "time"
<1>1. PICK n : n = L("new", NoTrans, "time")
  OBVIOUS
<1>2. PICK s : s = Do("start")
  OBVIOUS
<1>3. n \in Labels /\ n.op = "new" /\ n.ctx = "time" /\ Rests(n) = AfterNew("time")
  BY <1>1, NewLabel DEF NewCtx
<1>4. s \in Labels /\ s.op = "start"
  BY <1>2, MakeLabel, DoFields DEF DoOps
<1>5. <<>> \in AfterNew("time") /\ <<s>> \in AfterNew("time")
  BY <1>2 DEF AfterNew
<1>6. todo = <<n>> \/ todo = <<n, s>>
  BY <1>1, <1>2 DEF ModemInit
<1>7. todo # <<Do("crashed")>>
  <2>1. Head(todo) = n
    BY <1>3, <1>4, <1>6, OneLabel, TwoLabels
  <2>2. Do("crashed").op = "crashed" /\ Do("crashed") \in Labels
    BY MakeLabel, DoFields DEF DoOps
  <2>3. Head(<<Do("crashed")>>) = Do("crashed")
    BY <2>2, OneLabel
  <2> QED
    BY <1>3, <2>1, <2>2, <2>3
<1>8. CASE todo = <<n>>
  <2>1. /\ todo \in Seq(Labels) /\ todo # <<>> /\ Head(todo) = n /\ Tail(todo) = <<>>
        /\ Range(todo) = {n} /\ Range(<<>>) = {}
    BY <1>3, <1>8, OneLabel
  <2> QED
    BY <1>3, <1>5, <1>7, <2>1 DEF Shape, This, Left, LeftToCallers, Crashed
<1>9. CASE todo = <<n, s>>
  <2>1. /\ todo \in Seq(Labels) /\ todo # <<>> /\ Head(todo) = n /\ Tail(todo) = <<s>>
        /\ Range(todo) = {n, s} /\ Range(<<s>>) = {s}
    BY <1>3, <1>4, <1>9, TwoLabels
  <2> QED
    BY <1>3, <1>4, <1>5, <1>7, <2>1 DEF Shape, This, Left, LeftToCallers, Crashed
<1> QED
  BY <1>6, <1>8, <1>9

LEMMA BootInv == ModemInit => IInv
<1> SUFFICES ASSUME ModemInit
             PROVE  IInv
  OBVIOUS
<1>1. /\ Shape /\ ~Crashed /\ LeftToCallers \subseteq Left
      /\ (\A l \in Left : l.op \in {"new", "start"})
      /\ \E l \in Left : l.ctx = "time"
  BY BootLabels
<1>2. AtInv /\ AtTypeOK
  BY AtInitInv DEF ModemInit, AtInv
<1>3. ModemTypeOK
  <2>1. transactions_ \in Seq(Trans) /\ armed \subseteq Trans /\ at_finished_ \subseteq Trans /\ tick \subseteq Trans
    BY DEF ModemInit
  <2>2. /\ type_ \in [Trans -> Types \cup {"FREE"}]
        /\ state_ \in [Trans -> {"NOT_BEGIN", "EXECUTING", "SUCCESS", "FAILURE"}]
    BY DEF ModemInit
  <2>3. {m_diag_handler, cur_diag_trans_, trans_ts_} \subseteq Trans \cup {NoTrans}
    BY DEF ModemInit
  <2>4. requeries \in Nat /\ events \in 0 .. MaxEvents
    BY TransAssumption DEF ModemInit
  <2> QED
    BY <1>2, <2>1, <2>2, <2>3, <2>4 DEF ModemInit, ModemTypeOK
<1>4. Queued = {} /\ IsInjective(transactions_)
  BY DEF ModemInit, Queued, IsInjective
<1>5. /\ \A t \in Trans : type_[t] = "FREE" /\ state_[t] = "NOT_BEGIN"
      /\ ~Running /\ at_finished_ = {} /\ m_diag_handler = NoTrans /\ cur_diag_trans_ = NoTrans
      /\ m_ver_state = "NOT_BEGIN"
      /\ trans_state_ = "NOT_BEGIN" /\ trans_ts_ = NoTrans /\ retry = FALSE /\ ts = "none"
  BY DEF ModemInit, AtInit, Running
<1>6. ASSUME NEW l \in Left
      PROVE  Claim(l) /\ ~Detached(l) /\ CallerClaim(l) /\ l.op # "cancel"
  <2>1. l.op \in {"new", "start"}
    BY <1>1
  <2> QED
    BY <2>1 DEF Claim, CallerClaim, Detached, CallOps
<1>7. Claims
  BY <1>1, <1>6 DEF Claims
<1>8. ObjectsInv
  BY <1>4, <1>5, <1>6 DEF ObjectsInv
<1>9. CommandInv /\ UnbegunInv /\ DiagInv
  BY <1>5 DEF CommandInv, UnbegunInv, DiagInv
<1>10. VersionInv
  BY <1>5 DEF VersionInv
<1>11. TimeInv
  BY <1>1, <1>5, <1>6 DEF TimeInv, Asking
<1> QED
  BY <1>1, <1>2, <1>3, <1>7, <1>8, <1>9, <1>10, <1>11 DEF IInv, CoreInv, QueryInv

\* After a null pointer nothing happens any more.
LEMMA CrashedStops == Crashed => ~Next
<1> SUFFICES ASSUME Crashed, Next
             PROVE  FALSE
  OBVIOUS
<1>1. PICK l : l = Do("crashed")
  OBVIOUS
<1>2. l.op = "crashed" /\ l \in Labels
  BY <1>1, MakeLabel, DoFields DEF DoOps
<1>3. todo = <<l>>
  BY <1>1 DEF Crashed
<1>4. todo # <<>> /\ This.op = "crashed"
  BY <1>2, <1>3, OneLabel DEF This
<1>5. ~MainStep
  BY <1>4 DEF MainStep, At, NewTrans, NewBegun, NewEnded, ExecuteAtOnce, ExecuteDiag, ExecuteCommand,
      ExecuteLastLog, Finish, Begin, Loop, FrontStarts, LoopReturn, Notify, CancelTrans, EndDump, Start,
      Stop, DropQuery, EventMode, TimeAssert, CommandResult, ExportResult
<1>6. ~Idle
  BY <1>4 DEF Idle
<1> QED
  BY <1>5, <1>6 DEF Next, Event, Answer, AtTimeout, TickArrives, AtReset, DiagTimeout, DiagData,
      LastLogTimeout, EventLogData, RequeryModemVer, StartQuery, ClientRequest, ClientLeaves, ModemEvent,
      ProcessAssert, ProcessAlive

\* A step that changes nothing.
LEMMA StutterStep ==
  ASSUME IInv, UNCHANGED modemVars
  PROVE  Fine'
<1>1. UNCHANGED <<todo, queueVars, armed, at_finished_, m_diag_handler, cur_diag_trans_, m_ver_state,
                  trans_state_, trans_ts_, retry, ts, action_, client_>>
  BY DEF modemVars, transVars, atVars, queueVars, ownVars, diagVars, verVars, timeVars
<1>2. (Shape <=> Shape') /\ (Crashed <=> Crashed') /\ Left' = Left /\ LeftToCallers' = LeftToCallers
  BY <1>1 DEF Shape, Crashed, Left, LeftToCallers, This
<1>3. (Running <=> Running') /\ Queued' = Queued
  BY <1>1 DEF Running, Queued, queueVars
<1>4. \A l : (Claim(l) <=> Claim(l)') /\ (CallerClaim(l) <=> CallerClaim(l)')
  BY <1>1, <1>3 DEF Claim, CallerClaim, Detached, RunsCommand, queueVars
<1>5. Claims => Claims'
  BY <1>2, <1>4 DEF Claims
<1>6. ObjectsInv => ObjectsInv'
  BY <1>1, <1>2, <1>3 DEF ObjectsInv, IsInjective, queueVars, Detached
<1>7. CommandInv /\ UnbegunInv /\ DiagInv => CommandInv' /\ UnbegunInv' /\ DiagInv'
  BY <1>1, <1>3 DEF CommandInv, UnbegunInv, DiagInv, queueVars
<1>8. VersionInv /\ TimeInv => VersionInv' /\ TimeInv'
  BY <1>1, <1>2, <1>3 DEF VersionInv, TimeInv, Asking, queueVars
<1> QED
  BY <1>2, <1>5, <1>6, <1>7, <1>8 DEF IInv, Fine, CoreInv, QueryInv

LEMMA MainStepFine ==
  ASSUME IInv, ~Crashed, MainStep
  PROVE  Fine'
<1>1. ASSUME NewTrans \/ NewBegun \/ NewEnded PROVE Fine'
  BY <1>1, NewTransStep, NewBegunStep, NewEndedStep, GoodIsFine
<1>2. ASSUME ExecuteAtOnce \/ ExecuteDiag \/ ExecuteCommand \/ ExecuteLastLog PROVE Fine'
  BY <1>2, ExecuteAtOnceStep, ExecuteDiagStep, ExecuteCommandStep, ExecuteLastLogStep, GoodIsFine
<1>3. ASSUME Finish \/ Begin \/ Loop \/ FrontStarts \/ LoopReturn PROVE Fine'
  BY <1>3, FinishStep, BeginStep, LoopStep, FrontStep, LoopReturnStep, GoodIsFine
<1>4. ASSUME Notify \/ CancelTrans \/ EndDump \/ EventMode PROVE Fine'
  BY <1>4, NotifyStep, CancelTransStep, EndDumpStep, GoodIsFine
<1>5. ASSUME Start \/ TimeAssert \/ CommandResult \/ ExportResult PROVE Fine'
  BY <1>5, StartStep, TimeAssertStep, CommandResultStep, ExportResultStep, GoodIsFine
<1>6. ASSUME Stop \/ DropQuery PROVE Fine'
  BY <1>6, StopStep, DropQueryStep
<1> QED
  BY <1>1, <1>2, <1>3, <1>4, <1>5, <1>6 DEF MainStep

LEMMA NextFine ==
  ASSUME IInv, [Next]_modemVars
  PROVE  Fine'
<1>1. ASSUME Next
      PROVE  Fine'
  <2>1. ~Crashed
    BY <1>1, CrashedStops
  <2>2. ASSUME MainStep PROVE Fine'
    BY <2>1, <2>2, MainStepFine
  <2>3. ASSUME Answer \/ AtTimeout \/ TickArrives \/ AtReset PROVE Fine'
    BY <2>3, AnswerStep, TickStep
  <2>4. ASSUME DiagTimeout \/ DiagData \/ LastLogTimeout \/ EventLogData PROVE Fine'
    BY <2>4, DiagStep, LogTimerStep
  <2>5. ASSUME RequeryModemVer \/ StartQuery \/ ModemEvent PROVE Fine'
    BY <2>5, ModemEventStep, StartQueryStep
  <2>6. ASSUME ClientRequest \/ ClientLeaves \/ ProcessAssert \/ ProcessAlive PROVE Fine'
    BY <2>6, ClientRequestStep, ClientLeavesStep, ProcessAssertStep, ProcessAliveStep
  <2> QED
    BY <1>1, <2>2, <2>3, <2>4, <2>5, <2>6 DEF Next
<1> QED
  BY <1>1, StutterStep

LEMMA Inductive ==
  ASSUME IInv, [Next]_modemVars
  PROVE  IInv'
<1>1. ModemTypeOK' /\ AtInv'
  BY TypeStep DEF IInv
<1> QED
  BY <1>1, NextFine DEF IInv, Fine

------------------------------------------------------------------------------
(* What holds of the modem's transactions.                                 *)

\* The invariant holds: the calls that are left fit together, each with what it
\* assumes of its object; every object that is not free is in the queue or in the
\* hands of a call; and a command is that of a transaction that waits for it.
THEOREM Invariance == Spec => []IInv
<1>1. IInv /\ [Next]_modemVars => IInv'
  BY Inductive
<1> QED
  BY <1>1, BootInv, PTL DEF Spec

\* The AT controller keeps its invariant whatever the transactions make of it:
\* execute, cancel and start the next command inside the callback of the last.
THEOREM AtCommands == Spec => []AtInv
<1>1. IInv => AtInv
  BY DEF IInv
<1> QED
  BY <1>1, Invariance, PTL

\* Between two events the client pointer of the running command leads to a
\* transaction in the queue that executes, and the command is of its kind.
THEOREM CommandsAreOwned == Spec => []CommandOwned
<1>1. IInv => CommandOwned
  <2> SUFFICES ASSUME IInv, todo = <<>>, Running
               PROVE  /\ client_ \in Queued
                      /\ state_[client_] = "EXECUTING"
                      /\ type_[client_] \in AtTypes /\ CommandOf(type_[client_]) = action_
                      /\ client_ \notin at_finished_
    BY DEF CommandOwned, Idle
  <2>1. CommandInv
    BY Parts DEF Crashed, OwnInv
  <2>2. client_ \in Trans /\ type_[client_] \in AtTypes
    BY <2>1 DEF CommandInv
  <2>3. type_[client_] # "FREE"
    BY <2>2 DEF AtTypes
  <2>4. client_ \in Queued
    BY <2>2, <2>3, IdleQueued
  <2> QED
    BY <2>1, <2>4 DEF CommandInv
<1> QED
  BY <1>1, Invariance, PTL

\* Between two events the queue holds each object that is not free exactly once:
\* whatever callbacks canceled, finished and began, none is leaked or lost.
THEOREM QueueIsComplete == Spec => []QueueHasAll
<1>1. IInv => QueueHasAll
  <2> SUFFICES ASSUME IInv
               PROVE  QueueHasAll
    OBVIOUS
  <2>1. ModemTypeOK
    BY DEF IInv
  <2>2. ASSUME todo = <<>>
        PROVE  IsInjective(transactions_) /\ Queued = {t \in Trans : type_[t] # "FREE"}
    <3>1. ObjectsInv /\ Queued \subseteq Trans
      BY <2>2, Parts DEF Crashed
    <3> QED
      BY <2>2, <3>1, NoneToCallers DEF ObjectsInv
  <2> QED
    BY <2>1, <2>2 DEF QueueHasAll, Idle
<1> QED
  BY <1>1, Invariance, PTL

\* A transaction that is executed has not begun, and has no timer, no command
\* and not the diag device: no callback starts one that another has started.
THEOREM NoneExecutedTwice == Spec => []ExecutedOnce
<1>1. IInv => ExecutedOnce
  <2> SUFFICES ASSUME IInv, NEW t \in Trans, todo # <<>>, This.op = "execute", This.t = t,
                      type_[t] # "ORCA_ETB_DUMP"
               PROVE  state_[t] = "NOT_BEGIN" /\ ~WillFinish(t) /\ m_diag_handler # t
    BY DEF ExecutedOnce
  <2>1. ~Crashed
    <3>1. ASSUME Crashed
          PROVE  FALSE
      <4>1. PICK l : l = Do("crashed")
        OBVIOUS
      <4>2. l.op = "crashed" /\ l \in Labels
        BY <4>1, MakeLabel, DoFields DEF DoOps
      <4>3. This = l
        BY <3>1, <4>1, <4>2, OneLabel DEF Crashed, This
      <4> QED
        BY <4>2, <4>3
    <3> QED
      BY <3>1
  <2>2. Shape /\ Claims /\ OwnInv
    BY <2>1, Parts
  <2>3. At({"execute"})
    BY DEF At
  <2>4. Claim(This)
    BY <2>2, <2>3, ThisClaim
  <2>5. type_[t] # "FREE" /\ state_[t] = "NOT_BEGIN"
    BY <2>4 DEF Claim, CallOps
  <2>6. t \notin armed /\ m_diag_handler # t
    BY <2>2, <2>5 DEF OwnInv, UnbegunInv
  <2>7. ~(Running /\ client_ = t)
    BY <2>2, <2>5 DEF OwnInv, CommandInv
  <2> QED
    BY <2>5, <2>6, <2>7 DEF WillFinish
<1> QED
  BY <1>1, Invariance, PTL

\* While the daemon's state says that the version or the time is being queried
\* there is such a query in the queue, and after a failure something will begin
\* the next: the pointer trans_ts_ is never left behind.
THEOREM QueriesContinue == Spec => []QueriesGoOn
<1>1. IInv => QueriesGoOn
  <2> SUFFICES ASSUME IInv
               PROVE  QueriesGoOn
    OBVIOUS
  <2>1. ASSUME todo = <<>>
        PROVE  VersionInv /\ TimeInv /\ Left = {} /\ ~Asking
    BY <2>1, Parts, NoneToCallers DEF Crashed, Asking
  <2>2. VersionState
    BY <2>1 DEF VersionState, VersionInv, Idle
  <2>3. trans_state_ \in {"NOT_BEGIN", "EXECUTING", "START_FAIL", "EXECUTING_FAIL", "SUCCESS"}
    BY DEF IInv, ModemTypeOK
  <2>4. TimeSyncGoesOn
    BY <2>1, <2>3 DEF TimeSyncGoesOn, TimeInv, Idle
  <2> QED
    BY <2>2, <2>4 DEF QueriesGoOn
<1> QED
  BY <1>1, Invariance, PTL

------------------------------------------------------------------------------
(* The queue moves.                                                        *)

Begun(t) == state_[t] # "NOT_BEGIN" \/ t \in armed
Precedes(u, t) ==
  \E i, j \in DOMAIN transactions_ : i < j /\ transactions_[i] = u /\ transactions_[j] = t

\* The calls that will start a transaction in the queue, if one can be started.
Starter(l) ==
  \/ l.op \in {"begin", "front", "finish"}
  \/ l.op = "loop" /\ l.t # NoTrans
  \/ l.op \in CallOps /\ l.ctx \in QueueCtx
WillStart == \E l \in Left : Starter(l)
Says(op, t) == \E l \in Left : l.op = op /\ l.t = t

\* What a transaction that executes is waiting for, a call that is left included.
WillEnd(t) ==
  CASE type_[t] \in DiagTypes -> t \in armed \/ m_diag_handler # t \/ Says("finish", t)
    [] type_[t] = "SAVE_MODEM_LAST_LOG" -> t \in armed \/ Says("finish", t)
    [] type_[t] = "SAVE_EVENT_LOG" ->
         IF t \in at_finished_ THEN t \in armed \/ Says("finish", t)
         ELSE RunsCommand(t) \/ Says("result", t)
    [] OTHER -> RunsCommand(t) \/ Says("result", t) \/ Says("finish", t)

ExecuteInv == \A t \in Trans : state_[t] = "EXECUTING" => WillEnd(t)

\* What has ended while it is in the queue is about to be removed.
EndedInv ==
  \A t \in Queued : state_[t] \in Results => Says("SUCCESS", t) \/ Says("ERROR", t)

CurrentInv == cur_diag_trans_ \in Queued => Begun(cur_diag_trans_)

StartInv ==
  Queued # {} =>
    \/ \E t \in Queued : Begun(t)
    \/ cur_diag_trans_ # NoTrans /\ cur_diag_trans_ \notin Queued
    \/ WillStart

\* What else a call may assume.
MoveClaim(l) ==
  /\ l.op = "STARTED" => Begun(l.t) /\ state_[l.t] \notin Results
  /\ l.op = "execute" /\ l.ctx \in NewCtx => MayRunNow(type_[l.t])
  /\ l.op = "drop" => Queued = {l.t}
  /\ l.op = "stop" => Queued = {} \/ WillStart
  /\ (l.op = "loop" /\ l.t # NoTrans) \/ (l.op \in CallOps /\ l.ctx = "loop") =>
       \A u \in Queued : Precedes(u, l.t) => Begun(u)

MoveInv ==
  /\ ExecuteInv
  /\ EndedInv
  /\ CurrentInv
  /\ StartInv
  /\ \A l \in Left : MoveClaim(l)

\* Calls of which MoveClaim asks nothing.
PlainOps == {"new", "begin", "front", "end_dump", "start", "event_mode", "time_assert", "cancel",
             "finish", "result", "notify"}

\* What t waits for, and what has been said of it, is not taken away.
Goes(t) ==
  /\ type_'[t] = type_[t] /\ state_'[t] = state_[t]
  /\ t \in armed => t \in armed'
  /\ t \in at_finished_' <=> t \in at_finished_
  /\ m_diag_handler' = t => m_diag_handler = t
  /\ RunsCommand(t) => RunsCommand(t)'
  /\ \A l \in Left : l.t = t /\ l.op \in {"finish", "result", "SUCCESS", "ERROR"} => l \in Left'

LEMMA SaysKept ==
  ASSUME NEW t, NEW op \in {"finish", "result", "SUCCESS", "ERROR"}, Goes(t), Says(op, t)
  PROVE  Says(op, t)'
BY DEF Goes, Says

LEMMA GoesOn ==
  ASSUME NEW t, Goes(t), WillEnd(t)
  PROVE  WillEnd(t)'
<1>1. Says("finish", t) => Says("finish", t)'
  BY SaysKept
<1>2. Says("result", t) => Says("result", t)'
  BY SaysKept
<1>3. /\ type_'[t] = type_[t] /\ (t \in armed => t \in armed') /\ (t \in at_finished_' <=> t \in at_finished_)
      /\ m_diag_handler' = t => m_diag_handler = t
      /\ RunsCommand(t) => RunsCommand(t)'
  BY DEF Goes
<1>4. CASE type_[t] \in DiagTypes
  <2>1. t \in armed \/ m_diag_handler # t \/ Says("finish", t)
    BY <1>4 DEF WillEnd, DiagTypes
  <2>2. t \in armed' \/ m_diag_handler' # t \/ Says("finish", t)'
    BY <1>1, <1>3, <2>1
  <2>3. type_'[t] \in DiagTypes
    BY <1>3, <1>4
  <2> QED
    BY <2>2, <2>3 DEF WillEnd, DiagTypes
<1>5. CASE type_[t] = "SAVE_MODEM_LAST_LOG" /\ type_[t] \notin DiagTypes
  BY <1>1, <1>3, <1>5 DEF WillEnd
<1>6. CASE type_[t] = "SAVE_EVENT_LOG" /\ type_[t] \notin DiagTypes
  BY <1>1, <1>2, <1>3, <1>6 DEF WillEnd
<1>7. CASE type_[t] \notin DiagTypes \cup {"SAVE_MODEM_LAST_LOG", "SAVE_EVENT_LOG"}
  BY <1>1, <1>2, <1>3, <1>7 DEF WillEnd
<1> QED
  BY <1>4, <1>5, <1>6, <1>7

\* Only the objects X are changed.
LEMMA MoveStep ==
  ASSUME MoveInv, NEW X,
         \A t \in Trans \ X : Goes(t),
         \A t \in Trans \cap X : state_'[t] = "EXECUTING" => WillEnd(t)',
         \A t \in X \cap Queued' : state_'[t] \in Results => Says("SUCCESS", t)' \/ Says("ERROR", t)',
         Queued' \subseteq Queued \cup X, Queued' \subseteq Trans,
         CurrentInv', StartInv', \A l \in Left' : MoveClaim(l)'
  PROVE  MoveInv'
<1>1. ExecuteInv'
  <2>1. ASSUME NEW t \in Trans, state_'[t] = "EXECUTING"
        PROVE  WillEnd(t)'
    <3>1. CASE t \in X
      BY <2>1, <3>1
    <3>2. CASE t \notin X
      <4>1. Goes(t) /\ state_[t] = "EXECUTING"
        BY <2>1, <3>2 DEF Goes
      <4>2. WillEnd(t)
        BY <4>1 DEF MoveInv, ExecuteInv
      <4> QED
        BY <4>1, <4>2, GoesOn
    <3> QED
      BY <3>1, <3>2
  <2> QED
    BY <2>1 DEF ExecuteInv
<1>2. EndedInv'
  <2>1. ASSUME NEW t \in Queued', state_'[t] \in Results
        PROVE  Says("SUCCESS", t)' \/ Says("ERROR", t)'
    <3>1. CASE t \in X
      BY <2>1, <3>1
    <3>2. CASE t \notin X
      <4>1. Goes(t) /\ state_[t] \in Results /\ t \in Queued
        BY <2>1, <3>2 DEF Goes
      <4>2. Says("SUCCESS", t) \/ Says("ERROR", t)
        BY <4>1 DEF MoveInv, EndedInv
      <4> QED
        BY <4>1, <4>2, SaysKept
    <3> QED
      BY <3>1, <3>2
  <2> QED
    BY <2>1 DEF EndedInv
<1> QED
  BY <1>1, <1>2 DEF MoveInv

LEMMA PlainMoves ==
  ASSUME NEW l, l.op \in PlainOps
  PROVE  MoveClaim(l)'
<1> DEFINE op == l.op
<1>1. op \in PlainOps
  OBVIOUS
<1> QED
  BY <1>1 DEF MoveClaim, PlainOps, CallOps

\* What callers may assume of the order of the queue remains.
LEMMA CallersMove ==
  ASSUME Shape, MoveInv, NEW l \in LeftToCallers,
         \A u : Precedes(u, l.t)' => Precedes(u, l.t),
         \A u \in Queued' : Precedes(u, l.t) => u \in Queued /\ (Begun(u) => Begun(u)')
  PROVE  MoveClaim(l)'
<1>1. todo # <<>>
  BY DEF LeftToCallers
<1>2. CallerLabel(l) /\ l \in Left
  BY <1>1, ShapeIs
<1>3. MoveClaim(l)
  BY <1>2 DEF MoveInv
<1>4. CASE l.op \in PlainOps
  BY <1>4, PlainMoves
<1>5. CASE l.op \in {"loop", "SUCCESS"}
  <2>1. (l.op = "loop" /\ l.t # NoTrans) \/ (l.op \in CallOps /\ l.ctx = "loop") =>
          \A u \in Queued : Precedes(u, l.t) => Begun(u)
    BY <1>3 DEF MoveClaim
  <2>2. (l.op = "loop" /\ l.t # NoTrans) \/ (l.op \in CallOps /\ l.ctx = "loop") =>
          \A u \in Queued' : Precedes(u, l.t)' => Begun(u)'
    BY <2>1
  <2> QED
    BY <1>5, <2>2 DEF MoveClaim
<1> QED
  BY <1>2, <1>4, <1>5 DEF CallerLabel, PlainOps

LEMMA SameOrder ==
  ASSUME UNCHANGED transactions_
  PROVE  Queued' = Queued /\ \A u, t : Precedes(u, t)' <=> Precedes(u, t)
BY DEF Queued, Precedes

LEMMA PrecedesIs ==
  ASSUME NEW u, NEW t, Precedes(u, t)
  PROVE  u \in Queued /\ t \in Queued
BY DEF Precedes, Queued

LEMMA BegunKept ==
  ASSUME NEW t, state_'[t] = state_[t], t \in armed => t \in armed', Begun(t)
  PROVE  Begun(t)'
BY DEF Begun

\* The queue goes on as it did: nobody who starts or has begun is lost.
LEMMA StartKept ==
  ASSUME StartInv, \A l \in Left : Starter(l) => l \in Left',
         \A t \in Queued : Begun(t) => t \in Queued' /\ Begun(t)',
         Queued = {} => Queued' = {},
         cur_diag_trans_ # NoTrans /\ cur_diag_trans_ \notin Queued =>
           cur_diag_trans_' # NoTrans /\ cur_diag_trans_' \notin Queued'
  PROVE  StartInv'
<1>1. WillStart => WillStart'
  BY DEF WillStart, Starter
<1> QED
  BY <1>1 DEF StartInv

LEMMA StarterStarts ==
  ASSUME NEW l \in Left', Starter(l)
  PROVE  WillStart' /\ StartInv'
<1>1. WillStart'
  BY DEF WillStart, Starter
<1> QED
  BY <1>1 DEF StartInv

LEMMA CurrentKept ==
  ASSUME CurrentInv, cur_diag_trans_' \in {cur_diag_trans_, NoTrans}, Queued' \subseteq Trans,
         \A t \in Queued' : t = cur_diag_trans_ => t \in Queued /\ (Begun(t) => Begun(t)')
  PROVE  CurrentInv'
<1>1. PICK c : c = cur_diag_trans_'
  OBVIOUS
<1>2. c \in Queued' => Begun(c)'
  <2>1. c \in Queued' => c = cur_diag_trans_
    BY <1>1, NoTransIsNone
  <2> QED
    BY <1>1, <2>1 DEF CurrentInv
<1>3. Begun(c)' => Begun(cur_diag_trans_)'
  BY <1>1 DEF Begun
<1> QED
  BY <1>1, <1>2, <1>3 DEF CurrentInv

\* The calls s take the place of the first one.
LEMMA ConcatElements ==
  ASSUME NEW S, NEW r \in Seq(S), NEW s \in Seq(S)
  PROVE  Range(r \o s) = Range(r) \cup Range(s)
<1> DEFINE q == r \o s
<1>1. /\ q \in Seq(S) /\ Len(q) = Len(r) + Len(s) /\ Len(r) \in Nat /\ Len(s) \in Nat
      /\ \A i \in 1 .. Len(r) + Len(s) : q[i] = IF i <= Len(r) THEN r[i] ELSE s[i - Len(r)]
  BY ConcatProperties
<1> HIDE DEF q
<1>2. DOMAIN q = 1 .. Len(r) + Len(s) /\ DOMAIN r = 1 .. Len(r) /\ DOMAIN s = 1 .. Len(s)
  BY <1>1
<1>3. ASSUME NEW i \in DOMAIN q
      PROVE  q[i] \in Range(r) \cup Range(s)
  <2>1. CASE i <= Len(r)
    <3>1. i \in DOMAIN r /\ q[i] = r[i]
      BY <1>1, <1>2, <2>1
    <3> QED
      BY <3>1 DEF Range
  <2>2. CASE ~(i <= Len(r))
    <3>1. i - Len(r) \in DOMAIN s /\ q[i] = s[i - Len(r)]
      BY <1>1, <1>2, <2>2
    <3> QED
      BY <3>1 DEF Range
  <2> QED
    BY <2>1, <2>2
<1>4. ASSUME NEW i \in DOMAIN r
      PROVE  r[i] \in Range(q)
  <2>1. i \in DOMAIN q /\ q[i] = r[i]
    BY <1>1, <1>2
  <2> QED
    BY <2>1 DEF Range
<1>5. ASSUME NEW i \in DOMAIN s
      PROVE  s[i] \in Range(q)
  <2>1. i + Len(r) \in DOMAIN q /\ ~(i + Len(r) <= Len(r)) /\ (i + Len(r)) - Len(r) = i
    BY <1>1, <1>2
  <2>2. q[i + Len(r)] = s[i]
    BY <1>1, <1>2, <2>1
  <2> QED
    BY <2>1, <2>2 DEF Range
<1>6. Range(q) = Range(r) \cup Range(s)
  BY <1>3, <1>4, <1>5 DEF Range
<1> QED
  BY <1>6 DEF q

LEMMA ThenLeft ==
  ASSUME Shape, todo # <<>>, NEW s \in Seq(Labels), Then(s)
  PROVE  Left' = Range(s) \cup LeftToCallers
<1>1. Tail(todo) \in Seq(Labels) /\ LeftToCallers = Range(Tail(todo))
  BY ShapeIs DEF WellFormed
<1>2. Range(s \o Tail(todo)) = Range(s) \cup Range(Tail(todo))
  BY <1>1, ConcatElements
<1> QED
  BY <1>1, <1>2 DEF Then, Left

------------------------------------------------------------------------------
(* Steps that touch no transaction.                                        *)

MoveVars == <<transactions_, type_, state_, armed, at_finished_, m_diag_handler, cur_diag_trans_>>

LEMMA QuietMoves ==
  ASSUME IInv, ~Crashed, MoveInv, LeftToCallers \subseteq Left',
         todo # <<>> => ~Starter(This) /\ This.op \notin {"finish", "result", "SUCCESS", "ERROR"},
         \A l \in Left' : l \in LeftToCallers \/ MoveClaim(l)',
         UNCHANGED <<MoveVars, action_, client_>>
  PROVE  MoveInv'
<1>1. Shape /\ Queued \subseteq Trans
  BY Parts
<1>2. UNCHANGED <<transactions_, type_, state_, armed, at_finished_, m_diag_handler, cur_diag_trans_>>
  BY DEF MoveVars
<1>3. Queued' = Queued /\ \A u, t : Precedes(u, t)' <=> Precedes(u, t)
  BY <1>2, SameOrder
<1>4. Left = LeftToCallers \/ (todo # <<>> /\ Left = {This} \cup LeftToCallers)
  BY <1>1, LeftIs
<1>5. \A l \in Left : Starter(l) \/ l.op \in {"finish", "result", "SUCCESS", "ERROR"} => l \in Left'
  BY <1>4
<1>6. ASSUME NEW t \in Trans
      PROVE  Goes(t) /\ (Begun(t) => Begun(t)')
  BY <1>2, <1>5 DEF Goes, Begun, RunsCommand, Running
<1>7. \A t \in Queued : Begun(t) => t \in Queued' /\ Begun(t)'
  BY <1>1, <1>3, <1>6
<1>8. StartInv'
  BY <1>2, <1>3, <1>5, <1>7, StartKept DEF MoveInv
<1>9. CurrentInv'
  BY <1>1, <1>2, <1>3, <1>7, CurrentKept DEF MoveInv
<1>10. ASSUME NEW l \in LeftToCallers
       PROVE  MoveClaim(l)'
  BY <1>1, <1>3, <1>7, CallersMove
<1> DEFINE X == {}
<1>11. /\ \A t \in Trans \ X : Goes(t)
       /\ \A t \in Trans \cap X : state_'[t] = "EXECUTING" => WillEnd(t)'
       /\ \A t \in X \cap Queued' : state_'[t] \in Results => Says("SUCCESS", t)' \/ Says("ERROR", t)'
       /\ Queued' \subseteq Queued \cup X /\ Queued' \subseteq Trans
  BY <1>1, <1>3, <1>6
<1> HIDE DEF X
<1>12. \A l \in Left' : MoveClaim(l)'
  BY <1>10
<1> QED
  BY <1>8, <1>9, <1>11, <1>12, MoveStep

\* Calls of which little is asked.
PlainCalls(s) == s \in Seq(Labels) /\ \A l \in Range(s) : l.op \in PlainOps

LEMMA PlainNone == PlainCalls(<<>>)
BY DEF PlainCalls, Range

LEMMA PlainOne ==
  ASSUME NEW l \in Labels, l.op \in PlainOps
  PROVE  PlainCalls(<<l>>)
BY OneLabel DEF PlainCalls

LEMMA PlainDo ==
  ASSUME NEW op \in {"begin", "front", "end_dump", "start", "event_mode", "time_assert"}
  PROVE  PlainCalls(<<Do(op)>>)
<1>1. Do(op) \in Labels /\ Do(op).op \in PlainOps
  BY MakeLabel, DoFields DEF DoOps, PlainOps
<1> QED
  BY <1>1, PlainOne

LEMMA PlainNew ==
  ASSUME NEW c \in NewCtx
  PROVE  PlainCalls(<<L("new", NoTrans, c)>>)
<1>1. L("new", NoTrans, c) \in Labels
  BY MakeLabel
<1>2. L("new", NoTrans, c).op \in PlainOps
  BY DEF L, PlainOps
<1> QED
  BY <1>1, <1>2, PlainOne

LEMMA PlainCancel ==
  ASSUME NEW t \in Trans
  PROVE  PlainCalls(<<L("cancel", t, "")>>)
<1>1. L("cancel", t, "") \in Labels
  BY MakeLabel DEF ObjectOps
<1>2. L("cancel", t, "").op \in PlainOps
  BY DEF L, PlainOps
<1> QED
  BY <1>1, <1>2, PlainOne

LEMMA PlainBoth ==
  ASSUME NEW r, NEW s, PlainCalls(r), PlainCalls(s)
  PROVE  PlainCalls(r \o s)
<1>1. r \o s \in Seq(Labels) /\ Range(r \o s) = Range(r) \cup Range(s)
  BY ConcatElements DEF PlainCalls
<1> QED
  BY <1>1 DEF PlainCalls

LEMMA QuietCalls ==
  ASSUME IInv, ~Crashed, MoveInv, todo # <<>>, ~Starter(This),
         This.op \notin {"finish", "result", "SUCCESS", "ERROR"},
         NEW s, PlainCalls(s), Then(s), UNCHANGED <<MoveVars, action_, client_>>
  PROVE  MoveInv'
<1>1. Left' = Range(s) \cup LeftToCallers
  BY Parts, ThenLeft DEF PlainCalls
<1>2. \A l \in Range(s) : MoveClaim(l)'
  BY PlainMoves DEF PlainCalls
<1> QED
  BY <1>1, <1>2, QuietMoves

LEMMA IdleCalls ==
  ASSUME IInv, MoveInv, todo = <<>>, PlainCalls(todo'), UNCHANGED <<MoveVars, action_, client_>>
  PROVE  MoveInv'
<1>1. LeftToCallers = {} /\ ~Crashed
  BY NoneToCallers DEF Crashed
<1>2. \A l \in Left' : MoveClaim(l)'
  BY PlainMoves DEF PlainCalls, Left
<1> QED
  BY <1>1, <1>2, QuietMoves

LEMMA NoStarter ==
  ASSUME Shape, NEW op \in DoOps \ {"begin", "front"}, At({op})
  PROVE  todo # <<>> /\ This.op = op /\ ~Starter(This) /\ This.op \notin {"finish", "result", "SUCCESS", "ERROR"}
<1>1. todo # <<>> /\ This.op = op
  BY DEF At
<1> QED
  BY <1>1 DEF Starter, DoOps, CallOps

LEMMA DoMoves ==
  ASSUME IInv, ~Crashed, MoveInv, EndDump \/ EventMode \/ Start \/ TimeAssert
  PROVE  MoveInv'
<1>1. Shape /\ TimeInv
  BY Parts
<1>2. \E op \in DoOps \ {"begin", "front"} : At({op})
  BY DEF EndDump, EventMode, Start, TimeAssert, DoOps
<1>3. todo # <<>> /\ ~Starter(This) /\ This.op \notin {"finish", "result", "SUCCESS", "ERROR"}
  BY <1>1, <1>2, NoStarter
<1>4. UNCHANGED <<MoveVars, action_, client_>>
  BY DEF EndDump, EventMode, Start, TimeAssert, MoveVars, atVars, queueVars, ownVars, diagVars
<1>5. PlainCalls(<<>>) /\ PlainCalls(<<L("new", NoTrans, "version")>>)
  BY PlainNone, PlainNew DEF NewCtx
<1>6. trans_ts_ # NoTrans => PlainCalls(<<L("cancel", trans_ts_, "")>>)
  BY <1>1, PlainCancel DEF TimeInv
<1>7. \E s : PlainCalls(s) /\ Then(s)
  BY <1>5, <1>6 DEF EndDump, EventMode, Start, TimeAssert
<1> QED
  BY <1>3, <1>4, <1>7, QuietCalls

LEMMA IdleMoves ==
  ASSUME IInv, MoveInv, TickArrives \/ AtReset \/ RequeryModemVer \/ StartQuery \/ ModemEvent, ~Crashed'
  PROVE  MoveInv'
<1>1. todo = <<>>
  BY DEF TickArrives, AtReset, RequeryModemVer, StartQuery, ModemEvent, Event, Idle
<1>2. UNCHANGED <<MoveVars, action_, client_>>
  BY DEF TickArrives, AtReset, RequeryModemVer, StartQuery, ModemEvent, Event, MoveVars, transVars, TimeInfo,
      ModemForgets, atVars, queueVars, ownVars, diagVars
<1>3. todo' \in {<<>>, <<L("new", NoTrans, "requery")>>, <<L("new", NoTrans, "time")>>, <<L("new", NoTrans, "event")>>}
  BY <1>1 DEF TickArrives, AtReset, RequeryModemVer, StartQuery, ModemEvent, transVars, Crash, Crashed
<1>4. PlainCalls(todo')
  BY <1>3, PlainNone, PlainNew DEF NewCtx
<1> QED
  BY <1>1, <1>2, <1>4, IdleCalls

LEMMA AssertMoves ==
  ASSUME IInv, MoveInv, ProcessAssert \/ ProcessAlive \/ ClientLeaves
  PROVE  MoveInv'
<1>1. todo = <<>>
  BY DEF ProcessAssert, ProcessAlive, ClientLeaves, Event, Idle
<1>2. UNCHANGED <<MoveVars, action_, client_>>
  BY DEF ProcessAssert, ProcessAlive, ClientLeaves, Event, MoveVars, atVars, queueVars, ownVars, diagVars
<1>3. /\ PlainCalls(<<>>) /\ PlainCalls(<<Do("end_dump")>>) /\ PlainCalls(<<Do("time_assert")>>)
      /\ PlainCalls(<<L("new", NoTrans, "etb")>>) /\ PlainCalls(<<L("new", NoTrans, "dump")>>)
      /\ PlainCalls(<<L("new", NoTrans, "time")>>) /\ PlainCalls(<<L("new", NoTrans, "version")>>)
  BY PlainNone, PlainDo, PlainNew DEF NewCtx
<1>4. CASE ProcessAssert
  <2>1. PICK b \in {<<>>, <<L("new", NoTrans, "etb")>>} :
          \/ todo' = <<Do("end_dump")>> \o <<Do("time_assert")>>
          \/ todo' = (b \o <<L("new", NoTrans, "dump")>>) \o <<Do("time_assert")>>
    <3>1. PICK evt \in CpEvents, shall_dump \in BOOLEAN :
            todo' = (IF ~shall_dump THEN <<Do("end_dump")>>
                     ELSE (IF evt = "CE_BLOCKED" THEN <<L("new", NoTrans, "etb")>> ELSE <<>>)
                          \o <<L("new", NoTrans, "dump")>>)
                    \o <<Do("time_assert")>>
      BY <1>4 DEF ProcessAssert
    <3>2. CASE ~shall_dump
      BY <3>1, <3>2
    <3>3. CASE shall_dump /\ evt = "CE_BLOCKED"
      BY <3>1, <3>3
    <3>4. CASE shall_dump /\ evt # "CE_BLOCKED"
      BY <3>1, <3>4
    <3> QED
      BY <3>2, <3>3, <3>4
  <2>2. PlainCalls(b \o <<L("new", NoTrans, "dump")>>)
    BY <1>3, PlainBoth
  <2>3. PlainCalls(todo')
    BY <1>3, <2>1, <2>2, PlainBoth
  <2> QED
    BY <1>1, <1>2, <2>3, IdleCalls
<1>5. CASE ProcessAlive
  <2>1. PICK a \in {<<>>, <<L("new", NoTrans, "time")>>}, b \in {<<>>, <<L("new", NoTrans, "version")>>} :
          todo' = a \o b
    BY <1>5 DEF ProcessAlive
  <2>2. PlainCalls(todo')
    BY <1>3, <2>1, PlainBoth
  <2> QED
    BY <1>1, <1>2, <2>2, IdleCalls
<1>6. CASE ClientLeaves
  <2>1. PICK t \in Queued : todo' = <<L("cancel", t, "")>>
    BY <1>6 DEF ClientLeaves
  <2>2. t \in Trans
    BY <1>1, Parts DEF Crashed
  <2>3. PlainCalls(todo')
    BY <2>1, <2>2, PlainCancel
  <2> QED
    BY <1>1, <1>2, <2>3, IdleCalls
<1> QED
  BY <1>4, <1>5, <1>6

LEMMA OnlyFirst ==
  ASSUME transactions_ \in Seq(Trans), Len(transactions_) = 1
  PROVE  First \in Trans /\ Queued = {First}
<1>1. transactions_ # <<>>
  OBVIOUS
<1>2. DOMAIN transactions_ = {1} /\ Head(transactions_) = transactions_[1] /\ transactions_[1] \in Trans
  OBVIOUS
<1>3. First = transactions_[1]
  BY <1>1, <1>2 DEF First
<1> QED
  BY <1>2, <1>3 DEF Queued

\* The version query that is dropped is all there is in the queue.
LEMMA RequestMoves ==
  ASSUME IInv, MoveInv, ClientRequest
  PROVE  MoveInv'
<1>1. todo = <<>>
  BY DEF ClientRequest, Event, Idle
<1>2. UNCHANGED <<MoveVars, action_, client_>>
  BY DEF ClientRequest, Event, MoveVars, atVars, queueVars, ownVars, diagVars
<1>3. ~Crashed /\ LeftToCallers = {} /\ transactions_ \in Seq(Trans)
  BY <1>1, NoneToCallers, Parts DEF Crashed
<1>4. PICK ty \in Requests, d \in {<<>>, <<L("drop", First, "")>>} :
        /\ d # <<>> => Len(transactions_) = 1
        /\ todo' = d \o <<L("new", NoTrans, ty)>>
  BY DEF ClientRequest
<1>5. PlainCalls(<<L("new", NoTrans, ty)>>)
  <2>1. ty \in NewCtx
    BY DEF NewCtx
  <2> QED
    BY <2>1, PlainNew
<1>6. CASE d = <<>>
  <2>1. PlainCalls(todo')
    BY <1>4, <1>5, <1>6, PlainNone, PlainBoth
  <2> QED
    BY <1>1, <1>2, <2>1, IdleCalls
<1>7. CASE d # <<>>
  <2>1. First \in Trans /\ Queued = {First}
    BY <1>3, <1>4, <1>7, OnlyFirst
  <2>2. PICK l : l = L("drop", First, "")
    OBVIOUS
  <2>3. l \in Labels
    BY <2>1, <2>2, MakeLabel DEF ObjectOps
  <2>4. l.op = "drop" /\ l.t = First /\ <<l>> \in Seq(Labels) /\ Range(<<l>>) = {l}
    BY <2>2, <2>3, OneLabel DEF L
  <2>5. Left' = {l} \cup Range(<<L("new", NoTrans, ty)>>)
    <3>1. PICK n, m : n = <<L("new", NoTrans, ty)>> /\ m = <<l>>
      OBVIOUS
    <3>2. todo' = m \o n /\ n \in Seq(Labels) /\ m \in Seq(Labels)
      BY <1>4, <1>5, <1>7, <2>2, <2>4, <3>1 DEF PlainCalls
    <3>3. Range(m \o n) = Range(m) \cup Range(n)
      BY <3>2, ConcatElements
    <3> QED
      BY <2>4, <3>1, <3>2, <3>3 DEF Left
  <2>6. Queued' = {l.t}
    BY <1>2, <2>1, <2>4 DEF Queued, MoveVars
  <2>7. MoveClaim(l)'
    BY <2>4, <2>6 DEF MoveClaim, CallOps
  <2>8. \A m \in Left' : MoveClaim(m)'
    BY <1>5, <2>5, <2>7, PlainMoves DEF PlainCalls
  <2> QED
    BY <1>1, <1>2, <1>3, <2>8, QuietMoves
<1> QED
  BY <1>6, <1>7

------------------------------------------------------------------------------
(* Answers, timers and data: one transaction ends, or waits for less.      *)

LEMMA IdleOneMoves ==
  ASSUME IInv, MoveInv, todo = <<>>, NEW X, UNCHANGED <<transactions_, type_, state_>>,
         \A t \in Trans \ X : Goes(t),
         \A t \in Trans \cap X : state_'[t] = "EXECUTING" => WillEnd(t)',
         PlainCalls(todo'), CurrentInv', StartInv'
  PROVE  MoveInv'
<1>1. Left = {} /\ Queued \subseteq Trans
  BY NoneToCallers, Parts DEF Crashed
<1>2. Queued' = Queued
  BY DEF Queued
<1>3. \A l \in Left' : MoveClaim(l)'
  BY PlainMoves DEF PlainCalls, Left
<1>4. ASSUME NEW t \in X \cap Queued', state_'[t] \in Results
      PROVE  FALSE
  BY <1>1, <1>2, <1>4 DEF MoveInv, EndedInv, Says
<1> QED
  BY <1>1, <1>2, <1>3, <1>4, MoveStep

LEMMA NoLabelGoes ==
  ASSUME Left = {}, NEW t, UNCHANGED <<type_, state_>>, t \in armed => t \in armed',
         t \in at_finished_' <=> t \in at_finished_, m_diag_handler' = t => m_diag_handler = t,
         RunsCommand(t) => RunsCommand(t)'
  PROVE  Goes(t)
BY DEF Goes

LEMMA IdleCurrent ==
  ASSUME MoveInv, Queued \subseteq Trans, UNCHANGED <<transactions_, type_, state_>>,
         NEW t, armed' = armed \ {t}, cur_diag_trans_' \in {cur_diag_trans_, NoTrans}, cur_diag_trans_' # t
  PROVE  CurrentInv'
<1>1. PICK c : c = cur_diag_trans_'
  OBVIOUS
<1>2. Queued' = Queued /\ NoTrans \notin Queued
  BY NoTransIsNone DEF Queued
<1>3. c \in Queued' => Begun(c)'
  <2>1. c \in Queued' => c = cur_diag_trans_ /\ c # t
    BY <1>1, <1>2
  <2> QED
    BY <1>2, <2>1 DEF MoveInv, CurrentInv, Begun
<1> QED
  BY <1>1, <1>3 DEF CurrentInv, Begun

LEMMA IdleEnds ==
  ASSUME IInv, MoveInv, todo = <<>>, NEW t \in Trans, NEW s \in Results, todo' = <<L("finish", t, s)>>,
         UNCHANGED <<transactions_, type_, state_, at_finished_, action_, client_>>, armed' = armed \ {t},
         m_diag_handler' \in {m_diag_handler, NoTrans}, cur_diag_trans_' \in {cur_diag_trans_, NoTrans},
         cur_diag_trans_' # t, type_[t] = "SAVE_EVENT_LOG" => t \in at_finished_
  PROVE  MoveInv'
<1>1. Left = {} /\ Queued \subseteq Trans
  BY NoneToCallers, Parts DEF Crashed
<1>2. PICK l : l = L("finish", t, s)
  OBVIOUS
<1>3. l \in Labels
  BY <1>2, MakeLabel
<1>4. l.op = "finish" /\ l.t = t
  BY <1>2 DEF L
<1>5. PlainCalls(todo') /\ l \in Left'
  BY <1>2, <1>3, <1>4, PlainOne, OneLabel DEF Left, PlainOps
<1>6. StartInv'
  BY <1>4, <1>5, StarterStarts DEF Starter
<1>7. CurrentInv'
  BY <1>1, IdleCurrent
<1> DEFINE X == {t}
<1>8. \A u \in Trans \ X : Goes(u)
  BY <1>1, NoLabelGoes, NoTransIsNone DEF RunsCommand, Running
<1>9. Says("finish", t)'
  BY <1>4, <1>5 DEF Says
<1>10. WillEnd(t)'
  <2>1. type_'[t] = type_[t] /\ at_finished_' = at_finished_
    OBVIOUS
  <2>2. type_'[t] = "SAVE_EVENT_LOG" => t \in at_finished_'
    BY <2>1
  <2> QED
    BY <1>9, <2>2 DEF WillEnd, DiagTypes
<1>11. \A u \in Trans \cap X : state_'[u] = "EXECUTING" => WillEnd(u)'
  BY <1>10
<1> HIDE DEF X
<1> QED
  BY <1>5, <1>6, <1>7, <1>8, <1>11, IdleOneMoves

LEMMA AnswerMoves ==
  ASSUME IInv, MoveInv, Answer \/ AtTimeout
  PROVE  MoveInv'
<1>1. todo = <<>> /\ UNCHANGED <<transactions_, type_, state_, armed, at_finished_, m_diag_handler, cur_diag_trans_>>
  BY DEF Answer, AtTimeout, Idle, queueVars, ownVars, diagVars
<1>2. Left = {} /\ Queued \subseteq Trans /\ OwnInv
  BY <1>1, NoneToCallers, Parts DEF Crashed
<1>3. client_' = client_
  BY DEF Answer, AtTimeout, AnswerArrives, TakeAnswer, CommandTimeout
<1>4. PICK ok \in {"OK", "FAIL"} : todo' = IF Running THEN <<L("result", client_, ok)>> ELSE <<>>
  BY DEF Answer, AtTimeout, ReportResult
<1>5. Queued' = Queued /\ \A t : Begun(t) => Begun(t)'
  BY <1>1, SameOrder DEF Begun
<1>6. CurrentInv'
  BY <1>1, <1>2, <1>5, CurrentKept DEF MoveInv
<1>7. StartInv'
  BY <1>1, <1>2, <1>5, StartKept DEF MoveInv
<1>8. CASE ~Running
  <2>1. \A t \in Trans : Goes(t)
    BY <1>1, <1>2, <1>8, NoLabelGoes DEF RunsCommand
  <2>2. PlainCalls(todo')
    BY <1>4, <1>8, PlainNone
  <2> DEFINE X == {}
  <2>3. (\A t \in Trans \ X : Goes(t)) /\ \A t \in Trans \cap X : state_'[t] = "EXECUTING" => WillEnd(t)'
    BY <2>1
  <2> HIDE DEF X
  <2> QED
    BY <1>1, <1>6, <1>7, <2>2, <2>3, IdleOneMoves
<1>9. CASE Running
  <2>1. PICK c : c = client_
    OBVIOUS
  <2>2. c \in Trans /\ type_[c] \in AtTypes /\ c \notin at_finished_
    BY <1>2, <1>9, <2>1 DEF OwnInv, CommandInv
  <2>3. PICK l : l = L("result", c, ok)
    OBVIOUS
  <2>4. l \in Labels
    BY <2>2, <2>3, MakeLabel
  <2>5. l.op = "result" /\ l.t = c
    BY <2>3 DEF L
  <2>6. PlainCalls(todo') /\ l \in Left'
    BY <1>4, <1>9, <2>1, <2>3, <2>4, <2>5, PlainOne, OneLabel DEF Left, PlainOps
  <2> DEFINE X == {c}
  <2>7. \A t \in Trans \ X : Goes(t)
    BY <1>1, <1>2, <2>1, NoLabelGoes DEF RunsCommand
  <2>8. Says("result", c)'
    BY <2>5, <2>6 DEF Says
  <2>9. WillEnd(c)'
    <3>1. type_'[c] \in AtTypes /\ c \notin at_finished_'
      BY <1>1, <2>2
    <3> QED
      BY <2>8, <3>1 DEF WillEnd, DiagTypes, AtTypes
  <2>10. \A t \in Trans \cap X : state_'[t] = "EXECUTING" => WillEnd(t)'
    BY <2>9
  <2> HIDE DEF X
  <2> QED
    BY <1>1, <1>6, <1>7, <2>6, <2>7, <2>10, IdleOneMoves
<1> QED
  BY <1>8, <1>9

LEMMA EndDiagMoves ==
  ASSUME IInv, MoveInv, todo = <<>>, NEW t \in Trans, type_[t] \in DiagTypes, NEW results \in SUBSET Results,
         EndDiag(t, results), UNCHANGED <<atVars, queueVars, at_finished_>>
  PROVE  MoveInv'
<1>1. PICK s \in Results : todo' = <<L("finish", t, s)>>
  BY DEF EndDiag, Results
<1>2. armed' = armed \ {t} /\ m_diag_handler' \in {m_diag_handler, NoTrans} /\ cur_diag_trans_' = NoTrans
  BY DEF EndDiag, StopDiagTrans, diagVars
<1>3. UNCHANGED <<transactions_, type_, state_, at_finished_, action_, client_>> /\ cur_diag_trans_' # t
  BY <1>2, NoTransIsNone DEF atVars, queueVars
<1>4. type_[t] # "SAVE_EVENT_LOG"
  BY DEF DiagTypes
<1> QED
  BY <1>1, <1>2, <1>3, <1>4, IdleEnds

LEMMA DiagMoves ==
  ASSUME IInv, MoveInv, DiagTimeout \/ DiagData, ~Crashed'
  PROVE  MoveInv'
<1>1. todo = <<>> /\ UNCHANGED <<atVars, queueVars, at_finished_>>
  BY DEF DiagTimeout, DiagData, Idle
<1>2. DeviceTypeOK /\ OwnInv
  BY <1>1, Parts DEF Crashed
<1>3. ~Crash
  BY DEF Crash, Crashed
<1>4. CASE DiagTimeout
  <2>1. PICK t \in armed : type_[t] \in DiagTypes \cup {"FREE"} /\ ~Freed(t) /\ EndDiag(t, {"FAILURE"})
    BY <1>3, <1>4 DEF DiagTimeout
  <2>2. t \in Trans /\ t # NoTrans
    BY <1>2, NoTransIsNone DEF DeviceTypeOK
  <2>3. type_[t] \in DiagTypes /\ {"FAILURE"} \in SUBSET Results
    BY <2>1, <2>2 DEF Freed, Results
  <2> QED
    BY <1>1, <2>1, <2>2, <2>3, EndDiagMoves
<1>5. CASE DiagData
  <2>1. PICK t : t = m_diag_handler
    OBVIOUS
  <2>2. t # NoTrans /\ ~Freed(t)
    BY <1>3, <1>5, <2>1 DEF DiagData
  <2>3. PICK results \in SUBSET Results : EndDiag(t, results)
    <3>1. {"SUCCESS"} \in SUBSET Results /\ {"SUCCESS", "FAILURE"} \in SUBSET Results
      BY DEF Results
    <3> QED
      BY <1>3, <1>5, <2>1, <3>1 DEF DiagData
  <2>4. t \in Trans /\ type_[t] \in DiagTypes
    BY <1>2, <2>1, <2>2 DEF DeviceTypeOK, OwnInv, DiagInv, Freed
  <2> QED
    BY <1>1, <2>3, <2>4, EndDiagMoves
<1> QED
  BY <1>4, <1>5

LEMMA LogTimerMoves ==
  ASSUME IInv, MoveInv, LastLogTimeout \/ EventLogData
  PROVE  MoveInv'
<1>1. todo = <<>> /\ UNCHANGED <<atVars, queueVars, diagVars, at_finished_>>
  BY DEF LastLogTimeout, EventLogData, Idle
<1>2. DeviceTypeOK /\ OwnInv /\ Left = {} /\ Queued \subseteq Trans
  BY <1>1, Parts, NoneToCallers DEF Crashed
<1>3. UNCHANGED <<transactions_, type_, state_, at_finished_, action_, client_, m_diag_handler, cur_diag_trans_>>
  BY <1>1 DEF atVars, queueVars, diagVars
<1>4. PICK t \in armed :
        /\ armed' = armed \ {t}
        /\ \/ type_[t] = "SAVE_MODEM_LAST_LOG" /\ \E s \in Results : todo' = <<L("finish", t, s)>>
           \/ /\ type_[t] = "SAVE_EVENT_LOG" /\ t \in at_finished_
              /\ \E s \in Results : todo' = <<L("finish", t, s)>>
           \/ type_[t] = "SAVE_EVENT_LOG" /\ t \notin at_finished_ /\ todo' = <<>>
  BY <1>1 DEF LastLogTimeout, EventLogData, Results
<1>5. t \in Trans /\ type_[t] \notin DiagTypes \cup {"FREE"} /\ t # NoTrans
  BY <1>2, <1>4, NoTransIsNone DEF DeviceTypeOK, DiagTypes
<1>6. cur_diag_trans_ # t
  BY <1>2, <1>5 DEF OwnInv, DiagInv
<1>7. CASE \E s \in Results : todo' = <<L("finish", t, s)>>
  <2>1. PICK s \in Results : todo' = <<L("finish", t, s)>>
    BY <1>7
  <2>2. type_[t] = "SAVE_EVENT_LOG" => t \in at_finished_
    <3>1. <<L("finish", t, s)>> # <<>>
      OBVIOUS
    <3> QED
      BY <1>4, <2>1, <3>1
  <2> QED
    BY <1>1, <1>3, <1>4, <1>5, <1>6, <2>1, <2>2, IdleEnds
<1>8. CASE ~\E s \in Results : todo' = <<L("finish", t, s)>>
  <2>1. type_[t] = "SAVE_EVENT_LOG" /\ t \notin at_finished_ /\ todo' = <<>>
    BY <1>4, <1>8
  <2>2. CurrentInv'
    BY <1>2, <1>3, <1>4, <1>6, IdleCurrent
  <2>3. state_[t] # "NOT_BEGIN"
    BY <1>2, <1>5, <2>1 DEF OwnInv, UnbegunInv
  <2>4. Queued' = Queued /\ \A u \in Queued : Begun(u) => Begun(u)'
    BY <1>3, <1>4, <2>3, SameOrder DEF Begun
  <2>5. StartInv'
    BY <1>2, <1>3, <2>4, StartKept DEF MoveInv
  <2> DEFINE X == {t}
  <2>6. \A u \in Trans \ X : Goes(u)
    BY <1>2, <1>3, <1>4, NoLabelGoes DEF RunsCommand, Running
  <2>7. state_'[t] = "EXECUTING" => WillEnd(t)'
    <3>1. state_[t] = "EXECUTING" => WillEnd(t)
      BY <1>5 DEF MoveInv, ExecuteInv
    <3>2. WillEnd(t) => RunsCommand(t)
      BY <1>2, <2>1 DEF WillEnd, DiagTypes, Says
    <3>3. RunsCommand(t) => RunsCommand(t)'
      BY <1>3 DEF RunsCommand, Running
    <3>4. type_'[t] = "SAVE_EVENT_LOG" /\ t \notin at_finished_'
      BY <1>3, <2>1
    <3>5. RunsCommand(t)' => WillEnd(t)'
      BY <3>4 DEF WillEnd, DiagTypes
    <3> QED
      BY <1>3, <3>1, <3>2, <3>3, <3>5
  <2>8. \A u \in Trans \cap X : state_'[u] = "EXECUTING" => WillEnd(u)'
    BY <2>7
  <2>9. PlainCalls(todo')
    BY <2>1, PlainNone
  <2> HIDE DEF X
  <2> QED
    BY <1>1, <1>3, <2>2, <2>5, <2>6, <2>8, <2>9, IdleOneMoves
<1> QED
  BY <1>7, <1>8
------------------------------------------------------------------------------
(* Results of commands.                                                    *)

LEMMA CommandResultMoves ==
  ASSUME IInv, ~Crashed, MoveInv, CommandResult
  PROVE  MoveInv'
<1>1. Shape /\ Claims /\ OwnInv /\ Queued \subseteq Trans
  BY Parts
<1>2. At({"result"})
  BY DEF CommandResult
<1>3. todo # <<>> /\ This.op = "result" /\ Claim(This) /\ This.t \in Trans /\ This.ctx \in {"OK", "FAIL"}
  BY <1>1, <1>2, ThisClaim, ThisObject
<1>4. PICK t : t = This.t
  OBVIOUS
<1>5. t \in Trans /\ state_[t] = "EXECUTING" /\ type_[t] \in AtTypes /\ type_[t] # "SAVE_EVENT_LOG"
  BY <1>3, <1>4 DEF Claim, CommandResult
<1>6. UNCHANGED <<transactions_, type_, state_, action_, client_, armed, at_finished_, m_diag_handler, cur_diag_trans_>>
  BY DEF CommandResult, atVars, queueVars, ownVars, diagVars
<1>7. LeftToCallers = {} /\ Left = {This}
  <2>1. Rests(This) = {<<>>}
    BY <1>3, RestsNone
  <2>2. LeftToCallers = {}
    BY <1>1, <1>3, <2>1, ThisLast
  <2> QED
    BY <1>1, <1>3, <2>2, ShapeIs
<1>8. PICK f : f = L("finish", t, ResultOf(This.ctx))
  OBVIOUS
<1>9. f \in Labels /\ f.op = "finish" /\ f.t = t
  <2>1. ResultOf(This.ctx) \in Results
    BY DEF ResultOf, Results
  <2>2. f \in Labels
    BY <1>5, <1>8, <2>1, MakeLabel
  <2> QED
    BY <1>8, <2>2 DEF L
<1>10. PICK d : d = Consequence(type_[t])
  OBVIOUS
<1>11. d \in Seq(Labels) /\ \A l \in Range(d) : l.op \in PlainOps \cup {"stop"}
  <2>1. PICK e, b, a : e = Do("event_mode") /\ b = Do("stop") /\ a = Do("start")
    OBVIOUS
  <2>2. e \in Labels /\ b \in Labels /\ a \in Labels
    BY <2>1, MakeLabel DEF DoOps
  <2>3. {e.op, b.op, a.op} \subseteq PlainOps \cup {"stop"}
    BY <2>1, DoFields DEF PlainOps
  <2>4. d = <<>> \/ d = <<b>> \/ d = <<a>> \/ d = <<b>> \o <<e>> \/ d = <<>> \o <<e>>
    BY <1>10, <2>1 DEF Consequence
  <2>5. <<b>> \o <<e>> = <<b, e>> /\ <<>> \o <<e>> = <<e>>
    <3>1. <<e>> \in Seq(Labels)
      BY <2>2, OneLabel
    <3> QED
      BY <2>2, <3>1, OneAndOne, NoMoreLabels
  <2>6. d = <<>> \/ d = <<b>> \/ d = <<a>> \/ d = <<b, e>> \/ d = <<e>>
    BY <2>4, <2>5
  <2>7. /\ <<>> \in Seq(Labels) /\ Range(<<>>) = {}
        /\ \A k \in {e, b, a} : <<k>> \in Seq(Labels) /\ Range(<<k>>) = {k}
    BY <2>2, OneLabel
  <2>9. <<b, e>> \in Seq(Labels) /\ Range(<<b, e>>) = {b, e}
    BY <2>2, TwoLabels
  <2>8. d \in Seq(Labels) /\ Range(d) \subseteq {e, b, a}
    BY <2>6, <2>7, <2>9
  <2> QED
    BY <2>3, <2>8
<1>12. Left' = {f} \/ Left' = Range(d) \cup {f}
  <2>1. Then(<<>> \o <<f>>) \/ Then(d \o <<f>>)
    BY <1>4, <1>5, <1>8, <1>10 DEF CommandResult
  <2>2. <<>> \in Seq(Labels) /\ Range(<<>>) = {} /\ <<f>> \in Seq(Labels) /\ Range(<<f>>) = {f}
    BY <1>9, OneLabel
  <2>3. <<>> \o <<f>> \in Seq(Labels) /\ Range(<<>> \o <<f>>) = {f}
    BY <2>2, NoMoreLabels
  <2>4. PICK g : g = <<f>>
    OBVIOUS
  <2>5. d \o g \in Seq(Labels) /\ Range(d \o g) = Range(d) \cup {f}
    <3>1. g \in Seq(Labels) /\ Range(g) = {f}
      BY <2>2, <2>4
    <3>2. Range(d \o g) = Range(d) \cup Range(g)
      BY <1>11, <3>1, ConcatElements
    <3> QED
      BY <1>11, <3>1, <3>2
  <2>6. CASE Then(<<>> \o <<f>>)
    <3>1. Left' = Range(<<>> \o <<f>>) \cup LeftToCallers
      BY <1>1, <1>3, <2>3, <2>6, ThenLeft
    <3> QED
      BY <1>7, <2>3, <3>1
  <2>7. CASE Then(d \o <<f>>)
    <3>1. Left' = Range(d \o g) \cup LeftToCallers
      BY <1>1, <1>3, <2>4, <2>5, <2>7, ThenLeft
    <3> QED
      BY <1>7, <2>5, <3>1
  <2> QED
    BY <2>1, <2>6, <2>7
<1>13. f \in Left' /\ \A l \in Left' : l.op \in PlainOps \cup {"stop"}
  BY <1>9, <1>11, <1>12 DEF PlainOps
<1>14. WillStart' /\ StartInv'
  BY <1>9, <1>13, StarterStarts DEF Starter
<1>15. Queued' = Queued /\ \A u : Begun(u) => Begun(u)'
  BY <1>6, SameOrder DEF Begun
<1>16. CurrentInv'
  BY <1>1, <1>6, <1>15, CurrentKept DEF MoveInv
<1>17. ASSUME NEW l \in Left'
       PROVE  MoveClaim(l)'
  <2>1. CASE l.op \in PlainOps
    BY <2>1, PlainMoves
  <2>2. CASE l.op = "stop"
    BY <1>14, <2>2 DEF MoveClaim, CallOps
  <2> QED
    BY <1>13, <2>1, <2>2
<1> DEFINE X == {t}
<1>18. ASSUME NEW u \in Trans \ X
       PROVE  Goes(u)
  BY <1>4, <1>6, <1>7 DEF Goes, RunsCommand, Running
<1>19. WillEnd(t)'
  <2>1. Says("finish", t)'
    BY <1>9, <1>13 DEF Says
  <2>2. type_'[t] \in AtTypes /\ type_'[t] # "SAVE_EVENT_LOG"
    BY <1>5, <1>6
  <2> QED
    BY <2>1, <2>2 DEF WillEnd, DiagTypes, AtTypes
<1>20. \A u \in Trans \cap X : state_'[u] = "EXECUTING" => WillEnd(u)'
  BY <1>19
<1>21. \A u \in X \cap Queued' : state_'[u] \in Results => Says("SUCCESS", u)' \/ Says("ERROR", u)'
  BY <1>5, <1>6 DEF Results
<1> HIDE DEF X
<1> QED
  BY <1>1, <1>14, <1>15, <1>16, <1>17, <1>18, <1>20, <1>21, MoveStep

LEMMA ExportResultMoves ==
  ASSUME IInv, ~Crashed, MoveInv, ExportResult
  PROVE  MoveInv'
<1>1. Shape /\ Claims /\ OwnInv /\ Queued \subseteq Trans
  BY Parts
<1>2. At({"result"})
  BY DEF ExportResult
<1>3. todo # <<>> /\ This.op = "result" /\ Claim(This) /\ This.t \in Trans
  BY <1>1, <1>2, ThisClaim, ThisObject
<1>4. PICK t : t = This.t
  OBVIOUS
<1>5. t \in Trans /\ state_[t] = "EXECUTING" /\ type_[t] = "SAVE_EVENT_LOG"
  BY <1>3, <1>4 DEF Claim, ExportResult
<1>6. /\ UNCHANGED <<transactions_, type_, state_, action_, client_, armed, m_diag_handler, cur_diag_trans_>>
      /\ at_finished_' = at_finished_ \cup {t}
  BY <1>4 DEF ExportResult, atVars, queueVars, diagVars
<1>7. LeftToCallers = {} /\ Left = {This}
  <2>1. Rests(This) = {<<>>}
    BY <1>3, RestsNone
  <2>2. LeftToCallers = {}
    BY <1>1, <1>3, <2>1, ThisLast
  <2> QED
    BY <1>1, <1>3, <2>2, ShapeIs
<1>8. (t \in armed /\ Then(<<>>)) \/ \E s \in Results : Then(<<L("finish", t, s)>>)
  BY <1>4 DEF ExportResult, Results
<1>9. (t \in armed /\ Left' = {}) \/ \E f \in Labels : f.op = "finish" /\ f.t = t /\ Left' = {f}
  <2>1. CASE t \in armed /\ Then(<<>>)
    BY <1>1, <1>3, <1>7, <2>1, Pop
  <2>2. CASE \E s \in Results : Then(<<L("finish", t, s)>>)
    <3>1. PICK s \in Results : Then(<<L("finish", t, s)>>)
      BY <2>2
    <3>2. PICK f : f = L("finish", t, s)
      OBVIOUS
    <3>3. f \in Labels
      BY <1>5, <3>2, MakeLabel
    <3>4. f.op = "finish" /\ f.t = t /\ <<f>> \in Seq(Labels) /\ Range(<<f>>) = {f}
      BY <3>2, <3>3, OneLabel DEF L
    <3>5. Left' = Range(<<f>>) \cup LeftToCallers
      BY <1>1, <1>3, <3>1, <3>2, <3>4, ThenLeft
    <3> QED
      BY <1>7, <3>3, <3>4, <3>5
  <2> QED
    BY <1>8, <2>1, <2>2
<1>10. \A l \in Left' : MoveClaim(l)'
  BY <1>9, PlainMoves DEF PlainOps
<1>11. Queued' = Queued /\ \A u : Begun(u) => Begun(u)'
  BY <1>6, SameOrder DEF Begun
<1>12. CurrentInv'
  BY <1>1, <1>6, <1>11, CurrentKept DEF MoveInv
<1>13. StartInv'
  <2>1. CASE Left' = {}
    <3>1. \A l \in Left : ~Starter(l)
      BY <1>3, <1>7 DEF Starter, CallOps
    <3> QED
      BY <1>6, <1>11, <3>1, StartKept DEF MoveInv
  <2>2. CASE \E f \in Left' : f.op = "finish"
    BY <2>2, StarterStarts DEF Starter
  <2> QED
    BY <1>9, <2>1, <2>2
<1> DEFINE X == {t}
<1>14. ASSUME NEW u \in Trans \ X
       PROVE  Goes(u)
  BY <1>4, <1>6, <1>7 DEF Goes, RunsCommand, Running
<1>15. WillEnd(t)'
  <2>1. t \in armed' \/ Says("finish", t)'
    BY <1>6, <1>9 DEF Says
  <2>2. type_'[t] = "SAVE_EVENT_LOG" /\ t \in at_finished_'
    BY <1>5, <1>6
  <2> QED
    BY <2>1, <2>2 DEF WillEnd, DiagTypes
<1>16. \A u \in Trans \cap X : state_'[u] = "EXECUTING" => WillEnd(u)'
  BY <1>15
<1>17. \A u \in X \cap Queued' : state_'[u] \in Results => Says("SUCCESS", u)' \/ Says("ERROR", u)'
  BY <1>5, <1>6 DEF Results
<1> HIDE DEF X
<1> QED
  BY <1>1, <1>10, <1>11, <1>12, <1>13, <1>14, <1>16, <1>17, MoveStep
------------------------------------------------------------------------------
(* A new transaction, and one that is deleted outside the queue.           *)

LEMMA OrderAfterAppend ==
  ASSUME transactions_ \in Seq(Trans), NEW t \in Trans, transactions_' = Append(transactions_, t),
         NEW u, NEW v, v # t, Precedes(u, v)'
  PROVE  Precedes(u, v)
<1>1. PICK i \in DOMAIN transactions_', j \in DOMAIN transactions_' :
        i < j /\ transactions_'[i] = u /\ transactions_'[j] = v
  BY DEF Precedes
<1>2. /\ DOMAIN transactions_' = 1 .. Len(transactions_) + 1 /\ DOMAIN transactions_ = 1 .. Len(transactions_)
      /\ Len(transactions_) \in Nat
      /\ transactions_'[Len(transactions_) + 1] = t
      /\ \A k \in 1 .. Len(transactions_) : transactions_'[k] = transactions_[k]
  OBVIOUS
<1>3. i \in DOMAIN transactions_ /\ j \in DOMAIN transactions_
  BY <1>1, <1>2
<1> QED
  BY <1>1, <1>2, <1>3 DEF Precedes

LEMMA AppendedIs ==
  ASSUME transactions_ \in Seq(Trans), NEW t \in Trans, transactions_' = Append(transactions_, t)
  PROVE  Queued' = Queued \cup {t}
<1>1. /\ DOMAIN transactions_' = 1 .. Len(transactions_) + 1 /\ DOMAIN transactions_ = 1 .. Len(transactions_)
      /\ Len(transactions_) \in Nat
      /\ transactions_'[Len(transactions_) + 1] = t
      /\ \A k \in 1 .. Len(transactions_) : transactions_'[k] = transactions_[k]
  OBVIOUS
<1> QED
  BY <1>1 DEF Queued

LEMMA NewTransMay ==
  ASSUME Shape, NewTrans
  PROVE  \E t \in Unused :
           /\ This.ctx \in NewCtx /\ todo # <<>> /\ This.op = "new"
           /\ type_' = [type_ EXCEPT ![t] = TypeFor(This.ctx)]
           /\ \/ /\ MayRunNow(TypeFor(This.ctx))
                 /\ Then(<<L("execute", t, This.ctx)>>) /\ transactions_' = transactions_
              \/ /\ ~MayRunNow(TypeFor(This.ctx))
                 /\ Then(<<L("queued", t, This.ctx)>>) /\ transactions_' = Append(transactions_, t)
<1>1. At({"new"})
  BY DEF NewTrans
<1>2. todo # <<>> /\ This.op = "new" /\ This.ctx \in NewCtx
  <2>1. todo # <<>> /\ This.op = "new" /\ This \in Labels
    BY <1>1, ThisObject
  <2> QED
    BY <2>1, LabelIs
<1>3. (CHOOSE x \in Unused : TRUE) \in Unused
  BY DEF NewTrans
<1> QED
  BY <1>2, <1>3 DEF NewTrans

\* It runs when nothing is queued, or waits for something that has begun or
\* will start.
LEMMA NewTransMoves ==
  ASSUME IInv, ~Crashed, MoveInv, NewTrans
  PROVE  MoveInv'
<1>1. /\ Shape /\ Claims /\ ObjectsInv /\ OwnInv /\ QueueTypeOK /\ Queued \subseteq Trans
      /\ transactions_ \in Seq(Trans)
  BY Parts
<1>2. PICK t \in Unused :
        /\ This.ctx \in NewCtx /\ todo # <<>> /\ This.op = "new"
        /\ type_' = [type_ EXCEPT ![t] = TypeFor(This.ctx)]
        /\ \/ /\ MayRunNow(TypeFor(This.ctx))
              /\ Then(<<L("execute", t, This.ctx)>>) /\ transactions_' = transactions_
           \/ /\ ~MayRunNow(TypeFor(This.ctx))
              /\ Then(<<L("queued", t, This.ctx)>>) /\ transactions_' = Append(transactions_, t)
  BY <1>1, NewTransMay
<1>3. t \in Trans /\ type_[t] = "FREE" /\ t # cur_diag_trans_
  BY UnusedIs
<1>4. UNCHANGED <<state_, armed, at_finished_, m_diag_handler, cur_diag_trans_, action_, client_>>
  BY DEF NewTrans, atVars, ownVars, diagVars
<1>5. type_'[t] = TypeFor(This.ctx) /\ \A u \in Trans \ {t} : type_'[u] = type_[u]
  BY <1>1, <1>2, <1>3 DEF QueueTypeOK
<1>6. state_'[t] = "NOT_BEGIN"
  BY <1>1, <1>3, <1>4 DEF OwnInv, UnbegunInv
<1>7. Queued' = Queued \/ Queued' = Queued \cup {t}
  BY <1>1, <1>2, <1>3, AppendedIs, SameOrder
<1>8. PICK op \in {"execute", "queued"} :
        /\ Then(<<L(op, t, This.ctx)>>)
        /\ op = "execute" => MayRunNow(TypeFor(This.ctx)) /\ transactions_' = transactions_
        /\ op = "queued" => ~MayRunNow(TypeFor(This.ctx))
  BY <1>2
<1>9. PICK l : l = L(op, t, This.ctx)
  OBVIOUS
<1>10. l \in Labels
  BY <1>2, <1>3, <1>9, MakeLabel DEF CallOps
<1>11. l.op = op /\ l.t = t /\ l.ctx \in NewCtx /\ <<l>> \in Seq(Labels) /\ Range(<<l>>) = {l}
  BY <1>2, <1>9, <1>10, OneLabel DEF L
<1>12. Left' = {l} \cup LeftToCallers
  <2>1. Then(<<l>>)
    BY <1>8, <1>9
  <2> QED
    BY <1>1, <1>2, <1>11, <2>1, ThenLeft
<1>13. Left = {This} \cup LeftToCallers /\ ~Starter(This)
  BY <1>1, <1>2, ShapeIs DEF Starter, CallOps
<1>14. ASSUME NEW m \in LeftToCallers
       PROVE  m.t # t
  BY <1>1, <1>2, <1>3, CallersAway
<1>15. \A u : Begun(u) => Begun(u)'
  BY <1>4 DEF Begun
<1>16. MoveClaim(l)'
  <2>1. op = "execute" => IF type_'[t] \in {"VERSION_QUERY", "SAVE_SLEEP_LOG"}
                          THEN cur_diag_trans_' = NoTrans
                          ELSE transactions_' = <<>>
    BY <1>4, <1>5, <1>8 DEF MayRunNow
  <2>2. l.ctx # "loop" /\ l.op \notin {"STARTED", "drop", "stop", "loop"}
    BY <1>11, QueueCtxApart DEF QueueCtx
  <2> QED
    BY <1>11, <2>1, <2>2 DEF MoveClaim, MayRunNow
<1>17. ASSUME NEW m \in LeftToCallers
       PROVE  MoveClaim(m)'
  <2>1. m.t # t
    BY <1>14
  <2>2. \A u : Precedes(u, m.t)' => Precedes(u, m.t)
    BY <1>1, <1>2, <1>3, <2>1, OrderAfterAppend, SameOrder
  <2>3. \A u : Precedes(u, m.t) => u \in Queued
    BY PrecedesIs
  <2> QED
    BY <1>1, <1>15, <2>2, <2>3, CallersMove
<1>18. CurrentInv'
  BY <1>1, <1>3, <1>4, <1>7, <1>15, CurrentKept DEF MoveInv
<1>19. StartInv'
  <2>1. cur_diag_trans_ # NoTrans /\ cur_diag_trans_ \notin Queued =>
          cur_diag_trans_' # NoTrans /\ cur_diag_trans_' \notin Queued'
    BY <1>3, <1>4, <1>7
  <2>2. CASE Queued # {} \/ Queued' = Queued
    BY <1>7, <1>12, <1>13, <1>15, <2>1, <2>2, StartKept DEF MoveInv
  <2>3. CASE Queued = {} /\ Queued' # Queued
    <3>1. op = "queued"
      BY <1>8, <2>3, SameOrder
    <3>2. transactions_ = <<>>
      BY <1>1, <2>3 DEF Queued
    <3>3. cur_diag_trans_ # NoTrans
      BY <1>8, <3>1, <3>2 DEF MayRunNow
    <3> QED
      BY <2>1, <2>3, <3>3 DEF StartInv
  <2> QED
    BY <2>2, <2>3
<1> DEFINE X == {t}
<1>20. ASSUME NEW u \in Trans \ X
       PROVE  Goes(u)
  BY <1>2, <1>4, <1>5, <1>12, <1>13 DEF Goes, RunsCommand, Running
<1>21. \A u \in Trans \cap X : state_'[u] # "EXECUTING" /\ state_'[u] \notin Results
  BY <1>6 DEF Results
<1>22. Queued' \subseteq Queued \cup X /\ Queued' \subseteq Trans
  BY <1>1, <1>3, <1>7
<1>23. \A m \in Left' : MoveClaim(m)'
  BY <1>12, <1>16, <1>17
<1> HIDE DEF X
<1> QED
  BY <1>18, <1>19, <1>20, <1>21, <1>22, <1>23, MoveStep

LEMMA NewBegunMoves ==
  ASSUME IInv, ~Crashed, MoveInv, NewBegun
  PROVE  MoveInv'
<1>1. /\ Shape /\ Claims /\ ObjectsInv /\ OwnInv /\ QueueTypeOK /\ Queued \subseteq Trans
      /\ transactions_ \in Seq(Trans)
  BY Parts
<1>2. At({"queued", "STARTED"}) /\ This.ctx \notin {"loop", "canceled"}
  BY DEF NewBegun
<1>3. /\ todo # <<>> /\ This.op \in {"queued", "STARTED"} /\ This.t \in Trans /\ This.ctx \in NewCtx
      /\ This.op = "STARTED" => This.t \notin Queued
  <2>1. {"queued", "STARTED"} \in SUBSET CallOps
    BY DEF CallOps
  <2> QED
    BY <1>1, <1>2, <2>1, ThisNew
<1>4. PICK t : t = This.t
  OBVIOUS
<1>5. UNCHANGED <<type_, state_, armed, at_finished_, m_diag_handler, cur_diag_trans_, action_, client_>>
  BY DEF NewBegun, atVars, ownVars, diagVars
<1>6. \/ This.op = "STARTED" /\ transactions_' = Append(transactions_, t)
      \/ This.op = "queued" /\ transactions_' = transactions_
  BY <1>3, <1>4 DEF NewBegun
<1>7. PICK s \in {<<>>, <<Do("end_dump")>>} : Then(s)
  BY DEF NewBegun
<1>8. PlainCalls(s)
  BY PlainNone, PlainDo
<1>9. Left' = Range(s) \cup LeftToCallers
  BY <1>1, <1>3, <1>7, <1>8, ThenLeft DEF PlainCalls
<1>10. Left = {This} \cup LeftToCallers /\ ~Starter(This)
  BY <1>1, <1>3, ShapeIs, QueueCtxApart DEF Starter, CallOps
<1>11. This.op = "STARTED" => Begun(t) /\ state_[t] \notin Results /\ t \notin Queued
  BY <1>3, <1>4, <1>10 DEF MoveInv, MoveClaim
<1>12. \A u : Begun(u) => Begun(u)'
  BY <1>5 DEF Begun
<1>13. /\ This.op = "STARTED" => Queued' = Queued \cup {t}
       /\ This.op = "queued" => Queued' = Queued
  BY <1>1, <1>3, <1>4, <1>6, AppendedIs, SameOrder
<1>14. ASSUME NEW m \in LeftToCallers
       PROVE  MoveClaim(m)'
  <2>1. This.op = "STARTED" => m.t # t
    BY <1>1, <1>3, <1>4, CallersAway
  <2>2. \A u : Precedes(u, m.t)' => Precedes(u, m.t)
    BY <1>1, <1>3, <1>4, <1>6, <2>1, OrderAfterAppend, SameOrder
  <2>3. \A u : Precedes(u, m.t) => u \in Queued
    BY PrecedesIs
  <2> QED
    BY <1>1, <1>12, <2>2, <2>3, CallersMove
<1>15. \A m \in Left' : MoveClaim(m)'
  BY <1>8, <1>9, <1>14, PlainMoves DEF PlainCalls
<1>16. CurrentInv'
  <2>1. CASE cur_diag_trans_ = t /\ This.op = "STARTED"
    <3>1. Begun(t)'
      BY <1>11, <1>12, <2>1
    <3> QED
      BY <1>5, <2>1, <3>1 DEF CurrentInv, Begun
  <2>2. CASE ~(cur_diag_trans_ = t /\ This.op = "STARTED")
    <3>1. \A u \in Queued' : u = cur_diag_trans_ => u \in Queued /\ (Begun(u) => Begun(u)')
      BY <1>3, <1>12, <1>13, <2>2
    <3>2. Queued' \subseteq Trans
      BY <1>1, <1>3, <1>4, <1>13
    <3> QED
      BY <1>5, <3>1, <3>2, CurrentKept DEF MoveInv
  <2> QED
    BY <2>1, <2>2
<1>17. StartInv'
  <2>1. CASE This.op = "STARTED"
    BY <1>11, <1>12, <1>13, <2>1 DEF StartInv
  <2>2. CASE This.op = "queued"
    BY <1>5, <1>9, <1>10, <1>12, <1>13, <2>2, StartKept DEF MoveInv
  <2> QED
    BY <1>3, <2>1, <2>2
<1> DEFINE X == IF This.op = "STARTED" THEN {t} ELSE {}
<1>18. ASSUME NEW u \in Trans
       PROVE  Goes(u)
  BY <1>3, <1>5, <1>9, <1>10 DEF Goes, RunsCommand, Running
<1>19. ASSUME NEW u \in Trans \cap X, state_'[u] = "EXECUTING"
       PROVE  WillEnd(u)'
  <2>1. WillEnd(u)
    BY <1>5, <1>19 DEF MoveInv, ExecuteInv
  <2> QED
    BY <1>18, <2>1, GoesOn
<1>20. \A u \in X : state_'[u] \notin Results
  BY <1>5, <1>11
<1>21. Queued' \subseteq Queued \cup X /\ Queued' \subseteq Trans
  BY <1>1, <1>3, <1>4, <1>13
<1> HIDE DEF X
<1> QED
  BY <1>15, <1>16, <1>17, <1>18, <1>19, <1>20, <1>21, MoveStep

\* An object that is not in the queue is deleted.
LEMMA DeletedMoves ==
  ASSUME IInv, ~Crashed, MoveInv, todo # <<>>, ~Starter(This), NEW t \in Trans, t \notin Queued, Free(t),
         This.t = t, NEW s, PlainCalls(s), Then(s),
         UNCHANGED <<transactions_, armed, m_diag_handler, cur_diag_trans_, action_, client_>>
  PROVE  MoveInv'
<1>1. Shape /\ Queued \subseteq Trans /\ QueueTypeOK
  BY Parts
<1>2. Left' = Range(s) \cup LeftToCallers /\ Left = {This} \cup LeftToCallers
  BY <1>1, ThenLeft, ShapeIs DEF PlainCalls
<1>3. Queued' = Queued /\ \A u, v : Precedes(u, v)' <=> Precedes(u, v)
  BY SameOrder
<1>4. /\ state_'[t] = "NOT_BEGIN" /\ at_finished_' = at_finished_ \ {t}
      /\ \A u \in Trans \ {t} : type_'[u] = type_[u] /\ state_'[u] = state_[u]
  BY <1>1, FreeIs DEF Free
<1>5. \A u \in Queued : Begun(u) => Begun(u)'
  BY <1>1, <1>4 DEF Begun
<1>6. \A m \in Left' : MoveClaim(m)'
  <2>1. ASSUME NEW m \in LeftToCallers
        PROVE  MoveClaim(m)'
    BY <1>1, <1>3, <1>5, CallersMove
  <2> QED
    BY <1>2, <2>1, PlainMoves DEF PlainCalls
<1>7. CurrentInv'
  BY <1>1, <1>3, <1>5, CurrentKept DEF MoveInv
<1>8. StartInv'
  BY <1>2, <1>3, <1>5, StartKept DEF MoveInv
<1> DEFINE X == {t}
<1>9. ASSUME NEW u \in Trans \ X
      PROVE  Goes(u)
  BY <1>2, <1>4 DEF Goes, RunsCommand, Running
<1>10. \A u \in X : state_'[u] # "EXECUTING" /\ state_'[u] \notin Results
  BY <1>4 DEF Results
<1>11. Queued' \subseteq Queued \cup X /\ Queued' \subseteq Trans
  BY <1>1, <1>3
<1> HIDE DEF X
<1> QED
  BY <1>6, <1>7, <1>8, <1>9, <1>10, <1>11, MoveStep

LEMMA NewEndedMoves ==
  ASSUME IInv, ~Crashed, MoveInv, NewEnded
  PROVE  MoveInv'
<1>1. Shape /\ Claims /\ QueueTypeOK
  BY Parts
<1>2. At({"SUCCESS", "ERROR"}) /\ This.ctx \notin {"loop", "canceled"}
  BY DEF NewEnded
<1>3. todo # <<>> /\ This.op \in {"SUCCESS", "ERROR"} /\ This.t \in Trans /\ This.ctx \in NewCtx /\ This.t \notin Queued
  <2>1. {"SUCCESS", "ERROR"} \in SUBSET CallOps
    BY DEF CallOps
  <2> QED
    BY <1>1, <1>2, <2>1, ThisNew
<1>4. PICK s \in {<<>>, <<Do("end_dump")>>} : Then(s)
  BY DEF NewEnded
<1>5. PlainCalls(s)
  BY PlainNone, PlainDo
<1>6. ~Starter(This)
  BY <1>3, QueueCtxApart DEF Starter
<1>7. PICK t : t = This.t
  OBVIOUS
<1>8. /\ t \in Trans /\ t \notin Queued /\ Free(t)
      /\ UNCHANGED <<transactions_, armed, m_diag_handler, cur_diag_trans_, action_, client_>>
  BY <1>3, <1>7 DEF NewEnded, atVars, diagVars
<1> QED
  BY <1>3, <1>4, <1>5, <1>6, <1>7, <1>8, DeletedMoves

LEMMA NotifyMoves ==
  ASSUME IInv, ~Crashed, MoveInv, Notify
  PROVE  MoveInv'
<1>1. Shape /\ Claims
  BY Parts
<1>2. At({"notify"})
  BY DEF Notify
<1>3. todo # <<>> /\ This.op = "notify" /\ Claim(This)
  BY <1>1, <1>2, ThisClaim
<1>4. PICK t : t = This.t
  OBVIOUS
<1>5. t \in Trans
  BY <1>1, <1>2, <1>4, ThisObject DEF ObjectOps
<1>6. t \notin Queued
  BY <1>3, <1>4 DEF Claim, Detached
<1>7. ~Starter(This)
  BY <1>3 DEF Starter, CallOps
<1>8. PICK a \in {<<>>, <<L("new", NoTrans, "time")>>}, b \in {<<>>, <<Do("end_dump")>>} : Then(a \o b)
  BY DEF Notify
<1>9. PlainCalls(a \o b)
  <2>1. PlainCalls(a) /\ PlainCalls(b)
    BY PlainNone, PlainDo, PlainNew DEF NewCtx
  <2> QED
    BY <2>1, PlainBoth
<1>10. Free(t) /\ UNCHANGED <<transactions_, armed, m_diag_handler, cur_diag_trans_, action_, client_>>
  BY <1>4 DEF Notify, atVars, diagVars
<1>11. PICK s : s = a \o b
  OBVIOUS
<1>12. PlainCalls(s) /\ Then(s)
  BY <1>8, <1>9, <1>11
<1> QED
  BY <1>3, <1>4, <1>5, <1>6, <1>7, <1>10, <1>12, DeletedMoves
------------------------------------------------------------------------------
(* A transaction is executed.                                              *)

LEMMA ExecuteMoves ==
  ASSUME IInv, ~Crashed, MoveInv, At({"execute"}), NEW t, t = This.t,
         NEW op \in {"STARTED", "SUCCESS", "ERROR"}, NEW l, l = L(op, t, This.ctx),
         NEW N, Left' = N \cup {l} \cup LeftToCallers,
         \A k \in N : k.op \in PlainOps \/ (k.op = "stop" /\ type_[t] = "STOP_LOG"),
         UNCHANGED <<transactions_, type_, at_finished_>>,
         NEW s, SetState(t, s), s \in Results => op # "STARTED",
         s = "EXECUTING" => WillEnd(t)', op = "STARTED" => Begun(t)',
         armed \subseteq armed', armed' \subseteq armed \cup {t},
         m_diag_handler' \in {m_diag_handler, t}, cur_diag_trans_' \in {cur_diag_trans_, t, NoTrans},
         cur_diag_trans_' = t => Begun(t)' \/ cur_diag_trans_ = t,
         UNCHANGED <<action_, client_>> \/ (~Running /\ client_' = t)
  PROVE  MoveInv'
<1>1. Shape /\ Claims /\ Queued \subseteq Trans
  BY Parts
<1>2. QueueTypeOK /\ t \in Trans /\ state_[t] = "NOT_BEGIN"
  BY ThisExecute
<1>3. todo # <<>> /\ This.op = "execute" /\ This \in Labels /\ This.ctx \in NewCtx \cup QueueCtx
  BY <1>1, ThisObject DEF CallOps
<1>4. state_'[t] = s /\ \A u \in Trans \ {t} : state_'[u] = state_[u]
  BY <1>2, SetStateIs
<1>5. Queued' = Queued /\ \A u, v : Precedes(u, v)' <=> Precedes(u, v)
  BY SameOrder
<1>6. ASSUME NEW u \in Trans, Begun(u)
      PROVE  Begun(u)'
  BY <1>2, <1>4, <1>6 DEF Begun
<1>7. Left = {This} \cup LeftToCallers
  BY <1>1, <1>3, ShapeIs
<1>8. MoveClaim(This)
  BY <1>7 DEF MoveInv
<1>9. l.op = op /\ l.t = t /\ l.ctx = This.ctx /\ l \in Left'
  BY DEF L
<1>10. This.ctx \in NewCtx => Queued = {} \/ (type_[t] # "STOP_LOG" /\ cur_diag_trans_ = NoTrans)
  <2>1. This.ctx \in NewCtx => MayRunNow(type_[t])
    BY <1>3, <1>8 DEF MoveClaim
  <2>2. transactions_ = <<>> => Queued = {}
    BY DEF Queued
  <2> QED
    BY <2>1, <2>2 DEF MayRunNow
<1>11. This.ctx \in QueueCtx => WillStart' /\ StartInv'
  BY <1>9, StarterStarts DEF Starter, CallOps
<1>12. StartInv'
  <2>1. CASE This.ctx \in QueueCtx
    BY <1>11, <2>1
  <2>2. CASE This.ctx \in NewCtx /\ Queued = {}
    BY <1>5, <2>2 DEF StartInv
  <2>3. CASE This.ctx \in NewCtx /\ cur_diag_trans_ = NoTrans
    <3>1. ~Starter(This)
      BY <1>3, <2>3, QueueCtxApart DEF Starter
    <3>2. \A m \in Left : Starter(m) => m \in Left'
      BY <1>7, <3>1
    <3>3. \A u \in Queued : Begun(u) => u \in Queued' /\ Begun(u)'
      BY <1>1, <1>5, <1>6
    <3> QED
      BY <1>5, <2>3, <3>2, <3>3, StartKept DEF MoveInv
  <2> QED
    BY <1>3, <1>10, <2>1, <2>2, <2>3
<1>13. MoveClaim(l)'
  <2>1. l.ctx = "loop" => \A u \in Queued' : Precedes(u, t)' => Begun(u)'
    <3>1. l.ctx = "loop" => \A u \in Queued : Precedes(u, t) => Begun(u)
      BY <1>3, <1>8, <1>9 DEF MoveClaim, CallOps
    <3> QED
      BY <1>1, <1>5, <1>6, <3>1
  <2>2. op = "STARTED" => Begun(t)' /\ state_'[t] \notin Results
    BY <1>4
  <2> QED
    BY <1>9, <2>1, <2>2 DEF MoveClaim
<1>14. ASSUME NEW k \in N
       PROVE  MoveClaim(k)'
  <2>1. CASE k.op \in PlainOps
    BY <2>1, PlainMoves
  <2>2. CASE k.op = "stop" /\ type_[t] = "STOP_LOG"
    <3>1. Queued' = {} \/ WillStart'
      BY <1>3, <1>5, <1>10, <1>11, <2>2
    <3> QED
      BY <2>2, <3>1 DEF MoveClaim, CallOps
  <2> QED
    BY <2>1, <2>2
<1>15. ASSUME NEW m \in LeftToCallers
       PROVE  MoveClaim(m)'
  <2>1. \A u \in Queued' : u \in Queued /\ (Begun(u) => Begun(u)')
    BY <1>1, <1>5, <1>6
  <2> QED
    BY <1>1, <1>5, <2>1, CallersMove
<1>16. CurrentInv'
  <2>1. CASE cur_diag_trans_' = t /\ cur_diag_trans_ # t
    BY <2>1 DEF CurrentInv, Begun
  <2>2. CASE cur_diag_trans_' \in {cur_diag_trans_, NoTrans}
    <3>1. \A u \in Queued' : u = cur_diag_trans_ => u \in Queued /\ (Begun(u) => Begun(u)')
      BY <1>1, <1>5, <1>6
    <3> QED
      BY <1>1, <1>5, <2>2, <3>1, CurrentKept DEF MoveInv
  <2> QED
    BY <2>1, <2>2
<1> DEFINE X == {t}
<1>17. ASSUME NEW u \in Trans \ X
       PROVE  Goes(u)
  <2>1. RunsCommand(u) => RunsCommand(u)'
    BY DEF RunsCommand, Running
  <2>2. \A m \in Left : m.op \in {"finish", "result", "SUCCESS", "ERROR"} => m \in Left'
    BY <1>3, <1>7
  <2> QED
    BY <1>4, <2>1, <2>2 DEF Goes
<1>18. \A u \in Trans \cap X : state_'[u] = "EXECUTING" => WillEnd(u)'
  BY <1>4
<1>19. \A u \in X \cap Queued' : state_'[u] \in Results => Says("SUCCESS", u)' \/ Says("ERROR", u)'
  BY <1>4, <1>9 DEF Says
<1>20. Queued' \subseteq Queued \cup X /\ Queued' \subseteq Trans
  BY <1>1, <1>5
<1>21. \A m \in Left' : MoveClaim(m)'
  BY <1>13, <1>14, <1>15
<1> HIDE DEF X
<1> QED
  BY <1>12, <1>16, <1>17, <1>18, <1>19, <1>20, <1>21, MoveStep

LEMMA ReturnsLeft ==
  ASSUME Shape, At({"execute"}), NEW op \in {"STARTED", "SUCCESS", "ERROR"},
         NEW l, l = L(op, This.t, This.ctx), Then(<<l>>)
  PROVE  Left' = {} \cup {l} \cup LeftToCallers
<1>1. todo # <<>> /\ This.t \in Trans /\ This.ctx \in NewCtx \cup QueueCtx
  BY ThisObject DEF CallOps
<1>2. l \in Labels
  BY <1>1, MakeLabel DEF CallOps
<1>3. <<l>> \in Seq(Labels) /\ Range(<<l>>) = {l}
  BY <1>2, OneLabel
<1> QED
  BY <1>1, <1>3, ThenLeft

LEMMA ExecuteReturnsMoves ==
  ASSUME IInv, ~Crashed, MoveInv, At({"execute"}), NEW t, t = This.t,
         NEW op \in {"STARTED", "SUCCESS", "ERROR"}, Then(<<L(op, t, This.ctx)>>),
         UNCHANGED <<transactions_, type_, at_finished_>>,
         NEW s, SetState(t, s), s \in Results => op # "STARTED",
         s = "EXECUTING" => WillEnd(t)', op = "STARTED" => Begun(t)',
         armed \subseteq armed', armed' \subseteq armed \cup {t},
         m_diag_handler' \in {m_diag_handler, t}, cur_diag_trans_' \in {cur_diag_trans_, t, NoTrans},
         cur_diag_trans_' = t => Begun(t)' \/ cur_diag_trans_ = t,
         UNCHANGED <<action_, client_>> \/ (~Running /\ client_' = t)
  PROVE  MoveInv'
<1>1. PICK l : l = L(op, t, This.ctx)
  OBVIOUS
<1> DEFINE N == {}
<1>2. Left' = N \cup {l} \cup LeftToCallers
  BY <1>1, Parts, ReturnsLeft
<1>3. \A k \in N : k.op \in PlainOps \/ (k.op = "stop" /\ type_[t] = "STOP_LOG")
  OBVIOUS
<1> HIDE DEF N
<1> QED
  BY <1>1, <1>2, <1>3, ExecuteMoves

LEMMA ExecuteLastLogMoves ==
  ASSUME IInv, ~Crashed, MoveInv, ExecuteLastLog
  PROVE  MoveInv'
<1>1. At({"execute"})
  BY DEF ExecuteLastLog
<1>2. PICK t : t = This.t
  OBVIOUS
<1>3. QueueTypeOK /\ t \in Trans
  BY <1>1, <1>2, ThisExecute
<1>4. /\ SetState(t, "EXECUTING") /\ armed' = armed \cup {t} /\ Then(<<L("STARTED", t, This.ctx)>>)
      /\ UNCHANGED <<transactions_, type_, at_finished_, m_diag_handler, cur_diag_trans_, action_, client_>>
      /\ type_[t] = "SAVE_MODEM_LAST_LOG"
  BY <1>2 DEF ExecuteLastLog, atVars, diagVars
<1>5. state_'[t] = "EXECUTING" /\ t \in armed' /\ type_'[t] = "SAVE_MODEM_LAST_LOG"
  BY <1>3, <1>4, SetStateIs
<1>6. Begun(t)' /\ WillEnd(t)'
  BY <1>5 DEF Begun, WillEnd, DiagTypes
<1>7. "EXECUTING" \notin Results
  BY DEF Results
<1> QED
  BY <1>1, <1>2, <1>4, <1>6, <1>7, ExecuteReturnsMoves

LEMMA ExecuteCommandMoves ==
  ASSUME IInv, ~Crashed, MoveInv, ExecuteCommand
  PROVE  MoveInv'
<1>1. At({"execute"})
  BY DEF ExecuteCommand
<1>2. PICK t : t = This.t
  OBVIOUS
<1>3. QueueTypeOK /\ OwnInv /\ t \in Trans /\ state_[t] = "NOT_BEGIN"
  BY <1>1, <1>2, ThisExecute
<1>4. UNCHANGED <<transactions_, type_, at_finished_, m_diag_handler, cur_diag_trans_>> /\ type_[t] \in AtTypes
  BY <1>2 DEF ExecuteCommand, diagVars
<1>5. CASE /\ StartCommand(t, CommandOf(type_[t])) /\ SetState(t, "EXECUTING")
           /\ armed' = IF type_[t] = "SAVE_EVENT_LOG" THEN armed \cup {t} ELSE armed
           /\ Then(<<L("STARTED", t, This.ctx)>>)
  <2>1. state_'[t] = "EXECUTING" /\ type_'[t] \in AtTypes /\ armed \subseteq armed' /\ armed' \subseteq armed \cup {t}
    BY <1>3, <1>4, <1>5, SetStateIs
  <2>2. ~Running /\ client_' = t /\ RunsCommand(t)'
    <3>1. action_' \in Actions
      BY <1>5, CommandIsAction DEF StartCommand
    <3>2. action_' # "AT_NONE"
      BY <3>1 DEF Actions
    <3> QED
      BY <1>5, <3>2 DEF StartCommand, RunsCommand, Running
  <2>3. t \notin at_finished_'
    BY <1>3, <1>4 DEF OwnInv, UnbegunInv
  <2>4. Begun(t)'
    BY <2>1 DEF Begun
  <2>5. WillEnd(t)'
    BY <2>1, <2>2, <2>3 DEF WillEnd, DiagTypes, AtTypes
  <2>6. "EXECUTING" \notin Results
    BY DEF Results
  <2> QED
    BY <1>1, <1>2, <1>4, <1>5, <2>1, <2>2, <2>4, <2>5, <2>6, ExecuteReturnsMoves
<1>6. ASSUME NEW s, s # "EXECUTING", SetState(t, s), armed' = armed, UNCHANGED <<action_, client_>>,
             NEW op \in {"SUCCESS", "ERROR"}, Then(<<L(op, t, This.ctx)>>)
      PROVE  MoveInv'
  BY <1>1, <1>2, <1>4, <1>6, ExecuteReturnsMoves
<1>7. CASE /\ RefuseCommand(CommandOf(type_[t]))
           /\ SetState(t, IF type_[t] = "STOP_LOG" THEN state_[t] ELSE "FAILURE")
           /\ Then(<<L(IF type_[t] \in {"MODEM_TICK_QUERY", "STOP_LOG"} THEN "ERROR" ELSE "SUCCESS", t, This.ctx)>>)
           /\ UNCHANGED armed
  <2>1. PICK s : s = IF type_[t] = "STOP_LOG" THEN state_[t] ELSE "FAILURE"
    OBVIOUS
  <2>2. PICK op \in {"SUCCESS", "ERROR"} :
          op = IF type_[t] \in {"MODEM_TICK_QUERY", "STOP_LOG"} THEN "ERROR" ELSE "SUCCESS"
    OBVIOUS
  <2>3. s # "EXECUTING" /\ SetState(t, s) /\ Then(<<L(op, t, This.ctx)>>)
    BY <1>3, <1>7, <2>1, <2>2
  <2>4. armed' = armed /\ UNCHANGED <<action_, client_>>
    BY <1>7 DEF RefuseCommand
  <2> QED
    BY <1>6, <2>3, <2>4
<1>8. CASE /\ SetState(t, "FAILURE") /\ Then(<<L("SUCCESS", t, This.ctx)>>) /\ UNCHANGED <<atVars, armed>>
  <2>1. armed' = armed /\ UNCHANGED <<action_, client_>>
    BY <1>8 DEF atVars
  <2> QED
    BY <1>6, <1>8, <2>1
<1> QED
  BY <1>2, <1>5, <1>7, <1>8 DEF ExecuteCommand

LEMMA ExecuteDiagMoves ==
  ASSUME IInv, ~Crashed, MoveInv, ExecuteDiag
  PROVE  MoveInv'
<1>1. At({"execute"})
  BY DEF ExecuteDiag
<1>2. PICK t : t = This.t
  OBVIOUS
<1>3. QueueTypeOK /\ t \in Trans
  BY <1>1, <1>2, ThisExecute
<1>4. UNCHANGED <<transactions_, type_, at_finished_, action_, client_>> /\ type_[t] \in DiagTypes
  BY <1>2 DEF ExecuteDiag, atVars
<1>5. ASSUME NEW s, s # "EXECUTING", SetState(t, s), armed' = armed, m_diag_handler' = m_diag_handler,
             cur_diag_trans_' \in {cur_diag_trans_, NoTrans}, Then(<<L("SUCCESS", t, This.ctx)>>)
      PROVE  MoveInv'
  <2>1. cur_diag_trans_' = t => cur_diag_trans_ = t
    BY <1>3, <1>5, NoTransIsNone
  <2> QED
    BY <1>1, <1>2, <1>4, <1>5, <2>1, ExecuteReturnsMoves
<1>6. CASE SetState(t, "FAILURE") /\ Then(<<L("SUCCESS", t, This.ctx)>>) /\ UNCHANGED <<diagVars, armed>>
  <2>1. armed' = armed /\ m_diag_handler' = m_diag_handler /\ cur_diag_trans_' = cur_diag_trans_
    BY <1>6 DEF diagVars
  <2> QED
    BY <1>5, <1>6, <2>1
<1>7. CASE /\ cur_diag_trans_' = NoTrans
           /\ SetState(t, IF type_[t] = "ORCA_ETB_DUMP" THEN "NOT_BEGIN" ELSE "FAILURE")
           /\ Then(<<L("SUCCESS", t, This.ctx)>>) /\ UNCHANGED <<m_diag_handler, armed>>
  <2>1. PICK s : s = IF type_[t] = "ORCA_ETB_DUMP" THEN "NOT_BEGIN" ELSE "FAILURE"
    OBVIOUS
  <2> QED
    BY <1>5, <1>7, <2>1
<1>8. CASE /\ m_diag_handler' = t /\ cur_diag_trans_' = t
           /\ SetState(t, IF type_[t] = "ORCA_ETB_DUMP" THEN "NOT_BEGIN" ELSE "EXECUTING")
           /\ armed' = armed \cup {t} /\ Then(<<L("STARTED", t, This.ctx)>>)
  <2>1. PICK s : s = IF type_[t] = "ORCA_ETB_DUMP" THEN "NOT_BEGIN" ELSE "EXECUTING"
    OBVIOUS
  <2>2. SetState(t, s) /\ s \notin Results
    BY <1>8, <2>1 DEF Results
  <2>3. t \in armed' /\ type_'[t] \in DiagTypes
    BY <1>4, <1>8
  <2>4. Begun(t)' /\ WillEnd(t)'
    BY <2>3 DEF Begun, WillEnd, DiagTypes
  <2> QED
    BY <1>1, <1>2, <1>4, <1>8, <2>2, <2>4, ExecuteReturnsMoves
<1> QED
  BY <1>2, <1>6, <1>7, <1>8 DEF ExecuteDiag

LEMMA ExecuteAtOnceMoves ==
  ASSUME IInv, ~Crashed, MoveInv, ExecuteAtOnce
  PROVE  MoveInv'
<1>1. At({"execute"}) /\ Shape
  BY Parts DEF ExecuteAtOnce
<1>2. PICK t : t = This.t
  OBVIOUS
<1>3. todo # <<>> /\ t \in Trans /\ This.ctx \in NewCtx \cup QueueCtx
  BY <1>1, <1>2, ThisObject DEF CallOps
<1>4. UNCHANGED <<transactions_, type_, at_finished_, armed, m_diag_handler, cur_diag_trans_, action_, client_>>
  BY DEF ExecuteAtOnce, atVars, diagVars, ownVars
<1>5. PICK s \in Results : SetState(t, s)
  BY <1>2 DEF ExecuteAtOnce, Results
<1>6. PICK l : l = L("SUCCESS", t, This.ctx)
  OBVIOUS
<1>7. l \in Labels
  BY <1>3, <1>6, MakeLabel DEF CallOps
<1>8. <<l>> \in Seq(Labels) /\ Range(<<l>>) = {l} /\ <<>> \in Seq(Labels) /\ Range(<<>>) = {}
  BY <1>7, OneLabel
<1>9. PICK a \in {<<>>, <<Do("start")>>}, b \in {<<>>, <<Do("stop")>>} :
        Then(a \o b \o <<l>>) /\ (b # <<>> => type_[t] = "STOP_LOG")
  BY <1>2, <1>6 DEF ExecuteAtOnce
<1>10. a \in Seq(Labels) /\ \A k \in Range(a) : k.op \in PlainOps
  <2>1. PlainCalls(<<>>) /\ PlainCalls(<<Do("start")>>)
    BY PlainNone, PlainDo
  <2> QED
    BY <2>1 DEF PlainCalls
<1>11. b \in Seq(Labels) /\ \A k \in Range(b) : k.op = "stop" /\ type_[t] = "STOP_LOG"
  <2>1. PICK k : k = Do("stop")
    OBVIOUS
  <2>2. k \in Labels
    BY <2>1, MakeLabel DEF DoOps
  <2>3. k.op = "stop" /\ <<k>> \in Seq(Labels) /\ Range(<<k>>) = {k} /\ <<k>> # <<>>
    BY <2>1, <2>2, DoFields, OneLabel
  <2>4. b = <<>> \/ b = <<k>>
    BY <2>1
  <2> QED
    BY <1>8, <1>9, <2>3, <2>4
<1>12. PICK N : N = Range(a) \cup Range(b)
  OBVIOUS
<1>13. Left' = N \cup {l} \cup LeftToCallers
  <2>1. PICK g : g = <<l>>
    OBVIOUS
  <2>2. g \in Seq(Labels) /\ Range(g) = {l}
    BY <1>8, <2>1
  <2>3. a \o b \in Seq(Labels) /\ Range(a \o b) = Range(a) \cup Range(b)
    BY <1>10, <1>11, ConcatElements
  <2>4. PICK h : h = a \o b
    OBVIOUS
  <2>5. h \o g \in Seq(Labels) /\ Range(h \o g) = Range(h) \cup {l}
    <3>1. h \in Seq(Labels)
      BY <2>3, <2>4
    <3>2. Range(h \o g) = Range(h) \cup Range(g)
      BY <2>2, <3>1, ConcatElements
    <3> QED
      BY <2>2, <3>1, <3>2
  <2>6. Then(h \o g)
    BY <1>9, <2>1, <2>4
  <2>7. Left' = Range(h \o g) \cup LeftToCallers
    BY <1>1, <1>3, <2>5, <2>6, ThenLeft
  <2> QED
    BY <1>12, <2>3, <2>4, <2>5, <2>7
<1>14. \A k \in N : k.op \in PlainOps \/ (k.op = "stop" /\ type_[t] = "STOP_LOG")
  BY <1>10, <1>11, <1>12
<1>15. s # "EXECUTING" /\ "SUCCESS" # "STARTED"
  BY <1>5 DEF Results
<1> QED
  BY <1>1, <1>2, <1>4, <1>5, <1>6, <1>13, <1>14, <1>15, ExecuteMoves
------------------------------------------------------------------------------
(* The loops over the queue.                                               *)

LEMMA OrderAfterRemoval ==
  ASSUME transactions_ \in Seq(Trans), NEW t, transactions_' = Without(t), NEW u, NEW v, Precedes(u, v)'
  PROVE  Precedes(u, v)
<1>1. PICK i \in DOMAIN transactions_', j \in DOMAIN transactions_' :
        i < j /\ transactions_'[i] = u /\ transactions_'[j] = v
  BY DEF Precedes
<1>2. CASE t \notin Queued
  <2>1. transactions_' = transactions_
    BY <1>2 DEF Without
  <2> QED
    BY <1>1, <2>1 DEF Precedes
<1>3. CASE t \in Queued
  <2> DEFINE n == Len(transactions_)
             p == Place(t)
  <2>1. p \in DOMAIN transactions_
    BY <1>3 DEF Queued, Place
  <2>2. transactions_' = RemoveAt(transactions_, p)
    BY <1>3 DEF Without
  <2> HIDE DEF p
  <2>3. /\ transactions_' \in Seq(Trans) /\ Len(transactions_') = n - 1
        /\ \A k \in 1 .. n - 1 :
             transactions_'[k] = IF k < p THEN transactions_[k] ELSE transactions_[k + 1]
    BY <2>1, <2>2, RemoveAtElements
  <2>4. DOMAIN transactions_' = 1 .. n - 1 /\ DOMAIN transactions_ = 1 .. n /\ n \in Nat /\ p \in 1 .. n
    BY <2>1, <2>3
  <2> DEFINE Old(k) == IF k < p THEN k ELSE k + 1
  <2>5. ASSUME NEW k \in DOMAIN transactions_'
        PROVE  Old(k) \in DOMAIN transactions_ /\ transactions_'[k] = transactions_[Old(k)]
    <3>1. k \in 1 .. n - 1 /\ k \in 1 .. n /\ k + 1 \in 1 .. n
      BY <2>4, <2>5
    <3> QED
      BY <2>3, <2>4, <3>1
  <2>6. Old(i) < Old(j)
    BY <1>1, <2>4
  <2> HIDE DEF Old
  <2>7. transactions_[Old(i)] = u /\ transactions_[Old(j)] = v
    BY <1>1, <2>5
  <2> QED
    BY <2>5, <2>6, <2>7 DEF Precedes
<1> QED
  BY <1>2, <1>3

LEMMA OrderOfNext ==
  ASSUME transactions_ \in Seq(Trans), IsInjective(transactions_), NEW t \in Queued, NEW u \in Queued
  PROVE  /\ After(t) = NoTrans => u = t \/ Precedes(u, t)
         /\ After(t) # NoTrans /\ Precedes(u, After(t)) => u = t \/ Precedes(u, t)
<1> DEFINE p == Place(t)
<1>1. p \in DOMAIN transactions_ /\ transactions_[p] = t
  BY DEF Queued, Place
<1>2. After(t) = IF p = Len(transactions_) THEN NoTrans ELSE transactions_[p + 1]
  BY DEF After
<1> HIDE DEF p
<1>3. DOMAIN transactions_ = 1 .. Len(transactions_) /\ Len(transactions_) \in Nat
  OBVIOUS
<1>4. PICK q \in DOMAIN transactions_ : transactions_[q] = u
  BY DEF Queued
<1>5. q < p => Precedes(u, t)
  BY <1>1, <1>4 DEF Precedes
<1>6. CASE After(t) = NoTrans
  <2>1. p = Len(transactions_)
    <3>1. p # Len(transactions_) => p + 1 \in DOMAIN transactions_
      BY <1>1, <1>3
    <3>2. p # Len(transactions_) => transactions_[p + 1] \in Trans
      BY <3>1
    <3> QED
      BY <1>2, <1>6, <3>2, NoTransIsNone
  <2>2. q < p \/ q = p
    BY <1>1, <1>3, <1>4, <2>1
  <2> QED
    BY <1>1, <1>4, <1>5, <1>6, <2>2
<1>7. CASE After(t) # NoTrans /\ Precedes(u, After(t))
  <2>1. p + 1 \in DOMAIN transactions_ /\ After(t) = transactions_[p + 1]
    BY <1>1, <1>2, <1>3, <1>7
  <2>2. PICK i \in DOMAIN transactions_, j \in DOMAIN transactions_ :
          i < j /\ transactions_[i] = u /\ transactions_[j] = After(t)
    BY <1>7 DEF Precedes
  <2>3. i = q /\ j = p + 1
    BY <1>4, <2>1, <2>2 DEF IsInjective
  <2>4. q < p \/ q = p
    BY <1>1, <1>3, <1>4, <2>2, <2>3
  <2> QED
    BY <1>1, <1>4, <1>5, <2>4
<1> QED
  BY <1>6, <1>7

LEMMA NoneBeforeFirst ==
  ASSUME transactions_ \in Seq(Trans), IsInjective(transactions_), First # NoTrans, NEW u
  PROVE  ~Precedes(u, First)
<1>1. transactions_ # <<>>
  BY DEF First
<1>2. 1 \in DOMAIN transactions_ /\ First = transactions_[1]
  BY <1>1 DEF First
<1>3. DOMAIN transactions_ = 1 .. Len(transactions_) /\ Len(transactions_) \in Nat
  OBVIOUS
<1>4. \A j \in DOMAIN transactions_ : transactions_[j] = First => j = 1
  BY <1>2 DEF IsInjective
<1>5. \A i, j \in DOMAIN transactions_ : i < j => j # 1
  BY <1>3
<1> QED
  BY <1>4, <1>5 DEF Precedes

\* The calls change, the objects do not.
LEMMA StillMoves ==
  ASSUME IInv, ~Crashed, MoveInv, todo # <<>>, Rests(This) = {<<>>},
         This.op \notin {"finish", "result", "SUCCESS", "ERROR"}, UNCHANGED <<MoveVars, action_, client_>>,
         StartInv', \A l \in Left' : MoveClaim(l)'
  PROVE  MoveInv'
<1>1. Shape /\ Queued \subseteq Trans
  BY Parts
<1>2. UNCHANGED <<transactions_, type_, state_, armed, at_finished_, m_diag_handler, cur_diag_trans_>>
  BY DEF MoveVars
<1>3. Queued' = Queued /\ \A u : Begun(u) => Begun(u)'
  BY <1>2, SameOrder DEF Begun
<1>4. Left = {This}
  BY <1>1, ShapeIs, ThisLast
<1>5. CurrentInv'
  BY <1>1, <1>2, <1>3, CurrentKept DEF MoveInv
<1> DEFINE X == {}
<1>6. ASSUME NEW u \in Trans
      PROVE  Goes(u)
  BY <1>2, <1>4 DEF Goes, RunsCommand, Running
<1>7. /\ \A u \in Trans \cap X : state_'[u] = "EXECUTING" => WillEnd(u)'
      /\ \A u \in X \cap Queued' : state_'[u] \in Results => Says("SUCCESS", u)' \/ Says("ERROR", u)'
      /\ Queued' \subseteq Queued \cup X /\ Queued' \subseteq Trans
  BY <1>1, <1>3
<1> HIDE DEF X
<1> QED
  BY <1>5, <1>6, <1>7, MoveStep

LEMMA OnlyCall ==
  ASSUME Shape, todo # <<>>, Rests(This) = {<<>>}, NEW l \in Labels, Then(<<l>>)
  PROVE  Left' = {l}
<1>1. <<l>> \in Seq(Labels) /\ Range(<<l>>) = {l}
  BY OneLabel
<1> QED
  BY <1>1, ThenLeft, ThisLast

LEMMA NoCall ==
  ASSUME Shape, todo # <<>>, Rests(This) = {<<>>}, Then(<<>>)
  PROVE  Left' = {}
BY Pop, ThisLast

LEMMA StillQueued ==
  ASSUME UNCHANGED MoveVars
  PROVE  /\ Queued' = Queued /\ \A u, v : Precedes(u, v)' <=> Precedes(u, v)
         /\ \A u : Begun(u)' <=> Begun(u)
<1>1. UNCHANGED <<transactions_, type_, state_, armed, at_finished_, m_diag_handler, cur_diag_trans_>>
  BY DEF MoveVars
<1> QED
  BY <1>1, SameOrder DEF Begun

LEMMA BeginMoves ==
  ASSUME IInv, ~Crashed, MoveInv, Begin
  PROVE  MoveInv'
<1>1. Shape /\ transactions_ \in Seq(Trans) /\ IsInjective(transactions_) /\ Queued \subseteq Trans
  BY Parts
<1>2. todo # <<>> /\ This.op = "begin"
  BY DEF Begin, At
<1>3. Rests(This) = {<<>>}
  BY <1>2, RestsNone
<1>4. UNCHANGED <<MoveVars, action_, client_>>
  BY DEF Begin, MoveVars, atVars, queueVars, ownVars, diagVars
<1>5. PICK l : l = L("loop", First, "")
  OBVIOUS
<1>6. First \in Queued \cup {NoTrans}
  BY <1>1, FirstIs
<1>7. l \in Labels /\ Then(<<l>>)
  BY <1>1, <1>5, <1>6, MakeLabel DEF Begin
<1>8. l.op = "loop" /\ l.t = First
  BY <1>5 DEF L
<1>9. Left' = {l}
  BY <1>1, <1>2, <1>3, <1>7, OnlyCall
<1>10. Queued' = Queued /\ \A u, v : Precedes(u, v)' <=> Precedes(u, v)
  BY <1>4, StillQueued
<1>11. StartInv'
  <2>1. CASE First = NoTrans
    <3>1. transactions_ = <<>>
      <4>1. transactions_ # <<>> => Head(transactions_) \in Trans
        BY <1>1
      <4> QED
        BY <2>1, <4>1, NoTransIsNone DEF First
    <3>2. Queued' = {}
      BY <1>10, <3>1 DEF Queued
    <3> QED
      BY <3>2 DEF StartInv
  <2>2. CASE First # NoTrans
    BY <1>8, <1>9, <2>2, StarterStarts DEF Starter
  <2> QED
    BY <2>1, <2>2
<1>12. MoveClaim(l)'
  <2>1. l.t # NoTrans => \A u \in Queued' : ~Precedes(u, l.t)'
    BY <1>1, <1>8, <1>10, NoneBeforeFirst
  <2> QED
    BY <1>8, <2>1 DEF MoveClaim, CallOps
<1> QED
  BY <1>2, <1>3, <1>4, <1>9, <1>11, <1>12, StillMoves

LEMMA LoopMoves ==
  ASSUME IInv, ~Crashed, MoveInv, Loop
  PROVE  MoveInv'
<1>1. Shape /\ Claims /\ transactions_ \in Seq(Trans) /\ IsInjective(transactions_) /\ Queued \subseteq Trans
  BY Parts
<1>2. At({"loop"})
  BY DEF Loop
<1>3. todo # <<>> /\ This.op = "loop" /\ Claim(This)
  BY <1>1, <1>2, ThisClaim
<1>4. Rests(This) = {<<>>} /\ Left = {This}
  <2>1. Rests(This) = {<<>>}
    BY <1>3, RestsNone
  <2> QED
    BY <1>1, <1>3, <2>1, ThisLast, ShapeIs
<1>5. UNCHANGED <<MoveVars, action_, client_>>
  BY DEF Loop, MoveVars, atVars, queueVars, ownVars, diagVars
<1>6. PICK t : t = This.t
  OBVIOUS
<1>7. /\ Queued' = Queued /\ \A u, v : Precedes(u, v)' <=> Precedes(u, v)
      /\ \A u : Begun(u)' <=> Begun(u)
  BY <1>5, StillQueued
<1>8. t # NoTrans => t \in Queued /\ \A u \in Queued : Precedes(u, t) => Begun(u)
  BY <1>3, <1>4, <1>6 DEF Claim, MoveInv, MoveClaim
<1>9. CASE t = NoTrans
  <2>1. Then(<<>>)
    BY <1>6, <1>9 DEF Loop
  <2>2. Left' = {}
    BY <1>1, <1>3, <1>4, <2>1, NoCall
  <2>3. \A l \in Left : ~Starter(l)
    BY <1>3, <1>4, <1>6, <1>9 DEF Starter, CallOps
  <2>4. cur_diag_trans_' = cur_diag_trans_
    BY <1>5 DEF MoveVars
  <2>5. StartInv'
    BY <1>7, <2>3, <2>4, StartKept DEF MoveInv
  <2> QED
    BY <1>3, <1>4, <1>5, <2>2, <2>5, StillMoves
<1>10. CASE t # NoTrans /\ state_[t] = "NOT_BEGIN"
  <2>1. PICK l : l = L("execute", t, "loop")
    OBVIOUS
  <2>2. t \in Trans
    BY <1>1, <1>8, <1>10
  <2>3. l \in Labels
    BY <2>1, <2>2, MakeLabel DEF CallOps, QueueCtx
  <2>4. l.op = "execute" /\ l.t = t /\ l.ctx = "loop" /\ Then(<<l>>)
    BY <1>6, <1>10, <2>1 DEF Loop, L
  <2>5. Left' = {l}
    BY <1>1, <1>3, <1>4, <2>3, <2>4, OnlyCall
  <2>6. StartInv'
    BY <2>4, <2>5, StarterStarts DEF Starter, CallOps, QueueCtx
  <2>7. \A u \in Queued' : Precedes(u, t)' => Begun(u)'
    BY <1>7, <1>8, <1>10
  <2>8. l.ctx \notin NewCtx
    BY <2>4, QueueCtxApart DEF QueueCtx
  <2>9. MoveClaim(l)'
    BY <2>4, <2>7, <2>8 DEF MoveClaim
  <2> QED
    BY <1>3, <1>4, <1>5, <2>5, <2>6, <2>9, StillMoves
<1>11. CASE t # NoTrans /\ state_[t] # "NOT_BEGIN"
  <2>1. PICK v : v = After(t)
    OBVIOUS
  <2>2. v \in Queued \cup {NoTrans}
    BY <1>1, <1>8, <1>11, <2>1, AfterIs
  <2>3. PICK l : l = L("loop", v, "")
    OBVIOUS
  <2>4. l \in Labels
    BY <1>1, <2>2, <2>3, MakeLabel
  <2>5. l.op = "loop" /\ l.t = v /\ Then(<<l>>)
    BY <1>6, <1>11, <2>1, <2>3 DEF Loop, L
  <2>6. Left' = {l}
    BY <1>1, <1>3, <1>4, <2>4, <2>5, OnlyCall
  <2>7. t \in Queued' /\ Begun(t)'
    BY <1>7, <1>8, <1>11 DEF Begun
  <2>8. StartInv'
    BY <2>7 DEF StartInv
  <2>9. v # NoTrans => \A u \in Queued' : Precedes(u, v)' => Begun(u)'
    <3>1. v # NoTrans => \A u \in Queued : Precedes(u, v) => u = t \/ Precedes(u, t)
      BY <1>1, <1>8, <1>11, <2>1, OrderOfNext
    <3> QED
      BY <1>7, <1>8, <1>11, <2>7, <3>1
  <2>10. MoveClaim(l)'
    BY <2>5, <2>9 DEF MoveClaim, CallOps
  <2> QED
    BY <1>3, <1>4, <1>5, <2>6, <2>8, <2>10, StillMoves
<1> QED
  BY <1>9, <1>10, <1>11

LEMMA FrontMoves ==
  ASSUME IInv, ~Crashed, MoveInv, FrontStarts
  PROVE  MoveInv'
<1>1. Shape /\ transactions_ \in Seq(Trans) /\ Queued \subseteq Trans
  BY Parts
<1>2. todo # <<>> /\ This.op = "front"
  BY DEF FrontStarts, At
<1>3. Rests(This) = {<<>>}
  BY <1>2, RestsNone
<1>4. UNCHANGED <<MoveVars, action_, client_>>
  BY DEF FrontStarts, MoveVars, atVars, queueVars, ownVars, diagVars
<1>5. PICK t : t = First
  OBVIOUS
<1>6. t \in Queued \cup {NoTrans}
  BY <1>1, <1>5, FirstIs
<1>7. Queued' = Queued /\ \A u : Begun(u)' <=> Begun(u)
  BY <1>4, StillQueued
<1>8. CASE t # NoTrans /\ state_[t] = "NOT_BEGIN"
  <2>1. PICK l : l = L("execute", t, "canceled")
    OBVIOUS
  <2>2. l \in Labels
    BY <1>1, <1>6, <1>8, <2>1, MakeLabel DEF CallOps, QueueCtx
  <2>3. l.op = "execute" /\ l.ctx = "canceled" /\ Then(<<l>>)
    BY <1>5, <1>8, <2>1 DEF FrontStarts, L
  <2>4. Left' = {l}
    BY <1>1, <1>2, <1>3, <2>2, <2>3, OnlyCall
  <2>5. StartInv'
    BY <2>3, <2>4, StarterStarts DEF Starter, CallOps, QueueCtx
  <2>6. l.ctx \notin NewCtx
    BY <2>3, QueueCtxApart DEF QueueCtx
  <2>7. MoveClaim(l)'
    BY <2>3, <2>6 DEF MoveClaim
  <2> QED
    BY <1>2, <1>3, <1>4, <2>4, <2>5, <2>7, StillMoves
<1>9. CASE ~(t # NoTrans /\ state_[t] = "NOT_BEGIN")
  <2>1. Then(<<>>)
    BY <1>5, <1>9 DEF FrontStarts
  <2>2. Left' = {}
    BY <1>1, <1>2, <1>3, <2>1, NoCall
  <2>3. StartInv'
    <3>1. CASE t = NoTrans
      <4>1. transactions_ # <<>> => Head(transactions_) \in Trans
        BY <1>1
      <4>2. Queued = {}
        BY <1>5, <3>1, <4>1, NoTransIsNone DEF First, Queued
      <4> QED
        BY <1>7, <4>2 DEF StartInv
    <3>2. CASE t # NoTrans
      <4>1. t \in Queued' /\ Begun(t)'
        BY <1>6, <1>7, <1>9, <3>2 DEF Begun
      <4> QED
        BY <4>1 DEF StartInv
    <3> QED
      BY <3>1, <3>2
  <2> QED
    BY <1>2, <1>3, <1>4, <2>2, <2>3, StillMoves
<1> QED
  BY <1>8, <1>9
------------------------------------------------------------------------------
(* One leaves the queue.                                                   *)

\* The transaction t leaves and has been told; some that are queued will start.
LEMMA LeavesMoves ==
  ASSUME IInv, ~Crashed, MoveInv, todo # <<>>, Left = {This}, NEW t \in Queued, This.t = t,
         transactions_' = Without(t), state_'[t] # "EXECUTING",
         \A u \in Trans \ {t} : /\ type_'[u] = type_[u] /\ state_'[u] = state_[u]
                                /\ u \in at_finished_' <=> u \in at_finished_
                                /\ RunsCommand(u) => RunsCommand(u)',
         UNCHANGED <<armed, m_diag_handler, cur_diag_trans_>>,
         StartInv', \A l \in Left' : MoveClaim(l)'
  PROVE  MoveInv'
<1>1. Queued \subseteq Trans /\ Queued' = Queued \ {t}
  BY Parts, WithoutIs
<1>2. \A u \in Queued' : Begun(u) => Begun(u)'
  BY <1>1 DEF Begun
<1>3. CurrentInv'
  <2>1. cur_diag_trans_' \in Queued' => cur_diag_trans_ \in Queued /\ cur_diag_trans_ # t
    BY <1>1
  <2>2. cur_diag_trans_' \in Queued' => Begun(cur_diag_trans_)
    BY <2>1 DEF MoveInv, CurrentInv
  <2> QED
    BY <1>1, <2>1, <2>2 DEF CurrentInv, Begun
<1> DEFINE X == {t}
<1>4. ASSUME NEW u \in Trans \ X
      PROVE  Goes(u)
  BY DEF Goes
<1>5. /\ \A u \in Trans \cap X : state_'[u] = "EXECUTING" => WillEnd(u)'
      /\ \A u \in X \cap Queued' : state_'[u] \in Results => Says("SUCCESS", u)' \/ Says("ERROR", u)'
      /\ Queued' \subseteq Queued \cup X /\ Queued' \subseteq Trans
  BY <1>1
<1> HIDE DEF X
<1> QED
  BY <1>3, <1>4, <1>5, MoveStep

LEMMA PairOfCalls ==
  ASSUME NEW l \in Labels, NEW m \in Labels
  PROVE  <<l, m>> \in Seq(Labels) /\ Range(<<l, m>>) = {l, m}
BY TwoLabels

LEMMA TwoCalls ==
  ASSUME Shape, todo # <<>>, Rests(This) = {<<>>}, NEW l \in Labels, NEW m \in Labels, Then(<<l, m>>)
  PROVE  Left' = {l, m}
<1>1. PICK s : s = <<l, m>>
  OBVIOUS
<1>2. s \in Seq(Labels) /\ Range(s) = {l, m}
  BY <1>1, PairOfCalls
<1> QED
  BY <1>1, <1>2, ThenLeft, ThisLast

LEMMA FinishMoves ==
  ASSUME IInv, ~Crashed, MoveInv, Finish
  PROVE  MoveInv'
<1>1. Shape /\ Claims /\ QueueTypeOK /\ Queued \subseteq Trans
  BY Parts
<1>2. At({"finish"})
  BY DEF Finish
<1>3. todo # <<>> /\ This.op = "finish" /\ Claim(This) /\ This.t \in Trans /\ This.ctx \in Results
  BY <1>1, <1>2, ThisClaim, ThisObject
<1>4. Rests(This) = {<<>>} /\ Left = {This}
  <2>1. Rests(This) = {<<>>}
    BY <1>3, RestsNone
  <2> QED
    BY <1>1, <1>3, <2>1, ThisLast, ShapeIs
<1>5. PICK t : t = This.t
  OBVIOUS
<1>6. t \in Queued /\ t \in Trans
  BY <1>3, <1>5 DEF Claim
<1>7. transactions_' = Without(t) /\ SetState(t, This.ctx)
      /\ UNCHANGED <<type_, at_finished_, armed, m_diag_handler, cur_diag_trans_, action_, client_>>
  BY <1>5 DEF Finish, ownVars, diagVars, atVars
<1>8. state_'[t] # "EXECUTING" /\ \A u \in Trans \ {t} : state_'[u] = state_[u]
  BY <1>1, <1>3, <1>6, <1>7, SetStateIs DEF Results
<1>9. PICK n, b : n = L("notify", t, "") /\ b = Do("begin")
  OBVIOUS
<1>10. n \in Labels /\ b \in Labels
  BY <1>6, <1>9, MakeLabel DEF DoOps, ObjectOps
<1>11. n.op = "notify" /\ b.op = "begin" /\ Then(<<n, b>>)
  BY <1>5, <1>9, DoFields DEF Finish, L
<1>12. Left' = {n, b}
  BY <1>1, <1>3, <1>4, <1>10, <1>11, TwoCalls
<1>13. \A l \in Left' : MoveClaim(l)'
  BY <1>11, <1>12, PlainMoves DEF PlainOps
<1>14. StartInv'
  BY <1>11, <1>12, StarterStarts DEF Starter
<1>15. \A u \in Trans \ {t} : /\ type_'[u] = type_[u] /\ state_'[u] = state_[u]
                              /\ u \in at_finished_' <=> u \in at_finished_
                              /\ RunsCommand(u) => RunsCommand(u)'
  BY <1>7, <1>8 DEF RunsCommand, Running
<1> QED
  BY <1>3, <1>4, <1>5, <1>6, <1>7, <1>8, <1>13, <1>14, <1>15, LeavesMoves

LEMMA LoopReturnMoves ==
  ASSUME IInv, ~Crashed, MoveInv, LoopReturn
  PROVE  MoveInv'
<1>1. Shape /\ Claims /\ QueueTypeOK /\ transactions_ \in Seq(Trans) /\ IsInjective(transactions_) /\ Queued \subseteq Trans
  BY Parts
<1>2. At({"STARTED", "SUCCESS", "ERROR"})
  BY DEF LoopReturn
<1>3. todo # <<>> /\ This.op \in {"STARTED", "SUCCESS", "ERROR"} /\ Claim(This)
  BY <1>1, <1>2, ThisClaim
<1>4. This.ctx \in QueueCtx
  BY DEF LoopReturn, QueueCtx
<1>5. Rests(This) = {<<>>} /\ Left = {This} /\ MoveClaim(This)
  <2>1. Rests(This) = {<<>>}
    <3>1. This.op \in CallOps /\ This.ctx \notin {"time", "version", "etb", "dump"}
      BY <1>3, <1>4, QueueCtxApart DEF CallOps
    <3> QED
      BY <3>1, RestsNone
  <2>2. Left = {This}
    BY <1>1, <1>3, <2>1, ThisLast, ShapeIs
  <2> QED
    BY <2>1, <2>2 DEF MoveInv
<1>6. PICK t : t = This.t
  OBVIOUS
<1>7. t \in Queued /\ t \in Trans
  BY <1>1, <1>3, <1>4, <1>6 DEF Claim, CallOps
<1>8. UNCHANGED <<type_, state_, armed, at_finished_, m_diag_handler, cur_diag_trans_, action_, client_>>
  BY DEF LoopReturn, ownVars, diagVars, atVars
<1>9. CASE This.op = "STARTED"
  <2>1. Then(<<>>) /\ transactions_' = transactions_
    BY <1>9 DEF LoopReturn
  <2>2. Left' = {}
    BY <1>1, <1>3, <1>5, <2>1, NoCall
  <2>3. UNCHANGED <<MoveVars, action_, client_>>
    BY <1>8, <2>1 DEF MoveVars
  <2>4. Begun(t)
    BY <1>5, <1>6, <1>9 DEF MoveClaim
  <2>5. t \in Queued' /\ Begun(t)'
    BY <1>7, <2>3, <2>4, StillQueued
  <2>6. StartInv'
    BY <2>5 DEF StartInv
  <2>7. This.op \notin {"finish", "result", "SUCCESS", "ERROR"}
    BY <1>9
  <2> QED
    BY <1>3, <1>5, <2>2, <2>3, <2>6, <2>7, StillMoves
<1>10. CASE This.op # "STARTED"
  <2>1. PICK n, v : n = L("notify", t, "") /\ v = After(t)
    OBVIOUS
  <2>2. PICK m : m = IF This.ctx = "loop" THEN L("loop", v, "") ELSE Do("front")
    OBVIOUS
  <2>3. transactions_' = Without(t) /\ Then(<<n, m>>)
    BY <1>6, <1>10, <2>1, <2>2 DEF LoopReturn, NextStarts
  <2>4. v \in (Queued \ {t}) \cup {NoTrans}
    BY <1>1, <1>7, <2>1, AfterIs
  <2>5. n \in Labels /\ m \in Labels
    BY <1>1, <1>7, <2>1, <2>2, <2>4, MakeLabel DEF DoOps, ObjectOps
  <2>6. /\ n.op = "notify"
        /\ This.ctx = "loop" => m.op = "loop" /\ m.t = v
        /\ This.ctx # "loop" => m.op = "front"
    BY <2>1, <2>2, DoFields DEF L
  <2>7. Left' = {n, m}
    BY <1>1, <1>3, <1>5, <2>3, <2>5, TwoCalls
  <2>8. Queued' = Queued \ {t} /\ \A u, w : Precedes(u, w)' => Precedes(u, w)
    BY <1>1, <2>3, WithoutIs, OrderAfterRemoval
  <2>9. \A u : Begun(u)' <=> Begun(u)
    BY <1>8 DEF Begun
  <2>10. This.ctx = "loop" => \A u \in Queued : Precedes(u, t) => Begun(u)
    BY <1>3, <1>5, <1>6 DEF MoveClaim, CallOps
  <2>11. \A u \in Queued : /\ v = NoTrans => u = t \/ Precedes(u, t)
                           /\ v # NoTrans /\ Precedes(u, v) => u = t \/ Precedes(u, t)
    BY <1>1, <1>7, <2>1, OrderOfNext
  <2>12. StartInv'
    <3>1. CASE This.ctx = "loop" /\ v = NoTrans
      <4>1. \A u \in Queued' : Begun(u)'
        BY <2>8, <2>9, <2>10, <2>11, <3>1
      <4> QED
        BY <4>1 DEF StartInv
    <3>2. CASE ~(This.ctx = "loop" /\ v = NoTrans)
      <4>1. Starter(m)
        BY <2>6, <3>2 DEF Starter
      <4> QED
        BY <2>7, <4>1, StarterStarts
    <3> QED
      BY <3>1, <3>2
  <2>13. MoveClaim(n)'
    BY <2>6, PlainMoves DEF PlainOps
  <2>14. MoveClaim(m)'
    <3>1. CASE This.ctx # "loop"
      BY <2>6, <3>1, PlainMoves DEF PlainOps
    <3>2. CASE This.ctx = "loop"
      <4>1. v # NoTrans => \A u \in Queued' : Precedes(u, v)' => Begun(u)'
        BY <2>8, <2>9, <2>10, <2>11, <3>2
      <4> QED
        BY <2>6, <3>2, <4>1 DEF MoveClaim, CallOps
    <3> QED
      BY <3>1, <3>2
  <2>15. state_'[t] # "EXECUTING"
    BY <1>3, <1>6, <1>8, <1>10 DEF Claim
  <2>16. \A u \in Trans \ {t} : /\ type_'[u] = type_[u] /\ state_'[u] = state_[u]
                                /\ u \in at_finished_' <=> u \in at_finished_
                                /\ RunsCommand(u) => RunsCommand(u)'
    BY <1>8 DEF RunsCommand, Running
  <2>17. \A l \in Left' : MoveClaim(l)'
    BY <2>7, <2>13, <2>14
  <2> QED
    BY <1>3, <1>5, <1>6, <1>7, <1>8, <2>3, <2>12, <2>15, <2>16, <2>17, LeavesMoves
<1> QED
  BY <1>9, <1>10

\* The command that is canceled is that of the transaction.
LEMMA CancelMoves ==
  ASSUME IInv, ~Crashed, MoveInv, CancelTrans
  PROVE  MoveInv'
<1>1. Shape /\ Claims /\ QueueTypeOK /\ Queued \subseteq Trans
  BY Parts
<1>2. At({"cancel"})
  BY DEF CancelTrans
<1>3. todo # <<>> /\ This.op = "cancel" /\ Claim(This) /\ This.t \in Trans
  BY <1>1, <1>2, ThisClaim, ThisObject DEF ObjectOps
<1>4. Rests(This) = {<<>>} /\ Left = {This}
  <2>1. Rests(This) = {<<>>}
    BY <1>3, RestsNone
  <2> QED
    BY <1>1, <1>3, <2>1, ThisLast, ShapeIs
<1>5. PICK t : t = This.t
  OBVIOUS
<1>6. t \in Queued /\ t \in Trans /\ type_[t] \in GlobalTypes \cup {"MODEM_TICK_QUERY"}
  BY <1>3, <1>5 DEF Claim
<1>7. /\ transactions_' = Without(t) /\ Free(t) /\ UNCHANGED <<armed, m_diag_handler, cur_diag_trans_>>
      /\ IF state_[t] = "EXECUTING" THEN CancelCommand ELSE UNCHANGED atVars
  BY <1>5 DEF CancelTrans, diagVars
<1>8. /\ state_'[t] = "NOT_BEGIN" /\ at_finished_' = at_finished_ \ {t}
      /\ \A u \in Trans \ {t} : type_'[u] = type_[u] /\ state_'[u] = state_[u]
  BY <1>1, <1>6, <1>7, FreeIs
<1>9. ASSUME NEW u \in Trans \ {t}, RunsCommand(u)
      PROVE  RunsCommand(u)'
  <2>1. CASE state_[t] = "EXECUTING"
    <3>1. WillEnd(t)
      BY <1>6, <2>1 DEF MoveInv, ExecuteInv
    <3>2. RunsCommand(t)
      BY <1>3, <1>4, <1>6, <3>1 DEF WillEnd, DiagTypes, GlobalTypes, Says
    <3> QED
      BY <1>9, <3>2 DEF RunsCommand
  <2>2. CASE state_[t] # "EXECUTING"
    BY <1>7, <1>9, <2>2 DEF RunsCommand, Running, atVars
  <2> QED
    BY <2>1, <2>2
<1>10. PICK l : l = Do("front")
  OBVIOUS
<1>11. l \in Labels /\ l.op = "front" /\ Then(<<l>>)
  <2>1. l \in Labels
    BY <1>10, MakeLabel DEF DoOps
  <2> QED
    BY <1>10, <2>1, DoFields DEF CancelTrans
<1>12. Left' = {l}
  BY <1>1, <1>3, <1>4, <1>11, OnlyCall
<1>13. \A m \in Left' : MoveClaim(m)'
  BY <1>11, <1>12, PlainMoves DEF PlainOps
<1>14. StartInv'
  BY <1>11, <1>12, StarterStarts DEF Starter
<1>15. state_'[t] # "EXECUTING"
  BY <1>8
<1>16. \A u \in Trans \ {t} : /\ type_'[u] = type_[u] /\ state_'[u] = state_[u]
                              /\ u \in at_finished_' <=> u \in at_finished_
                              /\ RunsCommand(u) => RunsCommand(u)'
  BY <1>8, <1>9
<1> QED
  BY <1>3, <1>4, <1>5, <1>6, <1>7, <1>13, <1>14, <1>15, <1>16, LeavesMoves
------------------------------------------------------------------------------
(* A query is stopped or dropped.                                          *)

LEMMA StopMoves ==
  ASSUME IInv, ~Crashed, MoveInv, Stop, ~Crashed'
  PROVE  MoveInv'
<1>1. /\ Shape /\ Claims /\ ObjectsInv /\ OwnInv /\ QueueTypeOK /\ DeviceTypeOK /\ Queued \subseteq Trans
      /\ transactions_ \in Seq(Trans) /\ IsInjective(transactions_)
  BY Parts
<1>2. todo # <<>> /\ This.op = "stop"
  BY DEF Stop, At
<1>3. ~Crash
  BY DEF Crash, Crashed
<1>4. PICK q : q = cur_diag_trans_
  OBVIOUS
<1>5. /\ Then(<<>>) /\ m_diag_handler' = NoTrans /\ UNCHANGED <<action_, client_>>
      /\ \/ UNCHANGED <<queueVars, armed, at_finished_, cur_diag_trans_>>
         \/ StopQuery(q) /\ ~Dangling(q)
  BY <1>3, <1>4 DEF Stop, ownVars, atVars
<1>6. Left' = LeftToCallers /\ Left = {This} \cup LeftToCallers
  BY <1>1, <1>2, <1>5, Pop, ShapeIs
<1>7. ~Starter(This) /\ \A l \in Left : Starter(l) \/ l.op \in {"finish", "result", "SUCCESS", "ERROR"} => l \in Left'
  <2>1. ~Starter(This) /\ This.op \notin {"finish", "result", "SUCCESS", "ERROR"}
    BY <1>2 DEF Starter, CallOps
  <2> QED
    BY <1>6, <2>1
<1>8. CASE UNCHANGED <<queueVars, armed, at_finished_, cur_diag_trans_>>
  <2>1. UNCHANGED <<transactions_, type_, state_, armed, at_finished_, cur_diag_trans_>>
    BY <1>8 DEF queueVars
  <2>2. Queued' = Queued /\ \A u : Begun(u) => Begun(u)'
    BY <2>1, SameOrder DEF Begun
  <2>3. StartInv'
    BY <1>7, <2>1, <2>2, StartKept DEF MoveInv
  <2>4. CurrentInv'
    BY <1>1, <2>1, <2>2, CurrentKept DEF MoveInv
  <2>5. ASSUME NEW m \in LeftToCallers
        PROVE  MoveClaim(m)'
    BY <1>1, <2>1, <2>2, SameOrder, CallersMove
  <2> DEFINE X == {}
  <2>6. ASSUME NEW u \in Trans
        PROVE  Goes(u)
    BY <1>5, <1>7, <2>1, NoTransIsNone DEF Goes, RunsCommand, Running
  <2>7. /\ \A u \in Trans \cap X : state_'[u] = "EXECUTING" => WillEnd(u)'
        /\ \A u \in X \cap Queued' : state_'[u] \in Results => Says("SUCCESS", u)' \/ Says("ERROR", u)'
        /\ Queued' \subseteq Queued \cup X /\ Queued' \subseteq Trans
    BY <1>1, <2>2
  <2> HIDE DEF X
  <2>8. \A m \in Left' : MoveClaim(m)'
    BY <1>6, <2>5
  <2> QED
    BY <2>3, <2>4, <2>6, <2>7, <2>8, MoveStep
<1>9. CASE StopQuery(q) /\ ~Dangling(q)
  <2>1. q \in Trans /\ type_[q] \in DiagTypes
    <3>1. q # NoTrans /\ ~Freed(q)
      BY <1>9 DEF Dangling
    <3> QED
      BY <1>1, <1>4, <3>1 DEF DeviceTypeOK, OwnInv, DiagInv, Freed
  <2>2. q \in Queued
    <3>1. \A l \in LeftToCallers : l.t # q
      BY <1>1, <1>2, <2>1, CallersAway
    <3>2. type_[q] # "FREE" /\ ~Detached(This)
      BY <1>2, <2>1, TypesApart DEF Detached
    <3>3. ~\E l \in Left : Detached(l) /\ l.t = q
      BY <1>6, <3>1, <3>2
    <3> QED
      BY <1>1, <2>1, <3>2, <3>3 DEF ObjectsInv
  <2>3. /\ type_[q] = "MEMORY_DUMP" => UNCHANGED <<transactions_, type_, state_, at_finished_>>
        /\ type_[q] # "MEMORY_DUMP" => transactions_' = Without(q) /\ Free(q)
        /\ state_[q] = "EXECUTING" => armed' = armed \ {q} /\ cur_diag_trans_' = NoTrans
        /\ state_[q] # "EXECUTING" => armed' = armed /\ cur_diag_trans_' = q
    BY <1>4, <1>9 DEF StopQuery
  <2>4. /\ type_[q] = "MEMORY_DUMP" => Queued' = Queued
        /\ type_[q] # "MEMORY_DUMP" => Queued' = Queued \ {q}
        /\ \A u, v : Precedes(u, v)' => Precedes(u, v)
    BY <1>1, <2>3, SameOrder, WithoutIs, OrderAfterRemoval
  <2>5. /\ \A u \in Trans \ {q} : /\ type_'[u] = type_[u] /\ state_'[u] = state_[u]
                                  /\ u \in at_finished_' <=> u \in at_finished_
        /\ type_[q] # "MEMORY_DUMP" => state_'[q] = "NOT_BEGIN"
    BY <1>1, <2>1, <2>3, FreeIs
  <2>6. ASSUME NEW u \in Queued', Begun(u)
        PROVE  Begun(u)'
    <3>1. u \in Trans
      BY <1>1, <2>4
    <3>2. CASE u # q
      BY <2>3, <2>5, <2>6, <3>1, <3>2 DEF Begun
    <3>3. CASE u = q
      <4>1. state_' = state_
        BY <2>3, <2>4, <3>3
      <4> QED
        BY <2>3, <2>6, <3>3, <4>1 DEF Begun
    <3> QED
      BY <3>2, <3>3
  <2>7. StartInv'
    <3>1. WillStart
      BY <1>2, <1>6, <2>2 DEF MoveInv, MoveClaim
    <3>2. PICK l \in Left : Starter(l)
      BY <3>1 DEF WillStart
    <3> QED
      BY <1>7, <3>2, StarterStarts
  <2>8. CurrentInv'
    <3>1. CASE state_[q] = "EXECUTING"
      <4>1. cur_diag_trans_' \notin Queued'
        BY <1>1, <2>3, <2>4, <3>1, NoTransIsNone
      <4> QED
        BY <4>1 DEF CurrentInv
    <3>2. CASE state_[q] # "EXECUTING"
      <4>1. Begun(q)
        BY <1>4, <2>2 DEF MoveInv, CurrentInv
      <4>2. q \in Queued' => Begun(q)'
        BY <2>6, <4>1
      <4> QED
        BY <2>3, <3>2, <4>2 DEF CurrentInv, Begun
    <3> QED
      BY <3>1, <3>2
  <2>9. ASSUME NEW m \in LeftToCallers
        PROVE  MoveClaim(m)'
    <3>1. \A u \in Queued' : u \in Queued /\ (Begun(u) => Begun(u)')
      BY <2>4, <2>6
    <3> QED
      BY <1>1, <2>4, <3>1, CallersMove
  <2> DEFINE X == {q}
  <2>10. ASSUME NEW u \in Trans \ X
         PROVE  Goes(u)
    <3>1. u \in armed => u \in armed'
      BY <2>3
    <3>2. m_diag_handler' # u /\ (RunsCommand(u) => RunsCommand(u)')
      BY <1>5, NoTransIsNone DEF RunsCommand, Running
    <3> QED
      BY <1>7, <2>5, <3>1, <3>2 DEF Goes
  <2>11. ASSUME state_'[q] = "EXECUTING"
         PROVE  WillEnd(q)'
    <3>1. type_'[q] \in DiagTypes
      BY <2>1, <2>3, <2>5, <2>11
    <3>2. m_diag_handler' # q
      BY <1>5, <2>1, NoTransIsNone
    <3> QED
      BY <3>1, <3>2 DEF WillEnd, DiagTypes
  <2>12. ASSUME q \in Queued', state_'[q] \in Results
         PROVE  Says("SUCCESS", q)' \/ Says("ERROR", q)'
    <3>1. state_[q] \in Results
      BY <2>3, <2>5, <2>12 DEF Results
    <3>2. Says("SUCCESS", q) \/ Says("ERROR", q)
      BY <2>2, <3>1 DEF MoveInv, EndedInv
    <3> QED
      BY <1>7, <3>2 DEF Says
  <2>13. /\ \A u \in Trans \cap X : state_'[u] = "EXECUTING" => WillEnd(u)'
         /\ \A u \in X \cap Queued' : state_'[u] \in Results => Says("SUCCESS", u)' \/ Says("ERROR", u)'
         /\ Queued' \subseteq Queued \cup X /\ Queued' \subseteq Trans
    BY <1>1, <2>4, <2>11, <2>12
  <2> HIDE DEF X
  <2>14. \A m \in Left' : MoveClaim(m)'
    BY <1>6, <2>9
  <2> QED
    BY <2>7, <2>8, <2>10, <2>13, <2>14, MoveStep
<1> QED
  BY <1>5, <1>8, <1>9

\* The query that is dropped was alone.
LEMMA DropMoves ==
  ASSUME IInv, ~Crashed, MoveInv, DropQuery, ~Crashed'
  PROVE  MoveInv'
<1>1. /\ Shape /\ Claims /\ QueueTypeOK /\ Queued \subseteq Trans
      /\ transactions_ \in Seq(Trans) /\ IsInjective(transactions_)
  BY Parts
<1>2. At({"drop"})
  BY DEF DropQuery
<1>3. todo # <<>> /\ This.op = "drop" /\ This.t \in Trans
  BY <1>1, <1>2, ThisObject DEF ObjectOps
<1>4. PICK q : q = This.t
  OBVIOUS
<1>5. ~Crash
  BY DEF Crash, Crashed
<1>6. /\ transactions_' = Without(q) /\ Free(q) /\ armed' = armed \ {q} /\ Then(<<>>)
      /\ StopDiagTrans \/ UNCHANGED diagVars
      /\ UNCHANGED <<action_, client_>>
  BY <1>4, <1>5 DEF DropQuery, atVars
<1>7. m_diag_handler' \in {m_diag_handler, NoTrans}
  BY <1>6 DEF StopDiagTrans, diagVars
<1>8. Left' = LeftToCallers /\ Left = {This} \cup LeftToCallers
  BY <1>1, <1>3, <1>6, Pop, ShapeIs
<1>9. Queued = {q}
  BY <1>3, <1>4, <1>8 DEF MoveInv, MoveClaim
<1>10. Queued' = {}
  BY <1>1, <1>6, <1>9, WithoutIs
<1>11. CurrentInv' /\ StartInv'
  BY <1>10 DEF CurrentInv, StartInv
<1>12. /\ state_'[q] = "NOT_BEGIN" /\ at_finished_' = at_finished_ \ {q}
       /\ \A u \in Trans \ {q} : type_'[u] = type_[u] /\ state_'[u] = state_[u]
  BY <1>1, <1>3, <1>4, <1>6, FreeIs
<1>13. ASSUME NEW m \in LeftToCallers
       PROVE  MoveClaim(m)'
  <2>1. \A u, v : Precedes(u, v)' => Precedes(u, v)
    BY <1>1, <1>6, OrderAfterRemoval
  <2> QED
    BY <1>1, <1>10, <2>1, CallersMove
<1> DEFINE X == {q}
<1>14. ASSUME NEW u \in Trans \ X
       PROVE  Goes(u)
  <2>1. m_diag_handler' = u => m_diag_handler = u
    BY <1>7, NoTransIsNone
  <2>2. \A l \in Left : l.op \in {"finish", "result", "SUCCESS", "ERROR"} => l \in Left'
    BY <1>3, <1>8
  <2>3. RunsCommand(u) => RunsCommand(u)'
    BY <1>6 DEF RunsCommand, Running
  <2> QED
    BY <1>6, <1>12, <2>1, <2>2, <2>3 DEF Goes
<1>15. /\ \A u \in Trans \cap X : state_'[u] = "EXECUTING" => WillEnd(u)'
       /\ \A u \in X \cap Queued' : state_'[u] \in Results => Says("SUCCESS", u)' \/ Says("ERROR", u)'
       /\ Queued' \subseteq Queued \cup X /\ Queued' \subseteq Trans
  BY <1>10, <1>12
<1> HIDE DEF X
<1>16. \A m \in Left' : MoveClaim(m)'
  BY <1>8, <1>13
<1> QED
  BY <1>11, <1>14, <1>15, <1>16, MoveStep

------------------------------------------------------------------------------
(* Every step.                                                             *)

LEMMA BootMoves == ModemInit => MoveInv
<1> SUFFICES ASSUME ModemInit
             PROVE  MoveInv
  OBVIOUS
<1>1. Queued = {} /\ \A t \in Trans : state_[t] = "NOT_BEGIN"
  BY DEF ModemInit, Queued
<1>2. ExecuteInv /\ EndedInv /\ CurrentInv /\ StartInv
  BY <1>1 DEF ExecuteInv, EndedInv, CurrentInv, StartInv
<1>3. ASSUME NEW l \in Left
      PROVE  MoveClaim(l)
  <2>1. l.op \in {"new", "start"}
    BY BootLabels
  <2> QED
    BY <2>1 DEF MoveClaim, CallOps
<1> QED
  BY <1>2, <1>3 DEF MoveInv

LEMMA StutterMoves ==
  ASSUME MoveInv, UNCHANGED modemVars
  PROVE  MoveInv'
<1>1. UNCHANGED <<todo, transactions_, type_, state_, armed, at_finished_, m_diag_handler, cur_diag_trans_, action_, client_>>
  BY DEF modemVars, transVars, atVars, queueVars, ownVars, diagVars
<1>2. Left' = Left /\ Queued' = Queued /\ \A u, t : Precedes(u, t)' <=> Precedes(u, t)
  BY <1>1, SameOrder DEF Left
<1>3. \A t : (Begun(t)' <=> Begun(t)) /\ (RunsCommand(t)' <=> RunsCommand(t))
  BY <1>1 DEF Begun, RunsCommand, Running
<1>4. ASSUME NEW t \in Trans
      PROVE  Goes(t)
  BY <1>1, <1>2, <1>3 DEF Goes
<1>5. ExecuteInv'
  BY <1>1, <1>4, GoesOn DEF MoveInv, ExecuteInv
<1>6. EndedInv'
  BY <1>1, <1>2 DEF MoveInv, EndedInv, Says
<1>7. CurrentInv'
  BY <1>1, <1>2 DEF MoveInv, CurrentInv, Begun
<1>8. StartInv'
  BY <1>1, <1>2, <1>3 DEF MoveInv, StartInv, WillStart, Starter
<1>9. ASSUME NEW l \in Left'
      PROVE  MoveClaim(l)'
  <2>1. MoveClaim(l)
    BY <1>2 DEF MoveInv
  <2>2. WillStart' <=> WillStart
    BY <1>2 DEF WillStart, Starter
  <2> QED
    BY <1>1, <1>2, <1>3, <2>1, <2>2 DEF MoveClaim, MayRunNow
<1> QED
  BY <1>5, <1>6, <1>7, <1>8, <1>9 DEF MoveInv

LEMMA MainStepMoves ==
  ASSUME IInv, ~Crashed, ~Crashed', MoveInv, MainStep
  PROVE  MoveInv'
<1>1. ASSUME NewTrans \/ NewBegun \/ NewEnded PROVE MoveInv'
  BY <1>1, NewTransMoves, NewBegunMoves, NewEndedMoves
<1>2. ASSUME ExecuteAtOnce \/ ExecuteDiag \/ ExecuteCommand \/ ExecuteLastLog PROVE MoveInv'
  BY <1>2, ExecuteAtOnceMoves, ExecuteDiagMoves, ExecuteCommandMoves, ExecuteLastLogMoves
<1>3. ASSUME Finish \/ Begin \/ Loop \/ FrontStarts \/ LoopReturn PROVE MoveInv'
  BY <1>3, FinishMoves, BeginMoves, LoopMoves, FrontMoves, LoopReturnMoves
<1>4. ASSUME Notify \/ CancelTrans PROVE MoveInv'
  BY <1>4, NotifyMoves, CancelMoves
<1>5. ASSUME EndDump \/ EventMode \/ Start \/ TimeAssert PROVE MoveInv'
  BY <1>5, DoMoves
<1>6. ASSUME CommandResult \/ ExportResult PROVE MoveInv'
  BY <1>6, CommandResultMoves, ExportResultMoves
<1>7. ASSUME Stop \/ DropQuery PROVE MoveInv'
  BY <1>7, StopMoves, DropMoves
<1> QED
  BY <1>1, <1>2, <1>3, <1>4, <1>5, <1>6, <1>7 DEF MainStep

LEMMA NextMoves ==
  ASSUME IInv, ~Crashed => MoveInv, [Next]_modemVars, ~Crashed'
  PROVE  MoveInv'
<1>1. CASE Next
  <2>1. ~Crashed /\ MoveInv
    BY <1>1, CrashedStops
  <2>2. ASSUME MainStep PROVE MoveInv'
    BY <2>1, <2>2, MainStepMoves
  <2>3. ASSUME Answer \/ AtTimeout PROVE MoveInv'
    BY <2>1, <2>3, AnswerMoves
  <2>4. ASSUME DiagTimeout \/ DiagData \/ LastLogTimeout \/ EventLogData PROVE MoveInv'
    BY <2>1, <2>4, DiagMoves, LogTimerMoves
  <2>5. ASSUME TickArrives \/ AtReset \/ RequeryModemVer \/ StartQuery \/ ModemEvent PROVE MoveInv'
    BY <2>1, <2>5, IdleMoves
  <2>6. ASSUME ClientRequest \/ ClientLeaves \/ ProcessAssert \/ ProcessAlive PROVE MoveInv'
    BY <2>1, <2>6, RequestMoves, AssertMoves
  <2> QED
    BY <1>1, <2>2, <2>3, <2>4, <2>5, <2>6 DEF Next
<1>2. CASE UNCHANGED modemVars
  <2>1. ~Crashed
    BY <1>2 DEF Crashed, modemVars, transVars
  <2> QED
    BY <1>2, <2>1, StutterMoves
<1> QED
  BY <1>1, <1>2

\* The queue moves, unless the diag device has gone astray: whatever executes has
\* a timer or a command that will end it, and when something is queued, something
\* in the queue will end and start the next.  The code takes a queue that is not
\* empty for one in which something executes, through callbacks that cancel,
\* finish and begin others while a loop over the queue goes on.
THEOREM QueueGoesOn == Spec => []QueueMoves
<1>1. ModemInit => IInv /\ (~Crashed => MoveInv)
  BY BootInv, BootMoves
<1>2. IInv /\ (~Crashed => MoveInv) /\ [Next]_modemVars => IInv' /\ (~Crashed' => MoveInv')
  BY Inductive, NextMoves
<1>3. IInv /\ (~Crashed => MoveInv) => QueueMoves
  <2> SUFFICES ASSUME IInv, ~Crashed => MoveInv, todo = <<>>, ~Astray
               PROVE  /\ \A t \in Queued : state_[t] = "EXECUTING" => WillFinish(t)
                      /\ transactions_ # <<>> => \E t \in Queued : WillFinish(t)
    BY DEF QueueMoves, ExecutingWillEnd, Idle
  <2>1. ~Crashed /\ MoveInv
    BY DEF Crashed
  <2>2. Left = {} /\ Queued \subseteq Trans /\ QueueTypeOK /\ transactions_ \in Seq(Trans)
    BY <2>1, Parts, NoneToCallers
  <2>3. ASSUME NEW t \in Queued, state_[t] = "EXECUTING"
        PROVE  WillFinish(t)
    <3>1. WillEnd(t)
      BY <2>1, <2>2, <2>3 DEF MoveInv, ExecuteInv
    <3>2. \A op : ~Says(op, t)
      BY <2>2 DEF Says
    <3>3. CASE type_[t] \in DiagTypes
      <4>1. t \in armed \/ m_diag_handler # t
        BY <3>1, <3>2, <3>3 DEF WillEnd, DiagTypes
      <4> QED
        BY <2>3, <3>3, <4>1 DEF Astray, WillFinish
    <3>4. CASE type_[t] \notin DiagTypes
      <4>1. t \in armed \/ RunsCommand(t)
        BY <3>1, <3>2, <3>4 DEF WillEnd
      <4> QED
        BY <4>1 DEF WillFinish, RunsCommand
    <3> QED
      BY <3>3, <3>4
  <2>4. ASSUME transactions_ # <<>>
        PROVE  \E t \in Queued : WillFinish(t)
    <3>1. Queued # {}
      <4>1. 1 \in DOMAIN transactions_
        BY <2>2, <2>4
      <4> QED
        BY <4>1 DEF Queued
    <3>2. ~WillStart /\ ~(cur_diag_trans_ # NoTrans /\ cur_diag_trans_ \notin Queued)
      BY <2>2 DEF WillStart, Astray
    <3>3. PICK t \in Queued : Begun(t)
      BY <2>1, <3>1, <3>2 DEF MoveInv, StartInv
    <3>4. state_[t] \notin Results
      BY <2>1, <2>2 DEF MoveInv, EndedInv, Says
    <3>5. state_[t] = "EXECUTING" \/ t \in armed
      BY <2>2, <3>3, <3>4 DEF Begun, QueueTypeOK, Results
    <3> QED
      BY <2>3, <3>5 DEF WillFinish
  <2> QED
    BY <2>3, <2>4
<1> QED
  BY <1>1, <1>2, <1>3, PTL DEF Spec
=============================================================================
