---------------------------- MODULE LogPipe_proofs ----------------------------
(***************************************************************************)
(* That LogPipe is a client IoScheduler allows, for any number of blocks,  *)
(* files, media and units: LogPipe implements IoScheduler, and what is     *)
(* proved of IoScheduler holds of it.                                      *)
(***************************************************************************)
EXTENDS LogPipe, IoScheduler_proofs

------------------------------------------------------------------------------
(* The inductive invariant.                                                  *)

\* Nothing is in an idle block, nor in one that amends the file (what it writes
\* is not of the stream).
IdleEmpty == \A b \in m_buffers \cup m_amend : content[b] = <<>>

SchedulerInv == Control /\ BuffersAccounted /\ ContentOfBlocks /\ RequestForFile /\ IdleEmpty

\* The first two labels, as far as there are any.
LabelAt(s, i) == IF i \in DOMAIN s THEN s[i] ELSE "end"
First == LabelAt(todo, 1)
Second == LabelAt(todo, 2)

\* What may be left to do after the label l: anywhere, and when l is the first.
Then(l, next) ==
  \/ l \in {"enqueue", "write_create"} /\ next \in {"stor_flush", "end"}
  \/ l = "stor_flush" /\ next \in {"stop", "truncate", "end"}
  \/ l = "stop" /\ next \in {"off", "end"}
  \/ l \in {"off", "truncate", "forget", "update_media", "update_reopen"} /\ next = "end"
  \/ l = "close" /\ next = "forget"

MayFollow(l, next) ==
  \/ Then(l, next)
  \/ l \in {"write", "write_file", "write_failed"} /\ next \in {"stor_flush", "end"}
  \/ l = "open" /\ next \in {"enqueue", "end"}
  \/ l = "stop" /\ next \in {"write_create", "update_media"}
  \/ l \in {"read", "amend", "update", "update_file", "discard"} /\ next = "end"
  \/ l = "pipe_flush" /\ next = "stor_flush"
  \/ l = "sched_flush" /\ next = "close"
  \/ l = "close" /\ next = "update_reopen"

ThenOf(t) == \A i \in 1 .. Len(t) : Then(LabelAt(t, i), LabelAt(t, i + 1))

ShapeOf(s) ==
  /\ s \in Seq(Labels)
  /\ s # <<>> => MayFollow(LabelAt(s, 1), LabelAt(s, 2)) /\ ThenOf(Tail(s))

\* A function of the storage runs in a handler or in the callback; what writes a
\* block runs in a handler.
Writing == {"write", "write_file", "write_create", "enqueue"}

Mode ==
  /\ First # "end" => main \in {"dispatch", "callback"}
  /\ First \in Writing \cup {"pipe_flush", "amend"} \/ Second \in Writing => main = "dispatch"

\* A block is written that the handler has filled.
WriteReady ==
  First \in Writing \/ Second \in Writing => m_buffer \in held /\ content[m_buffer] # <<>>

\* The blocks of the handler: m_buffer, and one for an amendment, which is empty.
BlocksHeld ==
  /\ m_buffer # NoBuffer => m_buffer \in held
  /\ First # "amend" => held \ {m_buffer} = {}
  /\ \A b, c \in held \ {m_buffer} : b = c /\ content[b] = <<>>

\* The scheduler writes to the current file, but between the steps that change
\* both; a file is open on a medium only.
Agree ==
  /\ First = "open" => m_file = NoFile /\ m_cur_file \in Files \ deleted /\ media # NoMedia
  /\ First = "forget" => m_file = NoFile
  /\ First \notin {"open", "close", "forget"} => m_file = CurFile
  /\ First \in {"write_create", "update_media"} => CurFile = NoFile
  /\ First = "close" /\ Second = "update_reopen" => CurFile = NoFile /\ media # NoMedia
  /\ First = "update_reopen" => media # NoMedia
  /\ First = "enqueue" => CurFile # NoFile
  /\ media = NoMedia => CurFile = NoFile \/ First \in {"stop", "sched_flush", "close", "forget"}
  /\ First \in {"update", "update_file"} => CurFile # NoFile /\ m_cur_req.file = CurFile

StorageInv == ShapeOf(todo) /\ Mode /\ Agree

\* The types of the variables of CpStorage and of LogPipe.
StorageTypes ==
  /\ m_cur_file \in used \cup {NoFile}
  /\ m_shall_stop \in BOOLEAN
  /\ media \in Media \cup {NoMedia}
  /\ used \subseteq Files
  /\ deleted \subseteq used

DeviceTypes ==
  /\ dev_open \in BOOLEAN
  /\ registered \in BOOLEAN
  /\ pollin \in BOOLEAN
  /\ reopen_timers \in 0 .. MaxTimers
  /\ pipe_revents \in BOOLEAN

PipeTypes ==
  /\ m_buffer \in Buffers \cup {NoBuffer}
  /\ log_on \in BOOLEAN
  /\ working \in BOOLEAN
  /\ DeviceTypes

PathInv ==
  /\ SchedulerInv
  /\ StorageTypes /\ StorageInv
  /\ PipeTypes /\ WriteReady /\ BlocksHeld

------------------------------------------------------------------------------
(* What is left to do, when a label is replaced by others.                   *)

LEMMA Ends == "end" \notin Labels
  BY DEF Labels

LEMMA LabelsOf ==
  ASSUME NEW s \in Seq(Labels)
  PROVE  /\ Len(s) \in Nat
         /\ \A i \in 1 .. Len(s) : LabelAt(s, i) = s[i] /\ LabelAt(s, i) \in Labels
         /\ \A i \in Nat : i \notin 1 .. Len(s) => LabelAt(s, i) = "end"
         /\ s = <<>> <=> LabelAt(s, 1) = "end"
         /\ s # <<>> => Head(s) = LabelAt(s, 1)
<1>1. Len(s) \in Nat /\ DOMAIN s = 1 .. Len(s)
  BY LenProperties
<1>2. \A i \in 1 .. Len(s) : s[i] \in Labels
  BY ElementOfSeq
<1>3. s = <<>> <=> Len(s) = 0
  BY EmptySeq, SeqEqual
<1>4. s # <<>> => Head(s) = s[1]
  BY HeadTailProperties
<1> QED
  BY <1>1, <1>2, <1>3, <1>4, Ends DEF LabelAt

LEMMA LabelsOfTail ==
  ASSUME NEW s \in Seq(Labels), s # <<>>
  PROVE  /\ Tail(s) \in Seq(Labels) /\ Len(s) \in Nat \ {0} /\ Len(Tail(s)) = Len(s) - 1
         /\ \A i \in Nat \ {0} : LabelAt(Tail(s), i) = LabelAt(s, i + 1)
<1>1. Len(s) \in Nat \ {0}
  BY LabelsOf, EmptySeq, SeqEqual
<1>2. /\ Tail(s) \in Seq(Labels) /\ Len(Tail(s)) = Len(s) - 1
      /\ \A i \in 1 .. Len(Tail(s)) : Tail(s)[i] = s[i + 1]
  BY HeadTailProperties
<1>3. DOMAIN s = 1 .. Len(s) /\ DOMAIN Tail(s) = 1 .. Len(s) - 1
  BY <1>2, LenProperties
<1> QED
  BY <1>1, <1>2, <1>3 DEF LabelAt

LEMMA LabelsOfPrefixed ==
  ASSUME NEW a \in Labels, NEW t \in Seq(Labels)
  PROVE  LET s == <<a>> \o t
         IN /\ s \in Seq(Labels) /\ s # <<>> /\ Tail(s) = t /\ Len(s) = Len(t) + 1
            /\ LabelAt(s, 1) = a
            /\ \A i \in Nat \ {0} : LabelAt(s, i + 1) = LabelAt(t, i)
<1> DEFINE s == <<a>> \o t
<1>1. <<a>> \in Seq(Labels) /\ Len(<<a>>) = 1 /\ <<a>>[1] = a
  OBVIOUS
<1>2. Len(t) \in Nat /\ DOMAIN t = 1 .. Len(t)
  BY LenProperties
<1>3. /\ s \in Seq(Labels) /\ Len(s) = Len(t) + 1
      /\ \A i \in 1 .. Len(t) + 1 : s[i] = IF i <= 1 THEN <<a>>[i] ELSE t[i - 1]
  BY <1>1, <1>2, ConcatProperties
<1>4. DOMAIN s = 1 .. Len(t) + 1 /\ s # <<>>
  BY <1>2, <1>3, LenProperties, EmptySeq
<1> HIDE DEF s
<1>5. LabelAt(s, 1) = a
  BY <1>1, <1>2, <1>3, <1>4 DEF LabelAt
<1>6. \A i \in 1 .. Len(t) : s[i + 1] = t[i]
  BY <1>2, <1>3
<1>7. \A i \in Nat \ {0} : LabelAt(s, i + 1) = LabelAt(t, i)
  BY <1>2, <1>4, <1>6 DEF LabelAt
<1>8. Tail(s) = t
  <2>1. /\ Tail(s) \in Seq(Labels) /\ Len(Tail(s)) = Len(s) - 1
        /\ \A i \in 1 .. Len(Tail(s)) : Tail(s)[i] = s[i + 1]
    BY <1>3, <1>4, HeadTailProperties
  <2> QED
    BY <1>2, <1>3, <1>6, <2>1, SeqEqual
<1> QED
  BY <1>3, <1>4, <1>5, <1>7, <1>8 DEF s

\* What is left after the first label is left still.
LEMMA Popped ==
  ASSUME NEW t \in Seq(Labels), ThenOf(t), todo' = t
  PROVE  /\ ShapeOf(todo')
         /\ First' = LabelAt(t, 1)
         /\ First' # "end" => Then(First', Second')
         /\ First' = "end" => Second' = "end"
<1>1. First' = LabelAt(t, 1) /\ Second' = LabelAt(t, 2)
  BY DEF First, Second
<1>2. CASE t = <<>>
  <2>1. Len(t) = 0 /\ 1 \notin 1 .. 0 /\ 2 \notin 1 .. 0
    BY <1>2
  <2>2. LabelAt(t, 1) = "end" /\ LabelAt(t, 2) = "end"
    BY <2>1, LabelsOf
  <2> QED
    BY <1>1, <1>2, <2>2 DEF ShapeOf
<1>3. CASE t # <<>>
  <2>1. /\ Tail(t) \in Seq(Labels) /\ Len(t) \in Nat \ {0} /\ Len(Tail(t)) = Len(t) - 1
        /\ \A i \in Nat \ {0} : LabelAt(Tail(t), i) = LabelAt(t, i + 1)
    BY <1>3, LabelsOfTail
  <2>2. Then(LabelAt(t, 1), LabelAt(t, 2)) /\ LabelAt(t, 1) # "end"
    BY <1>3, <2>1, LabelsOf DEF ThenOf
  <2>3. ThenOf(Tail(t))
    <3>1. SUFFICES ASSUME NEW i \in 1 .. Len(Tail(t))
                   PROVE  Then(LabelAt(Tail(t), i), LabelAt(Tail(t), i + 1))
      BY DEF ThenOf
    <3>2. i + 1 \in 1 .. Len(t) /\ i \in Nat \ {0} /\ i + 1 \in Nat \ {0}
      BY <2>1
    <3>3. Then(LabelAt(t, i + 1), LabelAt(t, i + 1 + 1))
      BY <3>2 DEF ThenOf
    <3> QED
      BY <2>1, <3>2, <3>3
  <2> QED
    BY <1>1, <1>3, <2>2, <2>3 DEF ShapeOf, MayFollow
<1> QED
  BY <1>2, <1>3

LEMMA Pushed ==
  ASSUME NEW t \in Seq(Labels), ThenOf(t), NEW a \in Labels
  PROVE  /\ <<a>> \o t \in Seq(Labels)
         /\ LabelAt(<<a>> \o t, 1) = a
         /\ Then(a, LabelAt(t, 1)) => ThenOf(<<a>> \o t)
         /\ MayFollow(a, LabelAt(t, 1)) /\ todo' = <<a>> \o t =>
              ShapeOf(todo') /\ First' = a /\ Second' = LabelAt(t, 1)
<1> DEFINE s == <<a>> \o t
<1>1. /\ s \in Seq(Labels) /\ s # <<>> /\ Tail(s) = t /\ Len(s) = Len(t) + 1
      /\ LabelAt(s, 1) = a
      /\ \A i \in Nat \ {0} : LabelAt(s, i + 1) = LabelAt(t, i)
  BY LabelsOfPrefixed
<1>2. Len(t) \in Nat
  BY LabelsOf
<1> HIDE DEF s
<1>3. LabelAt(s, 2) = LabelAt(t, 1)
  <2>1. 1 \in Nat \ {0} /\ 1 + 1 = 2
    OBVIOUS
  <2> QED
    BY <1>1, <2>1
<1>4. ASSUME Then(a, LabelAt(t, 1)) PROVE ThenOf(s)
  <2>1. SUFFICES ASSUME NEW i \in 1 .. Len(t) + 1 PROVE Then(LabelAt(s, i), LabelAt(s, i + 1))
    BY <1>1 DEF ThenOf
  <2>2. CASE i = 1
    BY <1>1, <1>3, <1>4, <2>2
  <2>3. CASE i # 1
    <3>1. i - 1 \in 1 .. Len(t) /\ i - 1 \in Nat \ {0} /\ i \in Nat \ {0} /\ (i - 1) + 1 = i
      BY <1>2, <2>3
    <3>2. Then(LabelAt(t, i - 1), LabelAt(t, (i - 1) + 1))
      BY <3>1 DEF ThenOf
    <3>3. LabelAt(s, (i - 1) + 1) = LabelAt(t, i - 1) /\ LabelAt(s, i + 1) = LabelAt(t, i)
      BY <1>1, <3>1
    <3> QED
      BY <3>1, <3>2, <3>3
  <2> QED
    BY <2>2, <2>3
<1>5. ASSUME MayFollow(a, LabelAt(t, 1)), todo' = s
      PROVE  ShapeOf(todo') /\ First' = a /\ Second' = LabelAt(t, 1)
  BY <1>1, <1>3, <1>5 DEF ShapeOf, First, Second
<1> QED
  BY <1>1, <1>4, <1>5 DEF s

LEMMA NothingLeft ==
  /\ <<>> \in Seq(Labels) /\ ThenOf(<<>>) /\ LabelAt(<<>>, 1) = "end"
  /\ ShapeOf(todo) /\ todo = <<>> => First = "end" /\ Second = "end"
<1>1. Len(<<>>) = 0 /\ <<>> \in Seq(Labels) /\ 1 \notin 1 .. 0 /\ 2 \notin 1 .. 0
  BY EmptySeq
<1>2. LabelAt(<<>>, 1) = "end" /\ LabelAt(<<>>, 2) = "end"
  BY <1>1, LabelsOf
<1> QED
  BY <1>1, <1>2 DEF ThenOf, First, Second

\* The label called, and the labels after it.
LEMMA Called ==
  ASSUME ShapeOf(todo), NEW l, Call(l)
  PROVE  /\ First = l /\ MayFollow(l, Second) /\ l \in Labels
         /\ Tail(todo) \in Seq(Labels) /\ ThenOf(Tail(todo)) /\ LabelAt(Tail(todo), 1) = Second
<1>1. todo \in Seq(Labels) /\ todo # <<>> /\ Head(todo) = l
  BY DEF ShapeOf, Call
<1>2. First = l /\ l \in Labels
  BY <1>1, LabelsOf, LabelsOfTail DEF First
<1>3. LabelAt(Tail(todo), 1) = Second
  BY <1>1, LabelsOfTail DEF Second
<1> QED
  BY <1>1, <1>2, <1>3, LabelsOfTail DEF ShapeOf, First, Second

LEMMA Continue0 ==
  ASSUME ShapeOf(todo), NEW l, Call(l), Continue(<<>>)
  PROVE  /\ ShapeOf(todo') /\ First' = Second
         /\ First' # "end" => Then(First', Second')
         /\ First' = "end" => Second' = "end"
<1>1. Tail(todo) \in Seq(Labels) /\ ThenOf(Tail(todo)) /\ LabelAt(Tail(todo), 1) = Second
  BY Called
<1>2. todo' = Tail(todo)
  BY <1>1, ConcatEmptySeq DEF Continue
<1> QED
  BY <1>1, <1>2, Popped

LEMMA Continue1 ==
  ASSUME ShapeOf(todo), NEW l, Call(l), NEW a \in Labels, Continue(<<a>>), MayFollow(a, Second)
  PROVE  ShapeOf(todo') /\ First' = a /\ Second' = Second
BY Called, Pushed DEF Continue

LEMMA SamePair ==
  ASSUME NEW S, NEW s \in Seq(S), NEW t \in Seq(S),
         Len(s) = 2, Len(t) = 2, s[1] = t[1], s[2] = t[2]
  PROVE  s = t
<1>1. \A i \in 1 .. 2 : i = 1 \/ i = 2
  OBVIOUS
<1>2. \A i \in 1 .. Len(s) : s[i] = t[i]
  BY <1>1
<1> QED
  BY <1>2, SeqEqual

LEMMA PairOf ==
  ASSUME NEW a \in Labels, NEW b \in Labels
  PROVE  <<a>> \o <<b>> = <<a, b>>
<1> DEFINE p == <<a>> \o <<b>>
           q == <<a, b>>
<1>1. /\ <<a>> \in Seq(Labels) /\ <<b>> \in Seq(Labels) /\ q \in Seq(Labels)
      /\ Len(<<a>>) = 1 /\ Len(<<b>>) = 1 /\ Len(q) = 2
      /\ <<a>>[1] = a /\ <<b>>[1] = b /\ q[1] = a /\ q[2] = b
  OBVIOUS
<1>2. /\ p \in Seq(Labels) /\ Len(p) = 1 + 1
      /\ \A i \in 1 .. 1 + 1 : p[i] = IF i <= 1 THEN <<a>>[i] ELSE <<b>>[i - 1]
  BY <1>1, ConcatProperties
<1>3. p[1] = a /\ p[2] = b
  BY <1>1, <1>2
<1> HIDE DEF p, q
<1>4. p = q
  BY <1>1, <1>2, <1>3, SamePair
<1> QED
  BY <1>4 DEF p, q

LEMMA Join2 ==
  ASSUME NEW a \in Labels, NEW b \in Labels, NEW t \in Seq(Labels)
  PROVE  <<a, b>> \o t = <<a>> \o (<<b>> \o t)
<1>1. <<a>> \in Seq(Labels) /\ <<b>> \in Seq(Labels)
  OBVIOUS
<1>2. <<a, b>> = <<a>> \o <<b>>
  BY PairOf
<1>3. (<<a>> \o <<b>>) \o t = <<a>> \o (<<b>> \o t)
  BY <1>1, ConcatAssociative
<1> QED
  BY <1>2, <1>3

LEMMA Continue2 ==
  ASSUME ShapeOf(todo), NEW l, Call(l), NEW a \in Labels, NEW b \in Labels, Continue(<<a, b>>),
         MayFollow(a, b), Then(b, Second)
  PROVE  ShapeOf(todo') /\ First' = a /\ Second' = b
<1>1. Tail(todo) \in Seq(Labels) /\ ThenOf(Tail(todo)) /\ LabelAt(Tail(todo), 1) = Second
  BY Called
<1>2. todo' = <<a>> \o (<<b>> \o Tail(todo))
  BY <1>1, Join2 DEF Continue
<1>3. <<b>> \o Tail(todo) \in Seq(Labels) /\ ThenOf(<<b>> \o Tail(todo))
      /\ LabelAt(<<b>> \o Tail(todo), 1) = b
  BY <1>1, Pushed
<1> QED
  BY <1>2, <1>3, Pushed

\* The lists of labels a handler begins with.
LEMMA ThenOfList ==
  ASSUME NEW b, NEW c, NEW d
  PROVE  /\ ThenOf(<<>>)
         /\ Then(b, "end") => ThenOf(<<b>>)
         /\ Then(b, c) /\ Then(c, "end") => ThenOf(<<b, c>>)
         /\ Then(b, c) /\ Then(c, d) /\ Then(d, "end") => ThenOf(<<b, c, d>>)
<1>1. ThenOf(<<>>)
  BY DEF ThenOf
<1>2. ASSUME Then(b, "end") PROVE ThenOf(<<b>>)
  <2>1. Len(<<b>>) = 1 /\ (\A i \in 1 .. 1 : i = 1)
    OBVIOUS
  <2>2. LabelAt(<<b>>, 1) = b /\ LabelAt(<<b>>, 2) = "end"
    BY DEF LabelAt
  <2>3. ASSUME NEW i \in 1 .. 1 PROVE Then(LabelAt(<<b>>, i), LabelAt(<<b>>, i + 1))
    <3>1. CASE i = 1
      <4>1. i + 1 = 2
        BY <3>1
      <4> QED
        BY <1>2, <2>2, <3>1, <4>1
    <3> QED
      BY <2>1, <3>1
  <2> QED
    BY <2>1, <2>3 DEF ThenOf
<1>3. ASSUME Then(b, c), Then(c, "end") PROVE ThenOf(<<b, c>>)
  <2>1. Len(<<b, c>>) = 2 /\ (\A i \in 1 .. 2 : i = 1 \/ i = 2)
    OBVIOUS
  <2>2. LabelAt(<<b, c>>, 1) = b /\ LabelAt(<<b, c>>, 2) = c /\ LabelAt(<<b, c>>, 3) = "end"
    BY DEF LabelAt
  <2>3. ASSUME NEW i \in 1 .. 2 PROVE Then(LabelAt(<<b, c>>, i), LabelAt(<<b, c>>, i + 1))
    <3>1. CASE i = 1
      <4>1. i + 1 = 2
        BY <3>1
      <4> QED
        BY <1>3, <2>2, <3>1, <4>1
    <3>2. CASE i = 2
      <4>1. i + 1 = 3
        BY <3>2
      <4> QED
        BY <1>3, <2>2, <3>2, <4>1
    <3> QED
      BY <2>1, <3>1, <3>2
  <2> QED
    BY <2>1, <2>3 DEF ThenOf
<1>4. ASSUME Then(b, c), Then(c, d), Then(d, "end") PROVE ThenOf(<<b, c, d>>)
  <2>1. Len(<<b, c, d>>) = 3 /\ (\A i \in 1 .. 3 : i = 1 \/ i = 2 \/ i = 3)
    OBVIOUS
  <2>2. LabelAt(<<b, c, d>>, 1) = b /\ LabelAt(<<b, c, d>>, 2) = c /\ LabelAt(<<b, c, d>>, 3) = d /\ LabelAt(<<b, c, d>>, 4) = "end"
    BY DEF LabelAt
  <2>3. ASSUME NEW i \in 1 .. 3 PROVE Then(LabelAt(<<b, c, d>>, i), LabelAt(<<b, c, d>>, i + 1))
    <3>1. CASE i = 1
      <4>1. i + 1 = 2
        BY <3>1
      <4> QED
        BY <1>4, <2>2, <3>1, <4>1
    <3>2. CASE i = 2
      <4>1. i + 1 = 3
        BY <3>2
      <4> QED
        BY <1>4, <2>2, <3>2, <4>1
    <3>3. CASE i = 3
      <4>1. i + 1 = 4
        BY <3>3
      <4> QED
        BY <1>4, <2>2, <3>3, <4>1
    <3> QED
      BY <2>1, <3>1, <3>2, <3>3
  <2> QED
    BY <2>1, <2>3 DEF ThenOf
<1> QED
  BY <1>1, <1>2, <1>3, <1>4

LEMMA TailOfList ==
  ASSUME NEW a, NEW b, NEW c, NEW d
  PROVE  /\ Tail(<<a>>) = <<>>
         /\ Tail(<<a, b>>) = <<b>>
         /\ Tail(<<a, b, c>>) = <<b, c>>
         /\ Tail(<<a, b, c, d>>) = <<b, c, d>>
OBVIOUS

\* A handler begins with a list.
LEMMA Begins ==
  ASSUME NEW a \in Labels, NEW t \in Seq(Labels), ThenOf(t), MayFollow(a, LabelAt(t, 1)),
         todo' \in Seq(Labels), todo' # <<>>, Tail(todo') = t, LabelAt(todo', 1) = a
  PROVE  ShapeOf(todo') /\ First' = a /\ Second' = LabelAt(t, 1)
<1>1. LabelAt(t, 1) = LabelAt(todo', 2)
  <2>1. \A i \in Nat \ {0} : LabelAt(t, i) = LabelAt(todo', i + 1)
    BY LabelsOfTail
  <2> QED
    BY <2>1
<1> QED
  BY <1>1 DEF ShapeOf, First, Second

LEMMA Begin1 ==
  ASSUME NEW a \in Labels, MayFollow(a, "end"), todo' = <<a>>
  PROVE  ShapeOf(todo') /\ First' = a /\ Second' = "end"
<1>1. todo' \in Seq(Labels) /\ todo' # <<>> /\ LabelAt(todo', 1) = a
  BY DEF LabelAt
<1>2. Tail(todo') = <<>>
  BY TailOfList
<1> QED
  BY <1>1, <1>2, NothingLeft, Begins

LEMMA Begin2 ==
  ASSUME NEW a \in Labels, NEW b \in Labels, MayFollow(a, b), Then(b, "end"), todo' = <<a, b>>
  PROVE  ShapeOf(todo') /\ First' = a /\ Second' = b
<1>1. todo' \in Seq(Labels) /\ todo' # <<>> /\ LabelAt(todo', 1) = a
  BY DEF LabelAt
<1>2. Tail(todo') = <<b>> /\ <<b>> \in Seq(Labels) /\ LabelAt(<<b>>, 1) = b
  BY TailOfList DEF LabelAt
<1> QED
  BY <1>1, <1>2, ThenOfList, Begins

LEMMA Begin3 ==
  ASSUME NEW a \in Labels, NEW b \in Labels, NEW c \in Labels,
         MayFollow(a, b), Then(b, c), Then(c, "end"), todo' = <<a, b, c>>
  PROVE  ShapeOf(todo') /\ First' = a /\ Second' = b
<1>1. todo' \in Seq(Labels) /\ todo' # <<>> /\ LabelAt(todo', 1) = a
  BY DEF LabelAt
<1>2. Tail(todo') = <<b, c>> /\ <<b, c>> \in Seq(Labels) /\ LabelAt(<<b, c>>, 1) = b
  BY TailOfList DEF LabelAt
<1> QED
  BY <1>1, <1>2, ThenOfList, Begins

LEMMA Begin4 ==
  ASSUME NEW a \in Labels, NEW b \in Labels, NEW c \in Labels, NEW d \in Labels,
         MayFollow(a, b), Then(b, c), Then(c, d), Then(d, "end"), todo' = <<a, b, c, d>>
  PROVE  ShapeOf(todo') /\ First' = a /\ Second' = b
<1>1. todo' \in Seq(Labels) /\ todo' # <<>> /\ LabelAt(todo', 1) = a
  BY DEF LabelAt
<1>2. Tail(todo') = <<b, c, d>> /\ <<b, c, d>> \in Seq(Labels) /\ LabelAt(<<b, c, d>>, 1) = b
  BY TailOfList DEF LabelAt
<1> QED
  BY <1>1, <1>2, ThenOfList, Begins

\* The last call of a handler, replaced by a list.
LEMMA LastCalled ==
  ASSUME ShapeOf(todo), NEW l, Call(l), Second = "end"
  PROVE  Tail(todo) = <<>>
<1>1. Tail(todo) \in Seq(Labels) /\ LabelAt(Tail(todo), 1) = "end"
  BY Called
<1> QED
  BY <1>1, LabelsOf

LEMMA Continue3 ==
  ASSUME ShapeOf(todo), NEW l, Call(l), Second = "end",
         NEW a \in Labels, NEW b \in Labels, NEW c \in Labels, Continue(<<a, b, c>>),
         MayFollow(a, b), Then(b, c), Then(c, "end")
  PROVE  ShapeOf(todo') /\ First' = a /\ Second' = b
<1>1. <<a, b, c>> \in Seq(Labels) /\ Tail(todo) = <<>>
  BY LastCalled
<1>2. todo' = <<a, b, c>>
  BY <1>1, ConcatEmptySeq DEF Continue
<1> QED
  BY <1>2, Begin3

------------------------------------------------------------------------------
(* The scheduler: two invariants more, which its other clients share.        *)

LEMMA FileOfRequest ==
  ASSUME m_cur_req \in Requests, Request(m_file), m_file' = m_file
  PROVE  RequestForFile'
BY DEF Request, Requests, RequestForFile

LEMMA RequestForFileStep ==
  ASSUME SchedulerInv, [Next]_vars
  PROVE  RequestForFile'
<1>1. m_cur_req \in Requests
  BY DEF SchedulerInv, Control, ControlTypeOK, ChanControlTypeOK, Requests
<1>2. CASE UNCHANGED vars
  BY <1>2 DEF SchedulerInv, RequestForFile, vars, chanVars, schedVars
<1>3. CASE Next /\ m_state = "IS_EXECUTING"
  BY <1>3, UndisturbedStep DEF SchedulerInv, RequestForFile, Undisturbed
<1>4. CASE Next /\ m_state # "IS_EXECUTING"
  <2>1. CASE m_state' # "IS_EXECUTING"
    BY <2>1 DEF RequestForFile
  <2>2. CASE UNCHANGED chanVars \/ UNCHANGED m_state
    BY <1>4, <2>2 DEF RequestForFile, chanVars
  <2>3. ASSUME NEW data, NEW amend, CommitAll(data, amend) \/ CommitData(data, amend), m_file' = m_file
        PROVE  RequestForFile'
    BY <1>1, <2>2, <2>3, FileOfRequest DEF CommitAll, CommitData
  <2>4. CASE \E b \in Buffers : Fill(b) \/ Drop(b) \/ FreeBuffer(b)
    BY <2>2, <2>4 DEF Fill, Drop, FreeBuffer
  <2>5. ASSUME NEW b \in Buffers, Enqueue(b) PROVE RequestForFile'
    <3>1. PICK data, amend : PutInQueue(data, amend) /\ m_file' = m_file
      BY <2>5 DEF Enqueue, EnqueueData, EnqueueOffset
    <3> QED
      BY <2>2, <2>3, <3>1 DEF PutInQueue
  <2>6. CASE GetFreeBuffer \/ DiscardQueue \/ Flush \/ Stop \/ (\E f \in Files : Open(f))
    BY <2>2, <2>6 DEF GetFreeBuffer, DiscardQueue, Flush, Stop, SendQuit, Open, SetFile
  <2>7. CASE Close \/ FlushSettle \/ FlushAwait \/ OnIoDone
    BY <2>1, <2>2, <2>7 DEF Close, FlushSettle, FlushAwait, OnIoDone, WaitIo, ReadResult
  <2>8. CASE FlushCommit \/ CallbackDone
    BY <2>2, <2>3, <2>8 DEF FlushCommit, CallbackDone
  <2>9. CASE Poll \/ EndRound \/ Process \/ Join \/ FlushReport \/ ThreadStep
    BY <2>2, <2>9 DEF Poll, EndRound, Process, Join, FlushReport, ThreadStep,
                      IoThread, ThreadRead, ThreadWrite, ThreadRespond
  <2> QED
    BY <1>4, <2>4, <2>5, <2>6, <2>7, <2>8, <2>9 DEF Next, LoopStep, FlushStep
<1> QED
  BY <1>2, <1>3, <1>4

\* What process_io_result() leaves in the blocks.
LEMMA ResultContent ==
  ASSUME ControlTypeOK, BuffersAccounted, NEW amend \in SUBSET m_amend, ProcessIoResult(amend)
  PROVE  /\ \A b \in held : content'[b] = content[b]
         /\ IdleEmpty => IdleEmpty'
<1> DEFINE k == BlocksDone
           done == SubSeq(m_data_written, 1, k)
           rest == SubSeq(m_data_written, k + 1, Len(m_data_written))
           freed == Range(done) \cup (m_amend \ amend)
<1>1. m_data_written \in Seq(Buffers) /\ m_amend \subseteq Buffers /\ held \subseteq Buffers
      /\ m_buffers \subseteq Buffers
  BY DEF ControlTypeOK, ChanControlTypeOK
<1>2. k \in 0 .. Len(m_data_written)
  BY <1>1, BlocksDoneType
<1>3. /\ m_amend' = amend
      /\ m_buffers' = m_buffers \cup freed
      /\ \A b \in Buffers :
           /\ b \in freed => content'[b] = <<>>
           /\ b \notin freed /\ ~(rest # <<>> /\ b = rest[1]) => content'[b] = content[b]
  BY DEF ProcessIoResult, BlocksDone
<1>4. rest # <<>> => rest[1] \in Range(m_data_written)
  <2> SUFFICES ASSUME rest # <<>> PROVE rest[1] \in Range(m_data_written)
    OBVIOUS
  <2>1. rest \in Seq(Buffers) /\ Range(rest) \subseteq Range(m_data_written)
    <3> HIDE DEF k
    <3> QED
      BY <1>1, <1>2, RangeOfParts
  <2> HIDE DEF rest
  <2>2. 1 \in DOMAIN rest
    BY <2>1, LenProperties, EmptySeq, SeqEqual
  <2> QED
    BY <2>1, <2>2 DEF Range
<1>5. Range(done) \subseteq Range(m_data_written)
  <2> HIDE DEF k
  <2> QED
    BY <1>1, <1>2, RangeOfParts
<1> HIDE DEF rest, done, k
<1>6. Accounted(m_buffers, held, m_data, m_amend, m_data_written)
  BY AccountedParts
<1>7. \A b \in m_buffers \cup held \cup amend :
        b \in Buffers /\ b \notin freed /\ ~(rest # <<>> /\ b = rest[1])
  BY <1>1, <1>4, <1>5, <1>6 DEF Accounted
<1>8. \A b \in freed : b \in Buffers
  <2>1. Range(m_data_written) \subseteq Buffers
    BY <1>1, RangeOfSeq
  <2> QED
    BY <1>1, <1>5, <2>1
<1> HIDE DEF freed
<1> QED
  BY <1>3, <1>7, <1>8 DEF IdleEmpty

LEMMA CommitEmpty ==
  ASSUME IdleEmpty, NEW data, NEW amend, \A b \in amend : content[b] = <<>>,
         CommitAll(data, amend) \/ CommitData(data, amend), content' = content
  PROVE  IdleEmpty'
<1>1. m_amend' = {} /\ m_buffers' = m_buffers \cup amend
  BY DEF CommitAll, CommitData
<1> QED
  BY <1>1 DEF IdleEmpty

LEMMA IdleEmptyStep ==
  ASSUME SchedulerInv, [Next]_vars
  PROVE  IdleEmpty'
<1>1. /\ Control /\ ControlTypeOK /\ BuffersAccounted /\ IdleEmpty /\ DOMAIN content = Buffers
      /\ m_amend \in SUBSET m_amend /\ {} \in SUBSET m_amend
      /\ m_buffers \cup m_amend \cup held \cup Range(m_data) \subseteq Buffers
      /\ (m_buffers \cup m_amend) \cap held = {}
      /\ (m_buffers \cup m_amend) \cap Range(m_data) = {}
  <2>1. Range(m_data) \subseteq Buffers
    BY RangeOfSeq DEF SchedulerInv, Control, ControlTypeOK
  <2>2. (m_buffers \cup m_amend) \cap held = {} /\ (m_buffers \cup m_amend) \cap Range(m_data) = {}
    BY AccountedParts DEF SchedulerInv, Accounted
  <2> QED
    BY <2>1, <2>2 DEF SchedulerInv, Control, ControlTypeOK, ContentOfBlocks
<1>2. CASE UNCHANGED <<m_buffers, m_amend, content>>
  BY <1>1, <1>2 DEF IdleEmpty
<1>3. ASSUME NEW S \in SUBSET Buffers, content' = Emptied(S),
             m_buffers' \cup m_amend' \subseteq m_buffers \cup m_amend \cup S
      PROVE  IdleEmpty'
  BY <1>1, <1>3 DEF IdleEmpty, Emptied
<1>4. CASE GetFreeBuffer
  BY <1>1, <1>4 DEF GetFreeBuffer, IdleEmpty
<1>5. ASSUME NEW b \in Buffers, Fill(b) \/ Drop(b) \/ FreeBuffer(b) PROVE IdleEmpty'
  <2>1. b \in held /\ b \notin m_buffers \cup m_amend
    BY <1>1, <1>5 DEF Fill, Drop, FreeBuffer
  <2>2. CASE Fill(b)
    BY <1>1, <2>1, <2>2 DEF Fill, IdleEmpty
  <2>3. CASE Drop(b) \/ FreeBuffer(b)
    BY <1>3, <2>3 DEF Drop, FreeBuffer
  <2> QED
    BY <1>5, <2>2, <2>3
<1>6. ASSUME NEW b \in Buffers, Enqueue(b) PROVE IdleEmpty'
  <2>1. PICK data, amend : PutInQueue(data, amend) /\ amend \subseteq m_amend \cup {x \in {b} : content[x] = <<>>}
    BY <1>6 DEF Enqueue, EnqueueData, EnqueueOffset
  <2>2. content' = content /\ \A x \in amend : content[x] = <<>>
    BY <1>1, <1>6, <2>1 DEF Enqueue, EnqueueData, EnqueueOffset, IdleEmpty
  <2>3. CASE m_data_written = <<>>
    BY <1>1, <2>1, <2>2, <2>3, CommitEmpty DEF PutInQueue
  <2>4. CASE m_data_written # <<>>
    BY <1>1, <2>1, <2>2, <2>4 DEF PutInQueue, IdleEmpty
  <2> QED
    BY <2>3, <2>4
<1>7. CASE DiscardQueue
  BY <1>1, <1>3, <1>7 DEF DiscardQueue
<1>8. CASE Close \/ FlushSettle \/ FlushAwait \/ OnIoDone
  BY <1>1, <1>2, <1>8, ResultContent DEF Close, FlushSettle, FlushAwait, OnIoDone
<1>9. CASE FlushCommit \/ CallbackDone
  <2>1. \A b \in m_amend : content[b] = <<>>
    BY <1>1 DEF IdleEmpty
  <2>2. content' = content
    BY <1>9 DEF FlushCommit, CallbackDone
  <2>3. CommitAll(m_data, m_amend) \/ CommitData(m_data, m_amend) \/ UNCHANGED <<m_buffers, m_amend>>
    BY <1>9 DEF FlushCommit, CallbackDone
  <2> QED
    BY <1>1, <1>2, <2>1, <2>2, <2>3, CommitEmpty
<1>10. CASE \/ Poll \/ EndRound \/ Process \/ Join \/ Stop \/ Flush \/ FlushReport \/ ThreadStep
            \/ (\E f \in Files : Open(f)) \/ UNCHANGED vars
  BY <1>2, <1>10 DEF Poll, EndRound, Process, Join, Stop, Flush, FlushReport, ThreadStep, Open, SetFile,
                     IoThread, ThreadRead, ThreadWrite, ThreadRespond, schedVars, vars
<1> QED
  BY <1>4, <1>5, <1>6, <1>7, <1>8, <1>9, <1>10 DEF Next, LoopStep, FlushStep

LEMMA SchedulerInvStep ==
  ASSUME SchedulerInv, [Next]_vars
  PROVE  SchedulerInv'
BY ControlStep, AccountedStep, ContentStep, RequestForFileStep, IdleEmptyStep DEF SchedulerInv

LEMMA SchedulerInvInit == Init => SchedulerInv
<1> SUFFICES ASSUME Init PROVE SchedulerInv
  OBVIOUS
<1>1. Control
  BY ControlInit
<1>2. BuffersAccounted
  BY NoBlocks DEF Init, ChanInit, BuffersAccounted
<1>3. ContentOfBlocks /\ RequestForFile /\ IdleEmpty
  BY DEF Init, ChanInit, ContentOfBlocks, RequestForFile, IdleEmpty
<1> QED
  BY <1>1, <1>2, <1>3 DEF SchedulerInv

------------------------------------------------------------------------------
(* The functions of the storage.                                             *)

\* A step of a function goes on writing a block only if it wrote one.
Flow ==
  /\ ShapeOf(todo')
  /\ First' \notin {"pipe_flush", "amend"}
  /\ First' \in Writing \/ Second' \in Writing => First \in Writing \/ Second \in Writing

LEMMA FlowEnds ==
  ASSUME ShapeOf(todo), NEW l, Call(l), Continue(<<>>)
  PROVE  /\ Flow /\ First' = Second
         /\ First' # "end" => Then(First', Second')
<1>1. /\ ShapeOf(todo') /\ First' = Second
      /\ First' # "end" => Then(First', Second')
      /\ First' = "end" => Second' = "end"
  BY Continue0
<1>2. MayFollow(l, Second)
  BY Called
<1>3. Second \notin {"pipe_flush", "amend"}
  BY <1>2 DEF MayFollow, Then
<1>4. Second' \notin Writing
  BY <1>1 DEF Then, Writing
<1> QED
  BY <1>1, <1>3, <1>4 DEF Flow

LEMMA FlowGoesOn ==
  ASSUME ShapeOf(todo), NEW l, Call(l), NEW a \in Labels, Continue(<<a>>), MayFollow(a, Second),
         a \notin {"pipe_flush", "amend"}, a \in Writing => l \in Writing
  PROVE  Flow /\ First' = a /\ Second' = Second
<1>1. ShapeOf(todo') /\ First' = a /\ Second' = Second
  BY Continue1
<1>2. First = l
  BY Called
<1> QED
  BY <1>1, <1>2 DEF Flow

LEMMA FlowByTwo ==
  ASSUME ShapeOf(todo), NEW l, Call(l), NEW a \in Labels, NEW b \in Labels, Continue(<<a, b>>),
         MayFollow(a, b), Then(b, Second),
         a \notin {"pipe_flush", "amend"}, a \in Writing \/ b \in Writing => l \in Writing
  PROVE  Flow /\ First' = a /\ Second' = b
<1>1. ShapeOf(todo') /\ First' = a /\ Second' = b
  BY Continue2
<1>2. First = l
  BY Called
<1> QED
  BY <1>1, <1>2 DEF Flow

LEMMA ModeKept ==
  ASSUME Mode, First # "end", Flow, main' = main
  PROVE  Mode'
BY DEF Mode, Flow

\* The label that is called, and what it may be followed by.
LEMMA CalledFirst ==
  ASSUME StorageInv, NEW l, Call(l)
  PROVE  ShapeOf(todo) /\ First = l /\ First # "end" /\ MayFollow(l, Second) /\ flushing = "no"
BY Called, Ends DEF StorageInv, Call

\* check_media_change(), with one label after it either way.
LEMMA MediaCheck ==
  ASSUME NEW a \in Labels, NEW b \in Labels, CheckMediaChange(<<a>>, <<b>>)
  PROVE  /\ media' \in Media \cup {NoMedia}
         /\ \/ media' = media /\ Continue(<<a>>)
            \/ media' # media /\ media = NoMedia /\ Continue(<<b>>)
            \/ media' # media /\ media # NoMedia /\ Continue(<<"stop", b>>)
<1>1. "stop" \in Labels /\ <<b>> \in Seq(Labels)
  BY DEF Labels
<1>2. <<"stop">> \o <<b>> = <<"stop", b>> /\ <<>> \o <<b>> = <<b>>
  BY <1>1, PairOf, ConcatEmptySeq
<1> QED
  BY <1>2 DEF CheckMediaChange

LEMMA WriteFlow ==
  ASSUME StorageTypes, StorageInv, Write \/ WriteFile
  PROVE  Flow /\ StorageTypes' /\ Agree' /\ UNCHANGED vars
<1>1. PICK l \in {"write", "write_file"} : Call(l)
  BY DEF Write, WriteFile
<1>2. /\ ShapeOf(todo) /\ First = l /\ MayFollow(l, Second)
  BY <1>1, CalledFirst
<1>3. Second \in {"stor_flush", "end"} /\ First \notin {"open", "close", "forget"}
  BY <1>2 DEF MayFollow, Then
<1>4. UNCHANGED <<vars, m_cur_file, used, deleted>> /\ UNCHANGED <<m_file, CurFile>>
  BY DEF Write, WriteFile, vars, schedVars, CurFile
<1>5. m_file = CurFile /\ (media = NoMedia => CurFile = NoFile)
  BY <1>2, <1>3 DEF StorageInv, Agree
<1>6. ASSUME NEW a \in {"write_file", "write_failed", "enqueue", "write_create"}, Continue(<<a>>),
             a = "write_create" => CurFile = NoFile,
             a = "enqueue" => CurFile # NoFile,
             media' \in Media \cup {NoMedia},
             media' = NoMedia => CurFile = NoFile
      PROVE  Flow /\ Agree'
  <2>1. a \in Labels /\ MayFollow(a, Second) /\ a \notin {"pipe_flush", "amend"} /\ l \in Writing
    BY <1>1, <1>3 DEF Labels, MayFollow, Then, Writing
  <2>2. Flow /\ First' = a
    BY <1>1, <1>2, <1>6, <2>1, FlowGoesOn
  <2>3. First' \notin {"open", "close", "forget", "update_media", "update", "update_file", "update_reopen"}
    BY <2>2
  <2>4. Agree'
    BY <1>4, <1>5, <1>6, <2>2, <2>3 DEF Agree
  <2> QED
    BY <2>2, <2>4
<1>7. CASE Write
  <2>1. CASE media # NoMedia /\ UNCHANGED media /\ m_shall_stop' \in BOOLEAN
             /\ (Continue(<<"write_failed">>) \/ Continue(<<"write_file">>))
    BY <1>4, <1>5, <1>6, <2>1 DEF StorageTypes
  <2>2. CASE media = NoMedia /\ UNCHANGED <<media, m_shall_stop>> /\ Continue(<<"write_failed">>)
    BY <1>4, <1>5, <1>6, <2>2 DEF StorageTypes
  <2>3. CASE /\ media' \in Media /\ m_shall_stop' \in BOOLEAN
             /\ \/ Continue(<<"write_failed">>)
                \/ CurFile # NoFile /\ Continue(<<"enqueue">>)
                \/ CurFile = NoFile /\ Continue(<<"write_create">>)
    <3>1. media' # NoMedia
      BY <2>3, StorageAssumption
    <3> QED
      BY <1>4, <1>5, <1>6, <2>3, <3>1 DEF StorageTypes
  <2>4. m_shall_stop \in BOOLEAN
    BY DEF StorageTypes
  <2> QED
    BY <1>7, <2>1, <2>2, <2>3, <2>4 DEF Write
<1>8. CASE WriteFile
  <2>1. CASE CurFile # NoFile /\ Continue(<<"enqueue">>) /\ UNCHANGED media
    BY <1>4, <1>5, <1>6, <1>8, <2>1 DEF StorageTypes, WriteFile
  <2>2. CASE CurFile = NoFile /\ media' \in Media \cup {NoMedia} /\ Continue(<<"write_create">>)
    BY <1>4, <1>5, <1>6, <1>8, <2>2 DEF StorageTypes, WriteFile
  <2>3. CASE CurFile = NoFile /\ media' \in Media \cup {NoMedia} /\ Continue(<<"stop", "write_create">>)
    <3>1. /\ "stop" \in Labels /\ "write_create" \in Labels /\ Then("write_create", Second)
          /\ MayFollow("stop", "write_create") /\ l \in Writing
      BY <1>1, <1>3 DEF Labels, MayFollow, Then, Writing
    <3>2. Flow /\ First' = "stop"
      BY <1>1, <1>2, <2>3, <3>1, FlowByTwo
    <3>3. Agree'
      BY <1>4, <1>5, <2>3, <3>2 DEF Agree
    <3> QED
      BY <1>4, <1>8, <2>3, <3>2, <3>3 DEF StorageTypes, WriteFile
  <2>4. CASE CurFile = NoFile /\ CheckMediaChange(<<"write_create">>, <<"write_create">>)
    <3>1. "write_create" \in Labels
      BY DEF Labels
    <3> QED
      BY <2>2, <2>3, <2>4, <3>1, MediaCheck
  <2> QED
    BY <1>8, <2>1, <2>4 DEF WriteFile
<1> QED
  BY <1>4, <1>7, <1>8

LEMMA WriteCreateFlow ==
  ASSUME StorageTypes, StorageInv, WriteCreate
  PROVE  Flow /\ StorageTypes' /\ Agree' /\ UNCHANGED vars
<1>1. Call("write_create") /\ UNCHANGED <<vars, m_shall_stop, media, deleted>>
  BY DEF WriteCreate
<1>2. ShapeOf(todo) /\ First = "write_create" /\ MayFollow("write_create", Second)
  BY <1>1, CalledFirst
<1>3. /\ Second \in {"stor_flush", "end"} /\ "write_create" \in Writing
      /\ {"write_failed", "open", "enqueue"} \subseteq Labels
      /\ MayFollow("write_failed", Second) /\ MayFollow("open", "enqueue") /\ Then("enqueue", Second)
  BY <1>2 DEF MayFollow, Then, Labels, Writing
<1>4. m_file = CurFile /\ CurFile = NoFile /\ m_file' = m_file
  BY <1>1, <1>2 DEF StorageInv, Agree, vars, schedVars
<1>5. ASSUME Continue(<<"write_failed">>), CurFile' = NoFile, m_cur_file' \in {m_cur_file, NoFile},
             used' = used
      PROVE  Flow /\ StorageTypes' /\ Agree'
  <2>1. Flow /\ First' = "write_failed"
    BY <1>1, <1>2, <1>3, <1>5, FlowGoesOn
  <2>2. Agree'
    BY <1>1, <1>4, <1>5, <2>1 DEF Agree
  <2> QED
    BY <1>1, <1>5, <2>1, <2>2 DEF StorageTypes
<1>6. CASE media = NoMedia
  BY <1>1, <1>4, <1>5, <1>6 DEF WriteCreate, CurFile
<1>7. ASSUME media # NoMedia, NEW f \in Files \ used, m_cur_file' = f, used' = used \cup {f},
             Continue(<<"open", "enqueue">>)
      PROVE  Flow /\ StorageTypes' /\ Agree'
  <2>1. Flow /\ First' = "open"
    BY <1>1, <1>2, <1>3, <1>7, FlowByTwo
  <2>2. Agree'
    BY <1>1, <1>4, <1>7, <2>1 DEF Agree, StorageTypes
  <2> QED
    BY <1>1, <1>7, <2>1, <2>2 DEF StorageTypes
<1>8. CASE media # NoMedia
  <2>1. CASE m_cur_file' = NoFile /\ UNCHANGED used /\ Continue(<<"write_failed">>)
    <3>1. CurFile' = NoFile
      BY <2>1 DEF CurFile
    <3> QED
      BY <1>1, <1>5, <2>1, <3>1
  <2> QED
    BY <1>7, <1>8, <2>1 DEF WriteCreate, CreateFile
<1> QED
  BY <1>1, <1>6, <1>8

LEMMA OpenFileFlow ==
  ASSUME StorageTypes, StorageInv, OpenFile
  PROVE  Flow /\ StorageTypes' /\ Agree'
<1>1. Call("open") /\ Continue(<<>>) /\ UNCHANGED <<m_cur_file, m_shall_stop, media, used, deleted>>
      /\ m_file' = m_cur_file
  BY DEF OpenFile, SetFile
<1>2. ShapeOf(todo) /\ First = "open" /\ MayFollow("open", Second)
  BY <1>1, CalledFirst
<1>3. Second \in {"enqueue", "end"}
  BY <1>2 DEF MayFollow, Then
<1>4. Flow /\ First' = Second
  BY <1>1, <1>2, FlowEnds
<1>5. CurFile' = m_cur_file /\ m_cur_file # NoFile /\ media # NoMedia
  BY <1>1, <1>2, ChannelAssumption DEF StorageInv, Agree, CurFile
<1>6. Agree'
  BY <1>1, <1>3, <1>4, <1>5 DEF Agree
<1> QED
  BY <1>1, <1>4, <1>6 DEF StorageTypes

LEMMA UpdateFlow ==
  ASSUME StorageTypes, StorageInv, Update
  PROVE  Flow /\ StorageTypes' /\ Agree' /\ UNCHANGED vars
<1>1. /\ Call("update") /\ CheckMediaChange(<<"update_file">>, <<"update_media">>)
      /\ UNCHANGED <<vars, m_cur_file, m_shall_stop, used, deleted>>
  BY DEF Update
<1>2. ShapeOf(todo) /\ First = "update" /\ MayFollow("update", Second)
  BY <1>1, CalledFirst
<1>3. /\ Second = "end" /\ {"update_file", "update_media", "stop"} \subseteq Labels
      /\ MayFollow("update_file", Second) /\ MayFollow("stop", "update_media")
      /\ Then("update_media", Second) /\ {"update_file", "update_media", "stop"} \cap Writing = {}
  BY <1>2 DEF MayFollow, Then, Labels, Writing
<1>4. m_file = CurFile /\ CurFile # NoFile /\ m_cur_req.file = CurFile /\ media # NoMedia
  BY <1>2 DEF StorageInv, Agree
<1>5. CurFile' = CurFile /\ m_file' = m_file /\ m_cur_req' = m_cur_req
  BY <1>1 DEF CurFile, vars, schedVars, chanVars
<1>6. \/ media' = media /\ Continue(<<"update_file">>)
      \/ media' \in Media \cup {NoMedia} /\ Continue(<<"stop", "update_media">>)
  <2>1. "update_file" \in Labels /\ "update_media" \in Labels
    BY <1>3
  <2> QED
    BY <1>1, <1>4, <2>1, MediaCheck
<1>7. CASE media' = media /\ Continue(<<"update_file">>)
  <2>1. Flow /\ First' = "update_file"
    BY <1>1, <1>2, <1>3, <1>7, FlowGoesOn
  <2>2. Agree'
    BY <1>4, <1>5, <1>7, <2>1 DEF Agree
  <2> QED
    BY <1>1, <1>7, <2>1, <2>2 DEF StorageTypes
<1>8. CASE media' \in Media \cup {NoMedia} /\ Continue(<<"stop", "update_media">>)
  <2>1. Flow /\ First' = "stop"
    BY <1>1, <1>2, <1>3, <1>8, FlowByTwo
  <2>2. Agree'
    BY <1>4, <1>5, <2>1 DEF Agree
  <2> QED
    BY <1>1, <1>8, <2>1, <2>2 DEF StorageTypes
<1> QED
  BY <1>1, <1>6, <1>7, <1>8

\* What is the last in the callback: nothing, to discard, or to open a new file.
LEMMA LastFlow ==
  ASSUME StorageTypes, StorageInv, NEW l \in {"update_media", "update_reopen"}, Call(l), Second = "end",
         UNCHANGED <<vars, media, deleted>>, m_shall_stop' \in BOOLEAN, m_file = CurFile,
         \/ Continue(<<>>) /\ UNCHANGED <<m_cur_file, used>>
         \/ Continue(<<"discard">>) /\ UNCHANGED <<m_cur_file, used>>
         \/ media # NoMedia /\ CurFile = NoFile /\ CreateFile(<<"open">>, <<>>),
         media = NoMedia => CurFile = NoFile
  PROVE  Flow /\ StorageTypes' /\ Agree' /\ UNCHANGED vars
<1>1. ShapeOf(todo) /\ m_file' = m_file
  BY CalledFirst DEF vars, schedVars
<1>2. {"discard", "open"} \subseteq Labels /\ {"discard", "open"} \cap Writing = {}
      /\ MayFollow("discard", Second) /\ MayFollow("open", Second)
  BY DEF MayFollow, Labels, Writing
<1>3. ASSUME Continue(<<>>), CurFile' = CurFile, m_cur_file' \in {m_cur_file, NoFile}, used' = used
      PROVE  Flow /\ StorageTypes' /\ Agree'
  <2>1. Flow /\ First' = "end"
    BY <1>1, <1>3, FlowEnds
  <2>2. Agree'
    BY <1>1, <1>3, <2>1 DEF Agree
  <2> QED
    BY <1>3, <2>1, <2>2 DEF StorageTypes
<1>4. CASE Continue(<<>>) /\ UNCHANGED <<m_cur_file, used>>
  BY <1>3, <1>4 DEF CurFile
<1>5. CASE Continue(<<"discard">>) /\ UNCHANGED <<m_cur_file, used>>
  <2>1. Flow /\ First' = "discard"
    BY <1>1, <1>2, <1>5, FlowGoesOn
  <2>2. CurFile' = CurFile
    BY <1>5 DEF CurFile
  <2>3. Agree'
    BY <1>1, <2>1, <2>2 DEF Agree
  <2> QED
    BY <1>5, <2>1, <2>3 DEF StorageTypes
<1>6. ASSUME media # NoMedia, CurFile = NoFile,
             NEW f \in Files \ used, m_cur_file' = f, used' = used \cup {f}, Continue(<<"open">>)
      PROVE  Flow /\ StorageTypes' /\ Agree'
  <2>1. Flow /\ First' = "open"
    BY <1>1, <1>2, <1>6, FlowGoesOn
  <2>2. Agree'
    BY <1>1, <1>6, <2>1 DEF Agree, StorageTypes
  <2> QED
    BY <1>6, <2>1, <2>2 DEF StorageTypes
<1>7. CASE media # NoMedia /\ CurFile = NoFile /\ CreateFile(<<"open">>, <<>>)
  <2>1. CASE m_cur_file' = NoFile /\ UNCHANGED used /\ Continue(<<>>)
    BY <1>3, <1>7, <2>1 DEF CurFile
  <2> QED
    BY <1>6, <1>7, <2>1 DEF CreateFile
<1> QED
  BY <1>4, <1>5, <1>7

LEMMA UpdateMediaFlow ==
  ASSUME StorageTypes, StorageInv, UpdateMedia
  PROVE  Flow /\ StorageTypes' /\ Agree' /\ UNCHANGED vars
<1>1. Call("update_media") /\ UNCHANGED <<vars, media, deleted>>
  BY DEF UpdateMedia
<1>2. First = "update_media" /\ MayFollow("update_media", Second)
  BY <1>1, CalledFirst
<1>3. Second = "end" /\ m_file = CurFile /\ CurFile = NoFile
  BY <1>2 DEF MayFollow, Then, StorageInv, Agree
<1>4. m_shall_stop' \in BOOLEAN
  BY DEF UpdateMedia, StorageTypes
<1> QED
  BY <1>1, <1>3, <1>4, LastFlow DEF UpdateMedia

LEMMA UpdateReopenFlow ==
  ASSUME StorageTypes, StorageInv, UpdateReopen
  PROVE  Flow /\ StorageTypes' /\ Agree' /\ UNCHANGED vars
<1>1. Call("update_reopen") /\ UNCHANGED <<vars, m_shall_stop, media, deleted>>
  BY DEF UpdateReopen
<1>2. First = "update_reopen" /\ MayFollow("update_reopen", Second)
  BY <1>1, CalledFirst
<1>3. Second = "end" /\ m_file = CurFile /\ media # NoMedia
  BY <1>2 DEF MayFollow, Then, StorageInv, Agree
<1>4. m_shall_stop' \in BOOLEAN
  BY <1>1 DEF StorageTypes
<1>5. \/ Continue(<<>>) /\ UNCHANGED <<m_cur_file, used>>
      \/ Continue(<<"discard">>) /\ UNCHANGED <<m_cur_file, used>>
      \/ media # NoMedia /\ CurFile = NoFile /\ CreateFile(<<"open">>, <<>>)
  BY <1>3 DEF UpdateReopen
<1> QED
  BY <1>1, <1>3, <1>4, <1>5, LastFlow

LEMMA UpdateFileFlow ==
  ASSUME StorageTypes, StorageInv, UpdateFile
  PROVE  Flow /\ StorageTypes' /\ Agree' /\ UNCHANGED vars
<1>1. Call("update_file") /\ UNCHANGED <<vars, media, used>>
  BY DEF UpdateFile
<1>2. ShapeOf(todo) /\ First = "update_file" /\ MayFollow("update_file", Second)
  BY <1>1, CalledFirst
<1>3. /\ Second = "end" /\ {"close", "update_reopen"} \subseteq Labels
      /\ MayFollow("update_reopen", Second) /\ MayFollow("close", "update_reopen")
      /\ Then("update_reopen", Second) /\ {"close", "update_reopen"} \cap Writing = {}
  BY <1>2 DEF MayFollow, Then, Labels, Writing
<1>4. m_file = CurFile /\ CurFile # NoFile /\ m_cur_req.file = CurFile /\ media # NoMedia
  BY <1>2 DEF StorageInv, Agree
<1>5. CurFile = m_cur_file /\ m_cur_file \notin deleted /\ m_cur_file \in used
  BY <1>4 DEF CurFile, StorageInv, StorageTypes
<1>6. m_file' = m_file
  BY <1>1 DEF vars, schedVars
<1>7. /\ deleted' \subseteq deleted \cup {m_cur_file} /\ m_cur_file' \in {m_cur_file, NoFile}
      /\ m_shall_stop' \in BOOLEAN
      /\ Continue((IF m_cur_file' \in deleted' \cup {NoFile} THEN <<"close">> ELSE <<>>)
                     \o <<"update_reopen">>)
  BY <1>4, <1>5 DEF UpdateFile, StorageTypes
<1>8. StorageTypes'
  BY <1>1, <1>5, <1>7 DEF StorageTypes
<1>9. CASE m_cur_file' \in deleted' \cup {NoFile}
  <2>1. <<"close">> \o <<"update_reopen">> = <<"close", "update_reopen">>
    BY <1>3, PairOf
  <2>2. Flow /\ First' = "close"
    BY <1>2, <1>1, <1>3, <1>7, <1>9, <2>1, FlowByTwo
  <2>3. CurFile' = NoFile
    BY <1>9 DEF CurFile
  <2>4. Agree'
    BY <1>1, <1>4, <2>2, <2>3 DEF Agree
  <2> QED
    BY <1>1, <1>8, <2>2, <2>4
<1>10. CASE ~(m_cur_file' \in deleted' \cup {NoFile})
  <2>1. <<>> \o <<"update_reopen">> = <<"update_reopen">>
    <3>1. <<"update_reopen">> \in Seq(Labels)
      BY <1>3
    <3> QED
      BY <3>1, ConcatEmptySeq
  <2>2. Flow /\ First' = "update_reopen"
    BY <1>2, <1>1, <1>3, <1>7, <1>10, <2>1, FlowGoesOn
  <2>3. CurFile' = CurFile
    BY <1>5, <1>7, <1>10 DEF CurFile
  <2>4. Agree'
    BY <1>1, <1>4, <1>6, <2>2, <2>3 DEF Agree
  <2> QED
    BY <1>1, <1>8, <2>2, <2>4
<1> QED
  BY <1>9, <1>10

LEMMA CloseFileFlow ==
  ASSUME StorageTypes, StorageInv, CloseFile
  PROVE  Flow /\ StorageTypes' /\ Agree'
<1>1. Call("close") /\ Continue(<<>>) /\ UNCHANGED <<m_cur_file, m_shall_stop, media, used, deleted>>
      /\ m_file' = NoFile
  BY DEF CloseFile, Close
<1>2. ShapeOf(todo) /\ First = "close" /\ MayFollow("close", Second)
  BY <1>1, CalledFirst
<1>3. Second \in {"forget", "update_reopen"}
  BY <1>2 DEF MayFollow, Then
<1>4. Flow /\ First' = Second
  BY <1>1, <1>2, FlowEnds
<1>5. CurFile' = CurFile /\ (Second = "update_reopen" => CurFile = NoFile /\ media # NoMedia)
  BY <1>1, <1>2 DEF StorageInv, Agree, CurFile
<1>6. Agree'
  BY <1>1, <1>3, <1>4, <1>5 DEF Agree
<1> QED
  BY <1>1, <1>4, <1>6 DEF StorageTypes

LEMMA DiscardFlow ==
  ASSUME StorageTypes, StorageInv, Discard
  PROVE  Flow /\ StorageTypes' /\ Agree'
<1>1. Call("discard") /\ Continue(<<>>) /\ UNCHANGED <<m_cur_file, m_shall_stop, media, used, deleted>>
      /\ m_file' = m_file
  BY DEF Discard, DiscardQueue
<1>2. ShapeOf(todo) /\ First = "discard" /\ MayFollow("discard", Second)
  BY <1>1, CalledFirst
<1>3. Second = "end"
  BY <1>2 DEF MayFollow, Then
<1>4. Flow /\ First' = Second
  BY <1>1, <1>2, FlowEnds
<1>5. CurFile' = CurFile /\ m_file = CurFile /\ (media = NoMedia => CurFile = NoFile)
  BY <1>1, <1>2 DEF StorageInv, Agree, CurFile
<1>6. Agree'
  BY <1>1, <1>3, <1>4, <1>5 DEF Agree
<1> QED
  BY <1>1, <1>4, <1>6 DEF StorageTypes

LEMMA StopStorageFlow ==
  ASSUME StorageTypes, StorageInv, StopStorage
  PROVE  Flow /\ StorageTypes' /\ Agree'
<1>1. Call("stop") /\ Continue(<<>>) /\ UNCHANGED <<m_shall_stop, media, used, deleted>>
      /\ m_cur_file' \in {m_cur_file, NoFile}
  BY DEF StopStorage
<1>2. ShapeOf(todo) /\ First = "stop" /\ MayFollow("stop", Second)
  BY <1>1, CalledFirst
<1>3. Second \in {"off", "write_create", "update_media", "end"}
  BY <1>2 DEF MayFollow, Then
<1>4. Flow /\ First' = Second
  BY <1>1, <1>2, FlowEnds
<1>5. m_file = CurFile
  BY <1>2 DEF StorageInv, Agree
<1>6. CurFile' = NoFile /\ m_file' = NoFile
  <2>1. CASE CurFile # NoFile
    BY <1>1, <2>1 DEF StopStorage, Close, CurFile
  <2>2. CASE CurFile = NoFile
    BY <1>1, <1>5, <2>2 DEF StopStorage, vars, schedVars, CurFile
  <2> QED
    BY <2>1, <2>2
<1>7. Agree'
  BY <1>3, <1>4, <1>6 DEF Agree
<1> QED
  BY <1>1, <1>4, <1>7 DEF StorageTypes

LEMMA FlushStorageFlow ==
  ASSUME StorageTypes, StorageInv, FlushStorage
  PROVE  Flow /\ StorageTypes' /\ Agree'
<1>1. PICK l \in {"sched_flush", "stor_flush"} : Call(l)
  BY DEF FlushStorage
<1>2. /\ Continue(<<>>) /\ UNCHANGED <<m_cur_file, m_shall_stop, media, used, deleted>>
      /\ m_file' = m_file
  BY DEF FlushStorage, Flush, vars, schedVars
<1>3. ShapeOf(todo) /\ First = l /\ MayFollow(l, Second)
  BY <1>1, CalledFirst
<1>4. \/ l = "sched_flush" /\ Second = "close"
      \/ l = "stor_flush" /\ Second \in {"stop", "truncate", "end"}
  <2>1. CASE l = "sched_flush"
    BY <1>3, <2>1 DEF MayFollow, Then
  <2>2. CASE l = "stor_flush"
    BY <1>3, <2>2 DEF MayFollow, Then
  <2> QED
    BY <2>1, <2>2
<1>5. Flow /\ First' = Second /\ (First' # "end" => Then(First', Second'))
  BY <1>1, <1>2, <1>3, FlowEnds
<1>6. CurFile' = CurFile /\ m_file = CurFile
      /\ (media = NoMedia => CurFile = NoFile \/ l = "sched_flush")
  BY <1>1, <1>2, <1>3 DEF StorageInv, Agree, CurFile
<1>7. First' = "close" => Second' # "update_reopen"
  BY <1>5 DEF Then
<1>8. Agree'
  BY <1>2, <1>4, <1>5, <1>6, <1>7 DEF Agree
<1> QED
  BY <1>2, <1>5, <1>8 DEF StorageTypes

LEMMA ForgetFlow ==
  ASSUME StorageTypes, StorageInv, Forget
  PROVE  Flow /\ StorageTypes' /\ Agree' /\ UNCHANGED vars
<1>1. Call("forget") /\ Continue(<<>>) /\ m_cur_file' = NoFile
      /\ UNCHANGED <<vars, m_shall_stop, media, used, deleted>>
  BY DEF Forget
<1>2. ShapeOf(todo) /\ First = "forget" /\ MayFollow("forget", Second)
  BY <1>1, CalledFirst
<1>3. Second = "end"
  BY <1>2 DEF MayFollow, Then
<1>4. Flow /\ First' = Second
  BY <1>1, <1>2, FlowEnds
<1>5. CurFile' = NoFile /\ m_file' = NoFile
  BY <1>1, <1>2 DEF StorageInv, Agree, CurFile, vars, schedVars
<1>6. Agree'
  BY <1>3, <1>4, <1>5 DEF Agree
<1> QED
  BY <1>1, <1>4, <1>6 DEF StorageTypes

\* The result of a request is about the current file.
LEMMA WrittenCallbackFlow ==
  ASSUME SchedulerInv, StorageTypes, StorageInv, WrittenCallback
  PROVE  Flow /\ First # "amend" /\ StorageTypes' /\ Agree' /\ Mode'
<1>1. /\ main = "reading" /\ main' = "callback" /\ ReadResult /\ m_file' = m_file
      /\ UNCHANGED <<m_cur_file, m_shall_stop, media, used, deleted>>
      /\ todo' = IF m_cur_req.file # NoFile THEN <<"update">> ELSE <<>>
  BY DEF WrittenCallback, OnIoDone
<1>2. ShapeOf(todo) /\ First = "end"
  BY <1>1 DEF StorageInv, Mode
<1>3. m_file = CurFile /\ (media = NoMedia => CurFile = NoFile)
  BY <1>2 DEF StorageInv, Agree
<1>4. m_cur_req.file = m_file /\ m_cur_req' = m_cur_req
  <2>1. to_main > 0
    BY <1>1 DEF ReadResult
  <2>2. m_state = "IS_EXECUTING"
    BY <2>1 DEF SchedulerInv, Control, ChannelPhase
  <2> QED
    BY <1>1, <2>2 DEF SchedulerInv, RequestForFile, ReadResult
<1>5. CurFile' = CurFile
  BY <1>1 DEF CurFile
<1>6. CASE m_cur_req.file # NoFile
  <2>1. "update" \in Labels /\ MayFollow("update", "end") /\ todo' = <<"update">>
    BY <1>1, <1>6 DEF Labels, MayFollow
  <2>2. ShapeOf(todo') /\ First' = "update" /\ Second' = "end"
    BY <2>1, Begin1
  <2>3. Flow /\ Mode' /\ Agree'
    BY <1>1, <1>3, <1>4, <1>5, <1>6, <2>2 DEF Flow, Mode, Agree, Writing
  <2> QED
    BY <1>1, <1>2, <2>3 DEF StorageTypes
<1>7. CASE m_cur_req.file = NoFile
  <2>1. ShapeOf(todo') /\ First' = "end" /\ Second' = "end"
    BY <1>1, <1>7, NothingLeft DEF ShapeOf, First, Second, LabelAt
  <2>2. Flow /\ Mode' /\ Agree'
    BY <1>1, <1>3, <1>5, <2>1 DEF Flow, Mode, Agree, Writing
  <2> QED
    BY <1>1, <1>2, <2>2 DEF StorageTypes
<1> QED
  BY <1>6, <1>7

\* What a step of the storage leaves alone.
BlocksLeft == held' = held /\ \A b \in held : content'[b] = content[b]

LEMMA StorageSteps ==
  ASSUME SchedulerInv, StorageTypes, StorageInv, StorageStep
  PROVE  /\ [Next]_vars
         /\ Flow /\ First # "amend" /\ StorageTypes' /\ Agree' /\ Mode'
         /\ BlocksLeft
<1>1. /\ ControlTypeOK /\ BuffersAccounted /\ held \subseteq Buffers
      /\ (Range(m_data) \cup m_amend) \cap held = {}
      /\ m_amend \in SUBSET m_amend /\ {} \in SUBSET m_amend
  BY AccountedParts DEF SchedulerInv, Control, ControlTypeOK, Accounted
<1>2. ASSUME UNCHANGED vars
      PROVE  [Next]_vars /\ BlocksLeft /\ main' = main
  BY <1>2 DEF vars, schedVars, loopVars, BlocksLeft
<1>3. ASSUME Close
      PROVE  [Next]_vars /\ BlocksLeft /\ main' = main
  <2>1. BlocksLeft
    <3>1. CASE m_data_written # <<>>
      BY <1>1, <1>3, <3>1, ResultContent DEF Close, BlocksLeft
    <3>2. CASE m_data_written = <<>>
      BY <1>3, <3>2 DEF Close, BlocksLeft
    <3> QED
      BY <3>1, <3>2
  <2> QED
    BY <1>3, <2>1 DEF Next, Close, loopVars
<1>4. ASSUME NEW l, Call(l), l # "amend", Flow, main' = main
      PROVE  First # "amend" /\ Mode'
  <2>1. First = l /\ First # "end"
    BY <1>4, CalledFirst
  <2> QED
    BY <1>4, <2>1, ModeKept DEF StorageInv
<1>5. CASE Write \/ WriteFile
  BY <1>2, <1>4, <1>5, WriteFlow DEF Write, WriteFile
<1>6. CASE WriteCreate
  BY <1>2, <1>4, <1>6, WriteCreateFlow DEF WriteCreate
<1>7. CASE OpenFile
  <2>1. Call("open") /\ SetFile(m_cur_file)
    BY <1>7 DEF OpenFile
  <2>2. First = "open" /\ flushing = "no" /\ First # "end"
    BY <2>1, CalledFirst
  <2>3. m_file = NoFile /\ m_cur_file \in Files /\ InHandlerOrCallback
    BY <2>2 DEF StorageInv, Agree, Mode, InHandlerOrCallback
  <2>4. Next
    BY <2>1, <2>3 DEF Next, Open
  <2>5. BlocksLeft /\ main' = main
    BY <2>1 DEF SetFile, BlocksLeft, loopVars
  <2> QED
    BY <1>4, <1>7, <2>1, <2>4, <2>5, OpenFileFlow
<1>8. CASE WrittenCallback
  <2>1. OnIoDone
    BY <1>8 DEF WrittenCallback
  <2>2. Next
    BY <2>1 DEF Next, LoopStep
  <2>3. BlocksLeft
    BY <1>1, <2>1, ResultContent DEF OnIoDone, BlocksLeft
  <2> QED
    BY <1>8, <2>2, <2>3, WrittenCallbackFlow
<1>9. CASE Update
  BY <1>2, <1>4, <1>9, UpdateFlow DEF Update
<1>10. CASE UpdateMedia
  BY <1>2, <1>4, <1>10, UpdateMediaFlow DEF UpdateMedia
<1>11. CASE UpdateFile
  BY <1>2, <1>4, <1>11, UpdateFileFlow DEF UpdateFile
<1>12. CASE UpdateReopen
  BY <1>2, <1>4, <1>12, UpdateReopenFlow DEF UpdateReopen
<1>13. CASE CloseFile
  BY <1>3, <1>4, <1>13, CloseFileFlow DEF CloseFile
<1>14. CASE Discard
  <2>1. Call("discard") /\ DiscardQueue
    BY <1>14 DEF Discard
  <2>2. BlocksLeft /\ main' = main
    BY <1>1, <2>1 DEF DiscardQueue, BlocksLeft, loopVars, Emptied
  <2>3. Next
    BY <2>1 DEF Next
  <2> QED
    BY <1>4, <1>14, <2>1, <2>2, <2>3, DiscardFlow
<1>15. CASE StopStorage
  <2>1. Call("stop") /\ (Close \/ UNCHANGED vars)
    BY <1>15 DEF StopStorage
  <2> QED
    BY <1>2, <1>3, <1>4, <1>15, <2>1, StopStorageFlow
<1>16. CASE FlushStorage
  <2>1. PICK l \in {"sched_flush", "stor_flush"} : Call(l)
    BY <1>16 DEF FlushStorage
  <2>2. Flush \/ UNCHANGED vars
    BY <1>16 DEF FlushStorage
  <2>3. [Next]_vars /\ BlocksLeft /\ main' = main
    <3>1. CASE Flush
      BY <3>1 DEF Flush, Next, BlocksLeft, schedVars
    <3> QED
      BY <1>2, <2>2, <3>1
  <2> QED
    BY <1>4, <1>16, <2>1, <2>3, FlushStorageFlow
<1>17. CASE Forget
  BY <1>2, <1>4, <1>17, ForgetFlow DEF Forget
<1> QED
  BY <1>5, <1>6, <1>7, <1>8, <1>9, <1>10, <1>11, <1>12, <1>13, <1>14, <1>15, <1>16, <1>17
     DEF StorageStep

------------------------------------------------------------------------------
(* The log pipe handler.                                                     *)

LEMMA AgreeKept ==
  ASSUME Agree, First \notin {"open", "close", "forget", "stop", "sched_flush"},
         UNCHANGED <<m_file, m_cur_file, deleted, media>>,
         First' \notin {"open", "close", "forget", "write_create", "update_media", "enqueue",
                        "update", "update_file", "update_reopen"}
  PROVE  Agree'
<1>1. CurFile' = CurFile
  BY DEF CurFile
<1> QED
  BY <1>1 DEF Agree

LEMMA OpenDeviceTypes ==
  ASSUME DeviceTypes, NEW reg \in BOOLEAN, NEW events \in BOOLEAN, NEW timers \in 0 .. MaxTimers,
         OpenDevice(reg, events, timers)
  PROVE  DeviceTypes'
<1>1. MaxTimers \in Nat
  BY PipeAssumption
<1>2. reopen_timers' \in 0 .. MaxTimers
  BY <1>1 DEF OpenDevice
<1>3. (reg => events) \in BOOLEAN
  OBVIOUS
<1> QED
  BY <1>2, <1>3 DEF OpenDevice, DeviceTypes

LEMMA CloseDeviceTypes ==
  ASSUME DeviceTypes, CloseDevice
  PROVE  DeviceTypes'
BY DEF CloseDevice, DeviceTypes

\* No handler runs: nothing is left to do, and the handler has its block only.
LEMMA IdleState ==
  ASSUME PathInv, todo = <<>>
  PROVE  /\ First = "end" /\ Second = "end"
         /\ m_file = CurFile /\ (media = NoMedia => CurFile = NoFile)
         /\ held = {m_buffer} \ {NoBuffer} /\ NoBuffer \notin Buffers
<1>1. First = "end" /\ Second = "end"
  BY NothingLeft DEF PathInv, StorageInv
<1>2. held \subseteq Buffers /\ NoBuffer \notin Buffers
  BY PipeAssumption DEF PathInv, SchedulerInv, Control, ControlTypeOK
<1>3. held = {m_buffer} \ {NoBuffer}
  BY <1>1, <1>2 DEF PathInv, BlocksHeld
<1>4. m_file = CurFile /\ (media = NoMedia => CurFile = NoFile)
  BY <1>1 DEF PathInv, StorageInv, Agree
<1> QED
  BY <1>1, <1>2, <1>3, <1>4

\* What every step of PathNext is shown to do.
PathKept ==
  /\ [Next]_vars
  /\ StorageTypes' /\ StorageInv'
  /\ PipeTypes' /\ WriteReady' /\ BlocksHeld'

LEMMA Same ==
  ASSUME UNCHANGED vars
  PROVE  /\ [Next]_vars
         /\ UNCHANGED <<m_file, main, held, content, m_cur_req, m_buffers, flushing>>
BY DEF vars, chanVars, schedVars, loopVars

LEMMA DevicesKept ==
  ASSUME PathInv, UNCHANGED <<vars, storVars, m_buffer>>, log_on' \in BOOLEAN, working' \in BOOLEAN,
         DeviceTypes'
  PROVE  PathKept
<1>1. UNCHANGED <<m_file, main, held, content, m_cur_req, m_cur_file, deleted, used, media,
                  m_shall_stop, todo, m_buffer>>
  BY Same DEF storVars
<1>2. UNCHANGED <<First, Second, CurFile>>
  BY <1>1 DEF First, Second, CurFile
<1>3. StorageTypes' /\ StorageInv' /\ WriteReady' /\ BlocksHeld'
  BY <1>1, <1>2 DEF PathInv, StorageTypes, StorageInv, Mode, Agree, WriteReady, BlocksHeld
<1> QED
  BY <1>1, <1>3, Same DEF PathKept, PipeTypes, PathInv

LEMMA ReopenKept ==
  ASSUME PathInv, ReopenDevice \/ ProcessAlive \/ OtherAlive
  PROVE  PathKept
<1>1. DeviceTypes /\ log_on \in BOOLEAN /\ working \in BOOLEAN /\ MaxTimers \in Nat
  BY PipeAssumption DEF PathInv, PipeTypes
<1>2. CASE ReopenDevice
  <2>1. reopen_timers - 1 \in 0 .. MaxTimers
    BY <1>1, <1>2 DEF ReopenDevice, DeviceTypes
  <2>2. DeviceTypes'
    <3>1. CASE OpenDevice(registered, pollin, reopen_timers - 1)
      BY <1>1, <2>1, <3>1, OpenDeviceTypes DEF DeviceTypes
    <3>2. CASE reopen_timers' = reopen_timers - 1
               /\ UNCHANGED <<dev_open, registered, pollin, pipe_revents>>
      BY <1>1, <2>1, <3>2 DEF DeviceTypes
    <3> QED
      BY <1>2, <3>1, <3>2 DEF ReopenDevice
  <2> QED
    BY <1>1, <1>2, <2>2, DevicesKept DEF ReopenDevice
<1>3. CASE ProcessAlive
  <2>1. DeviceTypes'
    <3>1. CASE OpenDevice(registered, pollin, 0)
      BY <1>1, <3>1, OpenDeviceTypes DEF DeviceTypes
    <3>2. CASE UNCHANGED devVars
      BY <1>1, <3>2 DEF DeviceTypes, devVars
    <3> QED
      BY <1>3, <3>1, <3>2 DEF ProcessAlive
  <2> QED
    BY <1>1, <1>3, <2>1, DevicesKept DEF ProcessAlive
<1>4. CASE OtherAlive
  <2>1. DeviceTypes'
    BY <1>1, <1>4 DEF DeviceTypes, OtherAlive
  <2> QED
    BY <1>1, <1>4, <2>1, DevicesKept DEF OtherAlive
<1> QED
  BY <1>2, <1>3, <1>4

\* A step of the loop, of a flush or of the I/O thread.
LEMMA LoopKept ==
  ASSUME PathInv, [Next]_vars, UNCHANGED <<storVars, m_buffer, log_on, working>>, DeviceTypes',
         m_file' = m_file, BlocksLeft, m_cur_req'.file \in {m_cur_req.file, m_file},
         main' = main \/ todo = <<>>
  PROVE  PathKept
<1>1. UNCHANGED <<m_cur_file, deleted, used, media, m_shall_stop, todo, First, Second, CurFile>>
  BY DEF storVars, First, Second, CurFile
<1>2. StorageTypes' /\ ShapeOf(todo')
  BY <1>1 DEF PathInv, StorageTypes, StorageInv
<1>3. Mode'
  <2>1. CASE main' = main
    BY <1>1, <2>1 DEF PathInv, StorageInv, Mode
  <2>2. CASE todo = <<>>
    BY <1>1, <2>2, IdleState DEF Mode, Writing
  <2> QED
    BY <2>1, <2>2
<1>4. Agree'
  BY <1>1 DEF PathInv, StorageInv, Agree
<1>5. WriteReady' /\ BlocksHeld'
  BY <1>1 DEF PathInv, WriteReady, BlocksHeld, BlocksLeft
<1> QED
  BY <1>2, <1>3, <1>4, <1>5 DEF PathKept, StorageInv, PipeTypes, PathInv

LEMMA RoundKept ==
  ASSUME PathInv, PathPoll \/ PathEndRound \/ PathChannelEvent
  PROVE  PathKept
<1>1. [Next]_vars
  BY DEF PathPoll, PathEndRound, PathChannelEvent, Next, LoopStep
<1>2. UNCHANGED <<chanVars, schedVars>> /\ UNCHANGED <<storVars, m_buffer, log_on, working>>
  BY DEF PathPoll, PathEndRound, PathChannelEvent, Poll, EndRound, Process, pipeVars
<1>3. BlocksLeft /\ m_cur_req' = m_cur_req /\ m_file' = m_file
  BY <1>2 DEF BlocksLeft, chanVars, schedVars
<1>4. DeviceTypes'
  BY DEF PathPoll, PathEndRound, PathChannelEvent, pipeVars, devVars, DeviceTypes, PathInv, PipeTypes
<1>5. todo = <<>>
  <2>1. CASE PathPoll
    <3>1. First = "end"
      BY <2>1 DEF PathPoll, Poll, PathInv, StorageInv, Mode
    <3> QED
      BY <3>1, LabelsOf DEF First, PathInv, StorageInv, ShapeOf
  <2> QED
    BY <2>1 DEF PathEndRound, PathChannelEvent
<1> QED
  BY <1>1, <1>2, <1>3, <1>4, <1>5, LoopKept

LEMMA RequestedFile ==
  ASSUME PathInv, NEW data, NEW amend,
         CommitAll(data, amend) \/ CommitData(data, amend) \/ m_cur_req' = m_cur_req
  PROVE  m_cur_req'.file \in {m_cur_req.file, m_file}
<1>1. m_cur_req \in Requests
  BY DEF PathInv, SchedulerInv, Control, ControlTypeOK, ChanControlTypeOK, Requests
<1> QED
  BY <1>1 DEF CommitAll, CommitData, Request, chanVars, Requests

LEMMA CallbackDoneKept ==
  ASSUME PathInv, PathCallbackDone
  PROVE  PathKept
<1>1. CallbackDone /\ todo = <<>> /\ BufAvailCallback
      /\ UNCHANGED <<storVars, m_buffer, log_on, working, dev_open, registered, reopen_timers, pipe_revents>>
  BY DEF PathCallbackDone
<1>2. [Next]_vars /\ m_file' = m_file /\ BlocksLeft
  BY <1>1 DEF CallbackDone, Next, LoopStep, BlocksLeft
<1>3. m_cur_req'.file \in {m_cur_req.file, m_file}
  BY <1>1, RequestedFile DEF CallbackDone, chanVars
<1>4. DeviceTypes'
  BY <1>1 DEF BufAvailCallback, DeviceTypes, PathInv, PipeTypes
<1> QED
  BY <1>1, <1>2, <1>3, <1>4, LoopKept

LEMMA PathFlushKept ==
  ASSUME PathInv, PathFlush
  PROVE  PathKept
<1>1. FlushStep /\ BufAvailCallback
      /\ UNCHANGED <<storVars, m_buffer, log_on, working, dev_open, registered, reopen_timers, pipe_revents>>
  BY DEF PathFlush, FlushStep
<1>2. Next /\ m_file' = m_file /\ main' = main
  BY <1>1 DEF FlushStep, FlushSettle, FlushCommit, FlushAwait, FlushReport, Next
<1>3. BlocksLeft
  <2>1. ControlTypeOK /\ BuffersAccounted /\ m_amend \in SUBSET m_amend
    BY DEF PathInv, SchedulerInv, Control
  <2>2. \A b \in held : content'[b] = content[b]
    BY <1>1, <2>1, ResultContent DEF FlushStep, FlushSettle, FlushCommit, FlushAwait, FlushReport
  <2> QED
    BY <1>1, <2>2 DEF BlocksLeft, FlushStep, FlushSettle, FlushCommit, FlushAwait, FlushReport
<1>4. m_cur_req'.file \in {m_cur_req.file, m_file}
  <2>1. CommitAll(m_data, m_amend) \/ m_cur_req' = m_cur_req
    BY <1>1 DEF FlushStep, FlushSettle, FlushCommit, FlushAwait, FlushReport, WaitIo, chanVars
  <2> QED
    BY <2>1, RequestedFile
<1>5. DeviceTypes'
  BY <1>1 DEF BufAvailCallback, DeviceTypes, PathInv, PipeTypes
<1> QED
  BY <1>1, <1>2, <1>3, <1>4, <1>5, LoopKept

LEMMA PathThreadKept ==
  ASSUME PathInv, PathThread
  PROVE  PathKept
<1>1. ThreadStep /\ UNCHANGED <<storVars, pipeVars>>
  BY DEF PathThread
<1>2. Next /\ UNCHANGED <<m_file, main, held, content>>
  BY <1>1 DEF Next, ThreadStep, IoThread, ThreadRead, ThreadWrite, ThreadRespond, loopVars
<1>3. m_cur_req'.file = m_cur_req.file
  <2>1. m_cur_req \in Requests
    BY DEF PathInv, SchedulerInv, Control, ControlTypeOK, ChanControlTypeOK, Requests
  <2> QED
    BY <1>1, <2>1 DEF ThreadStep, IoThread, ThreadRead, ThreadWrite, ThreadRespond, Requests
<1>4. DeviceTypes'
  BY <1>1 DEF pipeVars, devVars, DeviceTypes, PathInv, PipeTypes
<1> QED
  BY <1>1, <1>2, <1>3, <1>4, LoopKept DEF BlocksLeft, pipeVars

LEMMA PathStorageKept ==
  ASSUME PathInv, PathStorage
  PROVE  PathKept
<1>1. StorageStep /\ UNCHANGED pipeVars
  BY DEF PathStorage
<1>2. /\ [Next]_vars
      /\ Flow /\ First # "amend" /\ StorageTypes' /\ Agree' /\ Mode'
      /\ BlocksLeft
  BY <1>1, StorageSteps DEF PathInv
<1>3. StorageInv'
  BY <1>2 DEF StorageInv, Flow
<1>4. PipeTypes' /\ m_buffer' = m_buffer
  BY <1>1 DEF pipeVars, devVars, PathInv, PipeTypes, DeviceTypes
<1>5. WriteReady' /\ BlocksHeld'
  BY <1>2, <1>4 DEF PathInv, WriteReady, BlocksHeld, BlocksLeft, Flow
<1> QED
  BY <1>2, <1>3, <1>4, <1>5 DEF PathKept

\* A step that changes what is left to do, and neither blocks nor files.
LEMMA TodoKept ==
  ASSUME PathInv, UNCHANGED vars, UNCHANGED <<m_buffer, used, deleted, m_shall_stop, m_cur_file>>,
         media' \in Media \cup {NoMedia}, log_on' \in BOOLEAN, working' \in BOOLEAN, DeviceTypes',
         First # "amend", First' # "amend",
         ShapeOf(todo'), Agree',
         main \in {"dispatch", "callback"}, First' = "pipe_flush" => main = "dispatch",
         First' \in Writing \/ Second' \in Writing => First \in Writing \/ Second \in Writing
  PROVE  PathKept
<1>1. UNCHANGED <<m_file, main, held, content>>
  BY Same
<1>2. StorageTypes' /\ StorageInv'
  BY <1>1 DEF PathInv, StorageTypes, StorageInv, Mode
<1>3. WriteReady' /\ BlocksHeld'
  BY <1>1 DEF PathInv, WriteReady, BlocksHeld
<1> QED
  BY <1>2, <1>3, Same DEF PathKept, PipeTypes, PathInv

\* The lists a handler begins with.
LEMMA HandlerBegins ==
  ASSUME \/ todo' = <<"pipe_flush", "stor_flush", "stop", "off">>
         \/ todo' = <<"pipe_flush", "stor_flush", "truncate">>
         \/ todo' = <<"pipe_flush", "stor_flush", "stop">>
         \/ todo' = <<"pipe_flush", "stor_flush">>
         \/ todo' = <<"sched_flush", "close", "forget">>
         \/ todo' = <<"stop">>
         \/ todo' = <<>>
  PROVE  /\ ShapeOf(todo')
         /\ First' \in {"pipe_flush", "sched_flush", "stop", "end"}
         /\ Second' \in {"stor_flush", "close", "end"} /\ Second' \notin Writing
         /\ todo' = <<"stop">> => First' = "stop"
         /\ todo' = <<"sched_flush", "close", "forget">> => First' = "sched_flush"
<1>1. /\ {"pipe_flush", "stor_flush", "stop", "off", "truncate", "sched_flush", "close", "forget"}
           \subseteq Labels
      /\ MayFollow("pipe_flush", "stor_flush") /\ Then("stor_flush", "stop") /\ Then("stop", "off")
      /\ Then("off", "end") /\ Then("stor_flush", "truncate") /\ Then("truncate", "end")
      /\ Then("stop", "end") /\ Then("stor_flush", "end") /\ MayFollow("sched_flush", "close")
      /\ Then("close", "forget") /\ Then("forget", "end") /\ MayFollow("stop", "end")
      /\ {"stor_flush", "close", "end"} \cap Writing = {}
  BY DEF Labels, MayFollow, Then, Writing
<1>2. CASE todo' = <<"pipe_flush", "stor_flush", "stop", "off">>
  <2>1. ShapeOf(todo') /\ First' = "pipe_flush" /\ Second' = "stor_flush"
    BY <1>1, <1>2, Begin4
  <2> QED
    BY <1>1, <1>2, <2>1 DEF First, LabelAt
<1>3. CASE todo' = <<"pipe_flush", "stor_flush", "truncate">>
  <2>1. ShapeOf(todo') /\ First' = "pipe_flush" /\ Second' = "stor_flush"
    BY <1>1, <1>3, Begin3
  <2> QED
    BY <1>1, <1>3, <2>1 DEF First, LabelAt
<1>4. CASE todo' = <<"pipe_flush", "stor_flush", "stop">>
  <2>1. ShapeOf(todo') /\ First' = "pipe_flush" /\ Second' = "stor_flush"
    BY <1>1, <1>4, Begin3
  <2> QED
    BY <1>1, <1>4, <2>1 DEF First, LabelAt
<1>5. CASE todo' = <<"pipe_flush", "stor_flush">>
  <2>1. ShapeOf(todo') /\ First' = "pipe_flush" /\ Second' = "stor_flush"
    BY <1>1, <1>5, Begin2
  <2> QED
    BY <1>1, <1>5, <2>1 DEF First, LabelAt
<1>6. CASE todo' = <<"sched_flush", "close", "forget">>
  <2>1. ShapeOf(todo') /\ First' = "sched_flush" /\ Second' = "close"
    BY <1>1, <1>6, Begin3
  <2> QED
    BY <1>1, <1>6, <2>1 DEF First, LabelAt
<1>7. CASE todo' = <<"stop">>
  <2>1. ShapeOf(todo') /\ First' = "stop" /\ Second' = "end"
    BY <1>1, <1>7, Begin1
  <2> QED
    BY <1>1, <1>7, <2>1 DEF First, LabelAt
<1>8. CASE todo' = <<>>
  <2>1. ShapeOf(todo') /\ First' = "end" /\ Second' = "end"
    BY <1>8, NothingLeft DEF ShapeOf, First, Second, LabelAt
  <2> QED
    BY <1>1, <1>8, <2>1
<1> QED
  BY <1>2, <1>3, <1>4, <1>5, <1>6, <1>7, <1>8

LEMMA HandlerKept ==
  ASSUME PathInv, StopLogging \/ CloseOnAssert \/ FlushRequest
  PROVE  PathKept
<1>1. /\ todo = <<>> /\ main = "dispatch"
      /\ UNCHANGED <<vars, m_cur_file, m_shall_stop, media, used, deleted, m_buffer, log_on>>
      /\ working' \in BOOLEAN
  BY DEF StopLogging, CloseOnAssert, FlushRequest, Idle, InHandler, storOnly, pipeVars, PathInv, PipeTypes
<1>2. \/ todo' = <<"pipe_flush", "stor_flush", "stop", "off">>
      \/ todo' = <<"pipe_flush", "stor_flush", "truncate">>
      \/ todo' = <<"pipe_flush", "stor_flush", "stop">>
      \/ todo' = <<"pipe_flush", "stor_flush">>
      \/ todo' = <<"stop">>
  <2>1. CASE StopLogging
    BY <2>1 DEF StopLogging
  <2>2. CASE CloseOnAssert
    BY <2>2 DEF CloseOnAssert
  <2>3. CASE FlushRequest
    BY <2>3 DEF FlushRequest
  <2> QED
    BY <2>1, <2>2, <2>3
<1>3. /\ ShapeOf(todo') /\ First' \in {"pipe_flush", "sched_flush", "stop", "end"}
      /\ Second' \notin Writing
  BY <1>2, HandlerBegins
<1>4. First = "end"
  BY <1>1, IdleState
<1>5. Agree'
  BY <1>1, <1>3, <1>4, Same, AgreeKept DEF PathInv, StorageInv
<1>6. DeviceTypes'
  BY CloseDeviceTypes DEF StopLogging, CloseOnAssert, FlushRequest, pipeVars, devVars,
                          PathInv, PipeTypes, DeviceTypes
<1>7. First' \notin Writing /\ First' # "amend" /\ log_on' \in BOOLEAN /\ media' \in Media \cup {NoMedia}
  BY <1>1, <1>3 DEF Writing, PathInv, PipeTypes, StorageTypes
<1> QED
  BY <1>1, <1>3, <1>4, <1>5, <1>6, <1>7, TodoKept

LEMMA MediaKept ==
  ASSUME PathInv, MediaEvent \/ MediaDisabled
  PROVE  PathKept
<1>1. /\ todo = <<>> /\ main = "dispatch"
      /\ UNCHANGED <<vars, m_cur_file, m_shall_stop, used, deleted, pipeVars>>
      /\ media' \in Media \cup {NoMedia}
  BY DEF MediaEvent, MediaDisabled, Idle, InHandler
<1>2. \/ todo' = <<>> /\ (media' = media \/ media = NoMedia)
      \/ todo' = <<"stop">>
      \/ todo' = <<"sched_flush", "close", "forget">>
  <2>1. CASE MediaEvent
    BY <2>1 DEF MediaEvent
  <2>2. CASE MediaDisabled
    BY <2>2 DEF MediaDisabled, OnCurMediaDisabled
  <2> QED
    BY <2>1, <2>2
<1>3. /\ ShapeOf(todo') /\ Second' \notin Writing
      /\ First' \in {"pipe_flush", "sched_flush", "stop", "end"}
      /\ todo' = <<"stop">> => First' = "stop"
      /\ todo' = <<"sched_flush", "close", "forget">> => First' = "sched_flush"
  BY <1>2, HandlerBegins
<1>4. First = "end" /\ m_file = CurFile /\ (media = NoMedia => CurFile = NoFile)
  BY <1>1, IdleState
<1>5. CurFile' = CurFile /\ m_file' = m_file
  BY <1>1, Same DEF CurFile
<1>6. Agree'
  <2>1. media' = NoMedia => CurFile = NoFile \/ First' \in {"stop", "sched_flush"}
    BY <1>2, <1>3, <1>4
  <2> QED
    BY <1>3, <1>4, <1>5, <2>1 DEF Agree
<1>7. DeviceTypes' /\ UNCHANGED <<m_buffer, log_on, working>>
  BY <1>1 DEF pipeVars, devVars, DeviceTypes, PathInv, PipeTypes
<1>8. First' \notin Writing /\ First' # "amend" /\ log_on' \in BOOLEAN /\ working' \in BOOLEAN
  BY <1>3, <1>7 DEF Writing, PathInv, PipeTypes
<1> QED
  BY <1>1, <1>3, <1>4, <1>6, <1>7, <1>8, TodoKept

LEMMA LoggingOffKept ==
  ASSUME PathInv, LoggingOff \/ TruncateLog
  PROVE  PathKept
<1>1. PICK l \in {"off", "truncate"} : Call(l)
  BY DEF LoggingOff, TruncateLog
<1>2. /\ UNCHANGED <<vars, m_cur_file, m_shall_stop, media, used, deleted, m_buffer, working>>
      /\ log_on' \in BOOLEAN
  BY DEF LoggingOff, TruncateLog, storOnly, pipeVars, PathInv, PipeTypes
<1>3. ShapeOf(todo) /\ First = l /\ MayFollow(l, Second)
  BY <1>1, CalledFirst DEF PathInv
<1>4. Second = "end"
  <2>1. CASE l = "off"
    BY <1>3, <2>1 DEF MayFollow, Then
  <2>2. CASE l = "truncate"
    BY <1>3, <2>2 DEF MayFollow, Then
  <2> QED
    BY <2>1, <2>2
<1>5. ShapeOf(todo') /\ First' \in {"sched_flush", "end"} /\ Second' \notin Writing
  <2>1. CASE Continue(<<>>)
    <3>1. Flow /\ First' = Second
      BY <1>1, <1>3, <2>1, FlowEnds
    <3> QED
      BY <1>3, <1>4, <3>1 DEF Flow, Writing
  <2>2. CASE Continue(OnCurMediaDisabled)
    <3>1. /\ {"sched_flush", "close", "forget"} \subseteq Labels
          /\ MayFollow("sched_flush", "close") /\ Then("close", "forget") /\ Then("forget", "end")
          /\ "close" \notin Writing
      BY DEF Labels, MayFollow, Then, Writing
    <3>2. Continue(<<"sched_flush", "close", "forget">>)
      BY <2>2 DEF OnCurMediaDisabled
    <3>3. ShapeOf(todo') /\ First' = "sched_flush" /\ Second' = "close"
      BY <1>1, <1>3, <1>4, <3>1, <3>2, Continue3
    <3> QED
      BY <3>1, <3>3
  <2> QED
    BY <2>1, <2>2 DEF LoggingOff, TruncateLog
<1>6. Agree'
  BY <1>2, <1>3, <1>5, Same, AgreeKept DEF PathInv, StorageInv
<1>7. DeviceTypes'
  BY CloseDeviceTypes DEF LoggingOff, TruncateLog, pipeVars, devVars, PathInv, PipeTypes, DeviceTypes
<1>8. /\ First # "amend" /\ First' # "amend" /\ First' \notin Writing
      /\ main \in {"dispatch", "callback"} /\ First' # "pipe_flush"
      /\ media' \in Media \cup {NoMedia} /\ working' \in BOOLEAN
  BY <1>2, <1>3, <1>5, Ends, CalledFirst, <1>1 DEF Writing, PathInv, PipeTypes, StorageTypes, StorageInv, Mode
<1> QED
  BY <1>2, <1>5, <1>6, <1>7, <1>8, TodoKept

\* get_free_buffer(): the handler has one block more, an empty one, or none.
LEMMA FreeBufferGot ==
  ASSUME PathInv, GetFreeBuffer
  PROVE  /\ [Next]_vars /\ main = "dispatch"
         /\ UNCHANGED <<m_file, main, content, m_cur_req>>
         /\ IF m_buffers # {}
            THEN \E b \in Buffers : b \notin held /\ content[b] = <<>> /\ held' = held \cup {b}
            ELSE held' = held
<1>1. /\ [Next]_vars /\ main = "dispatch"
      /\ UNCHANGED <<m_file, main, content, m_cur_req>>
  BY DEF GetFreeBuffer, Next, InHandler, chanVars, loopVars
<1>2. m_buffers \subseteq Buffers /\ m_buffers \cap held = {} /\ \A b \in m_buffers : content[b] = <<>>
  BY AccountedParts DEF PathInv, SchedulerInv, Control, ControlTypeOK, IdleEmpty, Accounted
<1>3. CASE m_buffers # {}
  BY <1>1, <1>2, <1>3 DEF GetFreeBuffer
<1>4. CASE m_buffers = {}
  BY <1>1, <1>4 DEF GetFreeBuffer
<1> QED
  BY <1>1, <1>3, <1>4

LEMMA PipeProcessKept ==
  ASSUME PathInv, PipeProcess
  PROVE  PathKept
<1>1. /\ todo = <<>> /\ main = "dispatch" /\ UNCHANGED <<storOnly, log_on, working>>
      /\ UNCHANGED <<m_cur_file, m_shall_stop, media, used, deleted>>
  BY DEF PipeProcess, Idle, InHandler, storOnly
<1>2. First = "end" /\ Second = "end" /\ held = {m_buffer} \ {NoBuffer} /\ NoBuffer \notin Buffers
  BY <1>1, IdleState
<1>3. DeviceTypes' /\ log_on' \in BOOLEAN /\ working' \in BOOLEAN /\ StorageTypes'
  BY <1>1 DEF PipeProcess, DeviceTypes, PathInv, PipeTypes, StorageTypes
<1>4. ASSUME [Next]_vars, UNCHANGED <<m_file, main>>, todo' = <<"read">> \/ todo' = <<>>,
             m_buffer' \in Buffers \cup {NoBuffer}, BlocksHeld' \/ held' = {m_buffer'} \ {NoBuffer}
      PROVE  PathKept
  <2>1. ShapeOf(todo') /\ First' \in {"read", "end"} /\ Second' = "end"
    <3>1. CASE todo' = <<"read">>
      <4>1. "read" \in Labels /\ MayFollow("read", "end")
        BY DEF Labels, MayFollow
      <4> QED
        BY <3>1, <4>1, Begin1
    <3>2. CASE todo' = <<>>
      BY <3>2, NothingLeft DEF ShapeOf, First, Second, LabelAt
    <3> QED
      BY <1>4, <3>1, <3>2
  <2>2. Agree'
    BY <1>1, <1>2, <1>4, <2>1, AgreeKept DEF PathInv, StorageInv
  <2>3. Mode' /\ WriteReady'
    BY <1>1, <1>4, <2>1 DEF Mode, WriteReady, Writing
  <2>4. BlocksHeld'
    BY <1>4, <2>1 DEF BlocksHeld
  <2> QED
    BY <1>3, <1>4, <2>1, <2>2, <2>3, <2>4 DEF PathKept, StorageInv, PipeTypes
<1>5. CASE m_buffer # NoBuffer
  <2>1. todo' = <<"read">> /\ UNCHANGED <<vars, m_buffer>>
    BY <1>5 DEF PipeProcess
  <2> QED
    BY <1>2, <1>4, <2>1, Same DEF PathInv, PipeTypes
<1>6. CASE m_buffer = NoBuffer
  <2>1. GetFreeBuffer
    BY <1>6 DEF PipeProcess
  <2>2. CASE m_buffers # {}
    <3>1. m_buffer' \in held' \ held /\ todo' = <<"read">>
      BY <1>6, <2>2 DEF PipeProcess
    <3>2. held' = {m_buffer'} \ {NoBuffer} /\ m_buffer' \in Buffers
      BY <1>2, <1>6, <2>1, <2>2, <3>1, FreeBufferGot
    <3> QED
      BY <1>4, <2>1, <3>1, <3>2, FreeBufferGot
  <2>3. CASE m_buffers = {}
    <3>1. UNCHANGED <<m_buffer, todo>>
      BY <1>6, <2>3 DEF PipeProcess
    <3> QED
      BY <1>1, <1>2, <1>4, <1>6, <2>1, <2>3, <3>1, FreeBufferGot
  <2> QED
    BY <2>2, <2>3
<1> QED
  BY <1>5, <1>6

LEMMA StartLoggingKept ==
  ASSUME PathInv, StartLogging
  PROVE  PathKept
<1>1. /\ todo = <<>> /\ main = "dispatch" /\ UNCHANGED storVars /\ working' = working /\ log_on' = TRUE
  BY DEF StartLogging, Idle, InHandler
<1>2. First = "end" /\ Second = "end" /\ held = {m_buffer} \ {NoBuffer} /\ NoBuffer \notin Buffers
  BY <1>1, IdleState
<1>3. UNCHANGED <<First, Second, m_cur_file, m_shall_stop, media, used, deleted, todo>>
  BY <1>1 DEF storVars, First, Second
<1>4. DeviceTypes'
  <2>1. DeviceTypes
    BY DEF PathInv, PipeTypes
  <2>2. OpenDevice(registered, pollin, reopen_timers) \/ UNCHANGED devVars
    BY DEF StartLogging
  <2> QED
    BY <2>1, <2>2, OpenDeviceTypes DEF DeviceTypes, devVars
<1>5. ASSUME [Next]_vars, UNCHANGED <<m_file, main>>,
             m_buffer' \in Buffers \cup {NoBuffer}, held' = {m_buffer'} \ {NoBuffer}
      PROVE  PathKept
  <2>1. StorageTypes' /\ ShapeOf(todo')
    BY <1>3 DEF PathInv, StorageTypes, StorageInv
  <2>2. Agree'
    BY <1>2, <1>3, <1>5, AgreeKept DEF PathInv, StorageInv
  <2>3. Mode' /\ WriteReady' /\ BlocksHeld'
    BY <1>2, <1>3, <1>5 DEF Mode, WriteReady, Writing, BlocksHeld
  <2> QED
    BY <1>1, <1>4, <1>5, <2>1, <2>2, <2>3 DEF PathKept, StorageInv, PipeTypes, PathInv
<1>6. CASE m_buffer # NoBuffer
  <2>1. UNCHANGED <<vars, m_buffer>>
    BY <1>6 DEF StartLogging
  <2> QED
    BY <1>2, <1>5, <2>1, Same DEF PathInv, PipeTypes
<1>7. CASE m_buffer = NoBuffer
  <2>1. GetFreeBuffer
    BY <1>7 DEF StartLogging
  <2>2. CASE m_buffers # {}
    <3>1. m_buffer' \in held' \ held
      BY <1>7, <2>2 DEF StartLogging
    <3>2. held' = {m_buffer'} \ {NoBuffer} /\ m_buffer' \in Buffers
      BY <1>2, <1>7, <2>1, <2>2, <3>1, FreeBufferGot
    <3> QED
      BY <1>5, <2>1, <3>2, FreeBufferGot
  <2>3. CASE m_buffers = {}
    <3>1. m_buffer' = m_buffer
      BY <1>7, <2>3 DEF StartLogging
    <3> QED
      BY <1>2, <1>5, <1>7, <2>1, <2>3, <3>1, FreeBufferGot
  <2> QED
    BY <2>2, <2>3
<1> QED
  BY <1>6, <1>7

\* A step of the handler that may hand its block on.
LEMMA PipeStepKept ==
  ASSUME PathInv, [Next]_vars, DeviceTypes',
         UNCHANGED <<m_file, main, m_cur_file, m_shall_stop, media, used, deleted, log_on, working>>,
         m_buffer' \in Buffers \cup {NoBuffer},
         First \notin {"open", "close", "forget", "stop", "sched_flush"},
         ShapeOf(todo'), First' \in {"write", "amend", "stor_flush", "end"}, Second' \notin Writing,
         main \in {"dispatch", "callback"},
         First' \in {"write", "amend"} => main = "dispatch",
         First' = "write" => m_buffer' \in held' /\ content'[m_buffer'] # <<>>,
         BlocksHeld'
  PROVE  PathKept
<1>1. StorageTypes' /\ PipeTypes'
  BY DEF PathInv, StorageTypes, PipeTypes
<1>2. Agree'
  BY AgreeKept DEF PathInv, StorageInv
<1>3. Mode' /\ WriteReady'
  BY DEF Mode, WriteReady, Writing
<1> QED
  BY <1>1, <1>2, <1>3 DEF PathKept, StorageInv

LEMMA PipeReadKept ==
  ASSUME PathInv, PipeRead
  PROVE  PathKept
<1>1. /\ Call("read") /\ UNCHANGED <<storOnly, m_buffer, log_on, working>>
      /\ UNCHANGED <<m_cur_file, m_shall_stop, media, used, deleted>>
  BY DEF PipeRead, storOnly
<1>2. ShapeOf(todo) /\ First = "read" /\ MayFollow("read", Second) /\ First # "end"
  BY <1>1, CalledFirst DEF PathInv
<1>3. Second = "end" /\ main \in {"dispatch", "callback"}
  BY <1>2 DEF MayFollow, Then, PathInv, StorageInv, Mode
<1>4. DeviceTypes /\ m_buffer \in Buffers \cup {NoBuffer} /\ BlocksHeld
  BY DEF PathInv, PipeTypes
<1>5. CASE Continue(<<>>)
  <2>1. ShapeOf(todo') /\ First' = "end" /\ Second' = "end"
    BY <1>1, <1>2, <1>3, <1>5, Continue0
  <2>2. CASE OpenDevice(FALSE, FALSE, reopen_timers) /\ UNCHANGED vars
    <3>1. DeviceTypes'
      BY <1>4, <2>2, OpenDeviceTypes DEF DeviceTypes
    <3>2. UNCHANGED <<m_file, main, held, content>> /\ [Next]_vars
      BY <2>2, Same
    <3>3. BlocksHeld'
      BY <1>1, <1>2, <1>4, <2>1, <3>2 DEF BlocksHeld
    <3> QED
      BY <1>1, <1>2, <1>3, <1>4, <2>1, <3>1, <3>2, <3>3, PipeStepKept DEF Writing
  <2>3. CASE Fill(m_buffer) /\ UNCHANGED devVars
    <3>1. UNCHANGED <<m_file, main, held>> /\ [Next]_vars /\ m_buffer \in held
      <4>1. held \subseteq Buffers
        BY DEF PathInv, SchedulerInv, Control, ControlTypeOK
      <4> QED
        BY <2>3, <4>1 DEF Fill, Next, loopVars
    <3>2. \A b \in held \ {m_buffer} : content'[b] = content[b]
      BY <2>3 DEF Fill, PathInv, SchedulerInv, Control, ControlTypeOK, ContentOfBlocks
    <3>3. BlocksHeld' /\ DeviceTypes'
      BY <1>1, <1>2, <1>4, <2>1, <2>3, <3>1, <3>2 DEF BlocksHeld, devVars, DeviceTypes
    <3> QED
      BY <1>1, <1>2, <1>3, <1>4, <2>1, <3>1, <3>3, PipeStepKept DEF Writing
  <2> QED
    BY <2>2, <2>3 DEF PipeRead
<1>6. CASE ~Continue(<<>>)
  <2>1. /\ Fill(m_buffer) /\ UNCHANGED devVars
        /\ Continue(<<"write">>) /\ Len(content'[m_buffer]) >= BufThreshold
    BY <1>6 DEF PipeRead
  <2>2. "write" \in Labels /\ MayFollow("write", Second)
    BY <1>3 DEF Labels, MayFollow
  <2>3. ShapeOf(todo') /\ First' = "write" /\ Second' = "end"
    BY <1>1, <1>2, <1>3, <2>1, <2>2, Continue1
  <2>4. UNCHANGED <<m_file, main, held>> /\ [Next]_vars /\ m_buffer \in held /\ main = "dispatch"
    <3>1. held \subseteq Buffers
      BY DEF PathInv, SchedulerInv, Control, ControlTypeOK
    <3> QED
      BY <2>1, <3>1 DEF Fill, Next, loopVars, InHandler
  <2>5. content'[m_buffer] # <<>>
    <3>1. Len(<<>>) = 0 /\ BufThreshold \in 1 .. BlockLen /\ BlockLen \in Nat
      BY PipeAssumption, SchedulerAssumption
    <3> QED
      BY <2>1, <3>1
  <2>6. \A b \in held \ {m_buffer} : content'[b] = content[b]
    BY <2>1 DEF Fill, PathInv, SchedulerInv, Control, ControlTypeOK, ContentOfBlocks
  <2>7. BlocksHeld' /\ DeviceTypes'
    BY <1>1, <1>2, <1>4, <2>1, <2>3, <2>4, <2>6 DEF BlocksHeld, devVars, DeviceTypes
  <2> QED
    BY <1>1, <1>2, <1>3, <1>4, <2>3, <2>4, <2>5, <2>7, PipeStepKept DEF Writing
<1> QED
  BY <1>5, <1>6

\* The block that is written leaves the handler, to the queue or to the idle
\* ones.
LEMMA PipeEnqueueKept ==
  ASSUME PathInv, PipeEnqueue
  PROVE  PathKept
<1>1. /\ Call("enqueue") /\ EnqueueData(m_buffer) /\ m_buffer' = NoBuffer /\ Continue(<<>>)
      /\ UNCHANGED <<storOnly, log_on, working, devVars>>
      /\ UNCHANGED <<m_cur_file, m_shall_stop, media, used, deleted>>
  BY DEF PipeEnqueue, storOnly
<1>2. /\ ShapeOf(todo) /\ First = "enqueue" /\ MayFollow("enqueue", Second) /\ First # "end"
      /\ flushing = "no"
  BY <1>1, CalledFirst DEF PathInv
<1>3. Second \in {"stor_flush", "end"}
  BY <1>2 DEF MayFollow, Then
<1>4. ShapeOf(todo') /\ First' \in {"stor_flush", "end"} /\ Second' \notin Writing
  <2>1. /\ ShapeOf(todo') /\ First' = Second
        /\ First' # "end" => Then(First', Second')
        /\ First' = "end" => Second' = "end"
    BY <1>1, <1>2, Continue0
  <2> QED
    BY <1>3, <2>1 DEF Then, Writing
<1>5. main = "dispatch" /\ m_buffer \in held /\ content[m_buffer] # <<>>
  BY <1>2 DEF PathInv, StorageInv, Mode, WriteReady, Writing
<1>6. m_file # NoFile
  BY <1>2 DEF PathInv, StorageInv, Agree
<1>7. [Next]_vars
  <2>1. held \subseteq Buffers
    BY DEF PathInv, SchedulerInv, Control, ControlTypeOK
  <2> QED
    BY <1>1, <1>2, <1>5, <1>6, <2>1 DEF Enqueue, InHandler, Next
<1>8. UNCHANGED <<m_file, main, content>> /\ held' = held \ {m_buffer}
  BY <1>1 DEF EnqueueData, loopVars
<1>9. BlocksHeld' /\ DeviceTypes'
  <2>1. held' = {}
    BY <1>2, <1>8 DEF PathInv, BlocksHeld
  <2>2. DeviceTypes'
    BY <1>1 DEF devVars, DeviceTypes, PathInv, PipeTypes
  <2> QED
    BY <1>1, <2>1, <2>2 DEF BlocksHeld
<1> QED
  BY <1>1, <1>2, <1>4, <1>5, <1>7, <1>8, <1>9, PipeStepKept

LEMMA PipeWriteFailedKept ==
  ASSUME PathInv, PipeWriteFailed
  PROVE  PathKept
<1>1. /\ Call("write_failed") /\ Continue(<<>>)
      /\ UNCHANGED <<storOnly, log_on, working, devVars>>
      /\ UNCHANGED <<m_cur_file, m_shall_stop, media, used, deleted>>
  BY DEF PipeWriteFailed, storOnly
<1>2. ShapeOf(todo) /\ First = "write_failed" /\ MayFollow("write_failed", Second) /\ First # "end"
  BY <1>1, CalledFirst DEF PathInv
<1>3. Second \in {"stor_flush", "end"}
  BY <1>2 DEF MayFollow, Then
<1>4. ShapeOf(todo') /\ First' \in {"stor_flush", "end"} /\ Second' \notin Writing
  <2>1. /\ ShapeOf(todo') /\ First' = Second
        /\ First' # "end" => Then(First', Second')
        /\ First' = "end" => Second' = "end"
    BY <1>1, <1>2, Continue0
  <2> QED
    BY <1>3, <2>1 DEF Then, Writing
<1>5. held \subseteq Buffers /\ held \ {m_buffer} = {} /\ DeviceTypes'
  BY <1>1, <1>2 DEF PathInv, BlocksHeld, PipeTypes, DeviceTypes, devVars, SchedulerInv, Control, ControlTypeOK
<1>6. CASE Drop(m_buffer) /\ UNCHANGED m_buffer
  <2>1. [Next]_vars /\ UNCHANGED <<m_file, main, held>> /\ main = "dispatch" /\ m_buffer \in held
    BY <1>5, <1>6 DEF Drop, Next, InHandler, loopVars
  <2>2. BlocksHeld'
    BY <1>5, <1>6, <2>1 DEF BlocksHeld
  <2> QED
    BY <1>1, <1>2, <1>4, <1>5, <1>6, <2>1, <2>2, PipeStepKept
<1>7. CASE FreeBuffer(m_buffer) /\ m_buffer' = NoBuffer
  <2>1. [Next]_vars /\ UNCHANGED <<m_file, main>> /\ held' = held \ {m_buffer} /\ main = "dispatch"
    BY <1>5, <1>7 DEF FreeBuffer, Next, InHandler, loopVars
  <2>2. BlocksHeld'
    BY <1>5, <1>7, <2>1 DEF BlocksHeld
  <2> QED
    BY <1>1, <1>2, <1>4, <1>5, <1>7, <2>1, <2>2, PipeStepKept
<1> QED
  BY <1>6, <1>7 DEF PipeWriteFailed

LEMMA PipeFlushKept ==
  ASSUME PathInv, PipeFlush
  PROVE  PathKept
<1>1. /\ Call("pipe_flush") /\ UNCHANGED <<storOnly, log_on, working, devVars>>
      /\ UNCHANGED <<m_cur_file, m_shall_stop, media, used, deleted>>
  BY DEF PipeFlush, storOnly
<1>2. /\ ShapeOf(todo) /\ First = "pipe_flush" /\ MayFollow("pipe_flush", Second) /\ First # "end"
  BY <1>1, CalledFirst DEF PathInv
<1>3. Second = "stor_flush" /\ main = "dispatch"
  BY <1>2 DEF MayFollow, Then, PathInv, StorageInv, Mode
<1>4. /\ held \subseteq Buffers /\ held \ {m_buffer} = {} /\ DeviceTypes'
      /\ NoBuffer \notin Buffers /\ m_buffer \in Buffers \cup {NoBuffer}
      /\ m_buffer # NoBuffer => m_buffer \in held
  BY <1>1, <1>2, PipeAssumption DEF PathInv, BlocksHeld, PipeTypes, DeviceTypes, devVars,
                                    SchedulerInv, Control, ControlTypeOK
<1>5. CASE m_buffer # NoBuffer /\ content[m_buffer] # <<>>
  <2>1. Continue(<<"write">>) /\ UNCHANGED <<vars, m_buffer>>
    BY <1>5 DEF PipeFlush
  <2>2. "write" \in Labels /\ MayFollow("write", Second)
    BY <1>3 DEF Labels, MayFollow
  <2>3. ShapeOf(todo') /\ First' = "write" /\ Second' = "stor_flush"
    BY <1>1, <1>2, <1>3, <2>1, <2>2, Continue1
  <2>4. [Next]_vars /\ UNCHANGED <<m_file, main, held, content>>
    BY <2>1, Same
  <2>5. BlocksHeld'
    BY <1>4, <2>1, <2>4 DEF BlocksHeld
  <2> QED
    BY <1>1, <1>2, <1>3, <1>4, <1>5, <2>1, <2>3, <2>4, <2>5, PipeStepKept DEF Writing
<1>6. CASE ~(m_buffer # NoBuffer /\ content[m_buffer] # <<>>)
  <2>1. /\ IF m_buffer # NoBuffer THEN FreeBuffer(m_buffer) ELSE UNCHANGED vars
        /\ m_buffer' = NoBuffer /\ Continue(<<>>)
    BY <1>6 DEF PipeFlush
  <2>2. ShapeOf(todo') /\ First' = "stor_flush" /\ Second' \notin Writing
    <3>1. /\ ShapeOf(todo') /\ First' = Second
          /\ First' # "end" => Then(First', Second')
      BY <1>1, <1>2, <2>1, Continue0
    <3> QED
      BY <1>3, <3>1 DEF Then, Writing
  <2>3. [Next]_vars /\ UNCHANGED <<m_file, main>> /\ held' = {}
    <3>1. CASE m_buffer # NoBuffer
      BY <1>4, <2>1, <3>1 DEF FreeBuffer, Next, loopVars
    <3>2. CASE m_buffer = NoBuffer
      BY <1>4, <2>1, <3>2, Same
    <3> QED
      BY <3>1, <3>2
  <2>4. BlocksHeld'
    BY <2>1, <2>3 DEF BlocksHeld
  <2> QED
    BY <1>1, <1>2, <1>3, <1>4, <2>1, <2>2, <2>3, <2>4, PipeStepKept
<1> QED
  BY <1>5, <1>6

\* Beside m_buffer the handler has a block for the amendment.
LEMMA AmendKept ==
  ASSUME PathInv, Amend
  PROVE  PathKept
<1>1. /\ todo = <<>> /\ main = "dispatch" /\ GetFreeBuffer
      /\ UNCHANGED <<storOnly, pipeVars>>
      /\ UNCHANGED <<m_cur_file, m_shall_stop, media, used, deleted, m_buffer, log_on, working>>
  BY DEF Amend, Idle, InHandler, storOnly, pipeVars
<1>2. First = "end" /\ held = {m_buffer} \ {NoBuffer} /\ NoBuffer \notin Buffers
  BY <1>1, IdleState
<1>3. DeviceTypes' /\ m_buffer \in Buffers \cup {NoBuffer} /\ BlocksHeld
  BY <1>1 DEF pipeVars, devVars, DeviceTypes, PathInv, PipeTypes
<1>4. [Next]_vars /\ UNCHANGED <<m_file, main, content>>
  BY <1>1, FreeBufferGot
<1>5. CASE m_buffers # {}
  <2>1. todo' = <<"amend">>
    BY <1>5 DEF Amend
  <2>2. "amend" \in Labels /\ MayFollow("amend", "end")
    BY DEF Labels, MayFollow
  <2>3. ShapeOf(todo') /\ First' = "amend" /\ Second' = "end"
    BY <2>1, <2>2, Begin1
  <2>4. PICK b \in Buffers : b \notin held /\ content[b] = <<>> /\ held' = held \cup {b}
    BY <1>1, <1>5, FreeBufferGot
  <2>5. BlocksHeld'
    BY <1>1, <1>2, <1>4, <2>3, <2>4 DEF BlocksHeld
  <2> QED
    BY <1>1, <1>2, <1>3, <1>4, <2>3, <2>5, PipeStepKept DEF Writing
<1>6. CASE m_buffers = {}
  <2>1. todo' = <<>>
    BY <1>6 DEF Amend
  <2>2. ShapeOf(todo') /\ First' = "end" /\ Second' = "end"
    BY <2>1, NothingLeft DEF ShapeOf, First, Second, LabelAt
  <2>3. held' = held
    BY <1>1, <1>6, FreeBufferGot
  <2>4. BlocksHeld'
    BY <1>1, <1>2, <1>3, <1>4, <2>2, <2>3 DEF BlocksHeld
  <2> QED
    BY <1>1, <1>2, <1>3, <1>4, <2>2, <2>4, PipeStepKept DEF Writing
<1> QED
  BY <1>5, <1>6

LEMMA PipeAmendKept ==
  ASSUME PathInv, PipeAmend
  PROVE  PathKept
<1>1. PICK b \in held \ {m_buffer} : AmendCurrentFile(b)
  BY DEF PipeAmend
<1>2. /\ Call("amend") /\ Continue(<<>>)
      /\ UNCHANGED <<m_cur_file, m_shall_stop, media, used, deleted, m_buffer, log_on, working>>
  BY <1>1 DEF AmendCurrentFile, PipeAmend, pipeVars
<1>3. /\ ShapeOf(todo) /\ First = "amend" /\ MayFollow("amend", Second) /\ First # "end"
      /\ flushing = "no"
  BY <1>2, CalledFirst DEF PathInv
<1>4. Second = "end" /\ main = "dispatch"
  BY <1>3 DEF MayFollow, Then, PathInv, StorageInv, Mode
<1>5. ShapeOf(todo') /\ First' = "end" /\ Second' = "end"
  BY <1>2, <1>3, <1>4, Continue0
<1>6. /\ b \in Buffers /\ content[b] = <<>> /\ held \ {m_buffer} = {b}
      /\ m_file = CurFile
  BY <1>3 DEF PathInv, BlocksHeld, StorageInv, Agree, SchedulerInv, Control, ControlTypeOK
<1>7. DeviceTypes' /\ m_buffer \in Buffers \cup {NoBuffer}
  BY DEF PipeAmend, pipeVars, devVars, DeviceTypes, PathInv, PipeTypes
<1>8. [Next]_vars /\ UNCHANGED <<m_file, main>> /\ held' = held \ {b}
  <2>1. CASE CurFile # NoFile
    <3>1. EnqueueOffset(b)
      BY <1>1, <2>1 DEF AmendCurrentFile
    <3>2. Enqueue(b)
      BY <1>3, <1>4, <1>6, <2>1, <3>1 DEF Enqueue, InHandler
    <3> QED
      BY <1>6, <3>1, <3>2 DEF Next, EnqueueOffset, loopVars
  <2>2. CASE CurFile = NoFile
    <3>1. FreeBuffer(b)
      BY <1>1, <2>2 DEF AmendCurrentFile
    <3> QED
      BY <1>6, <3>1 DEF Next, FreeBuffer, loopVars
  <2> QED
    BY <2>1, <2>2
<1>9. BlocksHeld'
  BY <1>2, <1>6, <1>8 DEF PathInv, BlocksHeld
<1> QED
  BY <1>2, <1>3, <1>4, <1>5, <1>7, <1>8, <1>9, PipeStepKept DEF Writing

------------------------------------------------------------------------------
(* The theorems.                                                             *)

LEMMA PathStep ==
  ASSUME PathInv, PathNext
  PROVE  PathKept
<1>1. CASE MainStep
  BY <1>1, RoundKept, CallbackDoneKept, PathFlushKept, PathStorageKept, PipeProcessKept, PipeReadKept,
     PipeEnqueueKept, PipeWriteFailedKept, PipeFlushKept, LoggingOffKept, PipeAmendKept DEF MainStep
<1>2. CASE PathThread
  BY <1>2, PathThreadKept
<1>3. CASE OutsideStep
  BY <1>3, StartLoggingKept, HandlerKept, ReopenKept, MediaKept, AmendKept DEF OutsideStep
<1> QED
  BY <1>1, <1>2, <1>3 DEF PathNext

LEMMA PathInvInit == PathInit => PathInv
<1> SUFFICES ASSUME PathInit PROVE PathInv
  OBVIOUS
<1>1. SchedulerInv /\ main = "poll" /\ m_file = NoFile /\ held = {}
  BY SchedulerInvInit DEF PathInit, Init
<1>2. StorageTypes
  BY DEF PathInit, StorInit, StorageTypes
<1>3. PipeTypes
  <2>1. 0 \in 0 .. MaxTimers
    BY PipeAssumption
  <2> QED
    BY <2>1 DEF PathInit, PipeTypes, DeviceTypes
<1>4. ShapeOf(todo) /\ First = "end" /\ Second = "end"
  BY NothingLeft DEF PathInit, StorInit, ShapeOf, First, Second
<1>5. CurFile = NoFile
  BY DEF PathInit, StorInit, CurFile
<1>6. Mode /\ Agree
  BY <1>1, <1>4, <1>5 DEF Mode, Writing, Agree
<1>7. WriteReady /\ BlocksHeld
  BY <1>1, <1>4 DEF PathInit, WriteReady, Writing, BlocksHeld
<1> QED
  BY <1>1, <1>2, <1>3, <1>4, <1>6, <1>7 DEF PathInv, StorageInv

LEMMA PathInvStep ==
  ASSUME PathInv, [PathNext]_pathVars
  PROVE  PathInv' /\ [Next]_vars
<1>1. PathKept
  <2>1. CASE UNCHANGED pathVars
    <3>1. UNCHANGED <<vars, storVars, m_buffer, log_on, working, devVars>>
      BY <2>1 DEF pathVars, pipeVars
    <3>2. log_on' \in BOOLEAN /\ working' \in BOOLEAN /\ DeviceTypes'
      BY <3>1 DEF devVars, DeviceTypes, PathInv, PipeTypes
    <3> QED
      BY <3>1, <3>2, DevicesKept
  <2> QED
    BY <2>1, PathStep
<1>2. SchedulerInv'
  BY <1>1, SchedulerInvStep DEF PathInv, PathKept
<1> QED
  BY <1>1, <1>2 DEF PathInv, PathKept

\* The handler, the storage and the scheduler agree, after every step of every
\* function, on the file, on the blocks and on what is left to do.
\* (LogPipeHandler, CpStorage and IoScheduler, from process() to on_io_done())
THEOREM PathInvariant == PathSpec => []PathInv
<1>1. PathInit => PathInv
  BY PathInvInit
<1>2. PathInv /\ [PathNext]_pathVars => PathInv'
  BY PathInvStep
<1> QED
  BY <1>1, <1>2, PTL DEF PathSpec

\* Whatever requests, timers, media and assertions come in between, the log pipe
\* handler and CpStorage call the scheduler only as io_sched.h allows: what is
\* proved of the scheduler with any such client holds with this one.
THEOREM ImplementsIoSchedulerHolds == PathSpec => ImplementsIoScheduler
<1>1. PathInit => Init
  BY DEF PathInit
<1>2. PathInv /\ [PathNext]_pathVars => [Next]_vars
  BY PathInvStep
<1> QED
  BY <1>1, <1>2, PathInvariant, PTL DEF PathSpec, ImplementsIoScheduler, Spec

\* When the main thread polls, CpStorage and the scheduler have the same current
\* file or both have none, and a block handed out is the one LogPipeHandler
\* fills; a file-written callback finds a medium, and the file its result names
\* to be the current one.  (m_cur_file, m_file, m_buffer; on_file_size_update())
THEOREM FileAgreementHolds == PathSpec => []FileAgreement
<1>1. PathInv => FileAgreement
  <2> SUFFICES ASSUME PathInv PROVE FileAgreement
    OBVIOUS
  <2>1. PathTypeOK
    <3>1. todo \in Seq(Labels) /\ m_cur_file \in FileOrNone
      BY DEF PathInv, StorageInv, ShapeOf, StorageTypes, FileOrNone
    <3> QED
      BY <3>1 DEF PathTypeOK, StorTypeOK, PathInv, SchedulerInv, Control, StorageTypes,
                  PipeTypes, DeviceTypes
  <2>2. ASSUME main = "poll" PROVE m_file = CurFile /\ held = {m_buffer} \ {NoBuffer}
    <3>1. First = "end"
      BY <2>2 DEF PathInv, StorageInv, Mode
    <3>2. todo = <<>>
      BY <3>1, LabelsOf DEF First, PathInv, StorageInv, ShapeOf
    <3> QED
      BY <3>2, IdleState
  <2>3. CallbackHasFile
    <3> SUFFICES ASSUME todo # <<>>, Head(todo) = "update_file"
                 PROVE  media # NoMedia /\ m_cur_req.file = m_cur_file
      BY DEF CallbackHasFile
    <3>1. First = "update_file"
      BY LabelsOf DEF First, PathInv, StorageInv, ShapeOf
    <3>2. CurFile # NoFile /\ m_cur_req.file = CurFile /\ media # NoMedia
      BY <3>1 DEF PathInv, StorageInv, Agree
    <3> QED
      BY <3>2 DEF CurFile
  <2> QED
    BY <2>1, <2>2, <2>3 DEF FileAgreement, HandlerOwnsBlocks
<1> QED
  BY <1>1, PathInvariant, PTL

\* So the log on the storage is the log read from the device, in order and
\* without repetition, with the log pipe and its storage as the client: it keeps
\* to what io_sched.h allows.
THEOREM PathImplementsLogStream == PathSpec => ImplementsLogStream /\ []SizeMatchesDisk
  BY ImplementsIoSchedulerHolds, RefinesLogStream, SizeMatchesDiskHolds, PTL DEF ImplementsIoScheduler

------------------------------------------------------------------------------
(* That a log device that was paused for want of a block is not forgotten, *)
(* for any number of blocks, files, media and units.                       *)

(* The inductive invariant, relative to PathInv.                             *)

\* The device is registered while it is open, opened once logging is on, and not
\* opened again while a timer is pending; what is reported of it is of an open
\* device that may be read.
Device ==
  /\ registered = dev_open
  /\ dev_open => log_on /\ reopen_timers = 0
  /\ reopen_timers <= 1
  /\ pipe_revents => dev_open /\ pollin
  /\ First = "read" => dev_open /\ pollin /\ ~pipe_revents

\* What the file-written callback does, and nobody else.
Updating == {"update", "update_media", "update_file", "update_reopen", "discard"}

InCallback ==
  First \in Updating \/ Second \in Updating \/ (First = "open" /\ Second # "enqueue") =>
    main = "callback"

\* A flush, or a result of the I/O thread, that ends with the callback.
WillReport == flushing # "no" \/ main = "callback"

Wakes ==
  Paused =>
    /\ m_report_buf_avail
    /\ m_buffer = NoBuffer
    /\ m_buffers = {} \/ m_file = NoFile \/ WillReport
    /\ First = "amend" => m_file = NoFile

WakeInv == Device /\ InCallback /\ Wakes

------------------------------------------------------------------------------
(* What is left to do.                                                       *)

LEMMA LabelAfter ==
  ASSUME NEW a \in Labels, NEW t \in Seq(Labels)
  PROVE  /\ <<a>> \o t \in Seq(Labels)
         /\ LabelAt(<<a>> \o t, 1) = a /\ LabelAt(<<a>> \o t, 2) = LabelAt(t, 1)
<1> DEFINE s == <<a>> \o t
<1>1. /\ s \in Seq(Labels) /\ LabelAt(s, 1) = a
      /\ \A i \in Nat \ {0} : LabelAt(s, i + 1) = LabelAt(t, i)
  BY LabelsOfPrefixed
<1> HIDE DEF s
<1>2. 1 \in Nat \ {0} /\ 1 + 1 = 2
  OBVIOUS
<1>3. LabelAt(s, 2) = LabelAt(t, 1)
  BY <1>1, <1>2
<1> QED
  BY <1>1, <1>3 DEF s

LEMMA OneLabel ==
  ASSUME ShapeOf(todo), NEW l, Call(l), NEW a \in Labels, Continue(<<a>>)
  PROVE  First' = a /\ Second' = Second
<1>1. Tail(todo) \in Seq(Labels) /\ LabelAt(Tail(todo), 1) = Second /\ todo' = <<a>> \o Tail(todo)
  BY Called DEF Continue
<1> QED
  BY <1>1, LabelAfter DEF First, Second

LEMMA TwoLabels ==
  ASSUME ShapeOf(todo), NEW l, Call(l), NEW a \in Labels, NEW b \in Labels, Continue(<<a, b>>)
  PROVE  First' = a /\ Second' = b
<1>1. Tail(todo) \in Seq(Labels) /\ todo' = <<a>> \o (<<b>> \o Tail(todo))
  BY Called, Join2 DEF Continue
<1>2. <<b>> \o Tail(todo) \in Seq(Labels) /\ LabelAt(<<b>> \o Tail(todo), 1) = b
  BY <1>1, LabelAfter
<1> QED
  BY <1>1, <1>2, LabelAfter DEF First, Second

\* A function of the storage goes on in the callback only if it began there.
Goes == First' # "read" /\ InCallback'

LEMMA GoesOut ==
  ASSUME StorageInv, InCallback, main' = main, NEW l, Call(l), Continue(<<>>)
  PROVE  Goes
<1>1. /\ First' = Second /\ MayFollow(l, Second)
      /\ First' # "end" => Then(First', Second')
      /\ First' = "end" => Second' = "end"
  BY Continue0, CalledFirst DEF StorageInv
<1>2. Second \notin {"read", "open"}
  BY <1>1 DEF MayFollow, Then
<1>3. Second' \notin Updating
  BY <1>1 DEF Then, Updating
<1> QED
  BY <1>1, <1>2, <1>3 DEF Goes, InCallback

LEMMA GoesByOne ==
  ASSUME StorageInv, InCallback, main' = main, NEW l, Call(l), NEW a \in Labels \ {"read"},
         Continue(<<a>>), a \in Updating \cup {"open"} => l \in Updating
  PROVE  Goes
<1>1. First' = a /\ Second' = Second /\ First = l
  BY OneLabel, CalledFirst DEF StorageInv
<1> QED
  BY <1>1 DEF Goes, InCallback, Updating

LEMMA GoesByTwo ==
  ASSUME StorageInv, InCallback, main' = main, NEW l, Call(l), NEW a \in Labels \ {"read"},
         NEW b \in Labels, Continue(<<a, b>>),
         a \in Updating \/ b \in Updating => l \in Updating, a = "open" => b = "enqueue"
  PROVE  Goes
<1>1. First' = a /\ Second' = b /\ First = l
  BY TwoLabels, CalledFirst DEF StorageInv
<1> QED
  BY <1>1 DEF Goes, InCallback, Updating

LEMMA MediaGoes ==
  ASSUME StorageInv, InCallback, main' = main, NEW l, Call(l),
         NEW a \in Labels \ {"read", "open"}, NEW b \in Labels \ {"read", "open"},
         a \in Updating \/ b \in Updating => l \in Updating,
         CheckMediaChange(<<a>>, <<b>>)
  PROVE  Goes
<1>1. \/ Continue(<<a>>)
      \/ Continue(<<b>>)
      \/ Continue(<<"stop", b>>)
  BY MediaCheck
<1>2. "stop" \in Labels \ {"read"} /\ "stop" \notin Updating
  BY DEF Labels, Updating
<1> QED
  BY <1>1, <1>2, GoesByOne, GoesByTwo

LEMMA WriteGoes ==
  ASSUME StorageInv, InCallback, Write \/ WriteFile \/ WriteCreate
  PROVE  Goes
<1>1. main' = main
  BY Same DEF Write, WriteFile, WriteCreate
<1>2. /\ {"write_failed", "write_file", "enqueue", "write_create"} \subseteq Labels \ {"read", "open"}
      /\ {"write_failed", "write_file", "enqueue", "write_create"} \cap Updating = {}
      /\ "open" \in Labels \ {"read"} /\ "open" \notin Updating
  BY DEF Labels, Updating
<1>3. ASSUME NEW l, Call(l), NEW a \in {"write_failed", "write_file", "enqueue", "write_create"},
             Continue(<<a>>)
      PROVE  Goes
  BY <1>1, <1>2, <1>3, GoesByOne
<1>4. CASE Write
  <2>1. Call("write") /\ \E a \in {"write_failed", "write_file", "enqueue", "write_create"} : Continue(<<a>>)
    BY <1>4 DEF Write
  <2> QED
    BY <1>3, <2>1
<1>5. CASE WriteFile
  <2>1. Call("write_file")
        /\ (Continue(<<"enqueue">>) \/ CheckMediaChange(<<"write_create">>, <<"write_create">>))
    BY <1>5 DEF WriteFile
  <2> QED
    BY <1>1, <1>2, <1>3, <2>1, MediaGoes
<1>6. CASE WriteCreate
  <2>1. Call("write_create") /\ (Continue(<<"open", "enqueue">>) \/ Continue(<<"write_failed">>))
    BY <1>6 DEF WriteCreate, CreateFile
  <2>2. CASE Continue(<<"open", "enqueue">>)
    BY <1>1, <1>2, <2>1, <2>2, GoesByTwo
  <2> QED
    BY <1>3, <2>1, <2>2
<1> QED
  BY <1>4, <1>5, <1>6

LEMMA UpdateGoes ==
  ASSUME StorageInv, InCallback, Update \/ UpdateMedia \/ UpdateFile \/ UpdateReopen
  PROVE  Goes
<1>1. main' = main
  BY Same DEF Update, UpdateMedia, UpdateFile, UpdateReopen
<1>2. /\ {"update_file", "update_media", "discard", "update_reopen", "close"} \subseteq Labels \ {"read", "open"}
      /\ "open" \in Labels \ {"read"} /\ "close" \notin Updating
      /\ {"update", "update_file", "update_media", "update_reopen"} \subseteq Updating
  BY DEF Labels, Updating
<1>3. CASE Update
  <2>1. Call("update") /\ CheckMediaChange(<<"update_file">>, <<"update_media">>)
    BY <1>3 DEF Update
  <2> QED
    BY <1>1, <1>2, <2>1, MediaGoes
<1>4. CASE UpdateMedia \/ UpdateReopen
  <2>1. PICK l \in {"update_media", "update_reopen"} : Call(l)
    BY <1>4 DEF UpdateMedia, UpdateReopen
  <2>2. Continue(<<>>) \/ Continue(<<"discard">>) \/ Continue(<<"open">>)
    BY <1>4 DEF UpdateMedia, UpdateReopen, CreateFile
  <2>3. CASE Continue(<<>>)
    BY <1>1, <2>1, <2>3, GoesOut
  <2>4. CASE Continue(<<"discard">>)
    BY <1>1, <1>2, <2>1, <2>4, GoesByOne
  <2>5. CASE Continue(<<"open">>)
    BY <1>1, <1>2, <2>1, <2>5, GoesByOne
  <2> QED
    BY <2>2, <2>3, <2>4, <2>5
<1>5. CASE UpdateFile
  <2>1. Call("update_file")
        /\ (Continue(<<"close">> \o <<"update_reopen">>) \/ Continue(<<>> \o <<"update_reopen">>))
    BY <1>5 DEF UpdateFile
  <2>2. <<"close">> \o <<"update_reopen">> = <<"close", "update_reopen">>
        /\ <<>> \o <<"update_reopen">> = <<"update_reopen">>
    BY <1>2, PairOf, ConcatEmptySeq
  <2>3. CASE Continue(<<"close", "update_reopen">>)
    BY <1>1, <1>2, <2>1, <2>3, GoesByTwo
  <2>4. CASE Continue(<<"update_reopen">>)
    BY <1>1, <1>2, <2>1, <2>4, GoesByOne
  <2> QED
    BY <2>1, <2>2, <2>3, <2>4
<1> QED
  BY <1>3, <1>4, <1>5

\* The other functions end, and what was to be done after them is done.
LEMMA LastGoes ==
  ASSUME StorageInv, InCallback,
         OpenFile \/ CloseFile \/ Discard \/ StopStorage \/ FlushStorage \/ Forget
  PROVE  Goes
<1>1. main' = main
  BY Same DEF OpenFile, CloseFile, Discard, StopStorage, FlushStorage, Forget,
              SetFile, Close, DiscardQueue, Flush, loopVars
<1>2. /\ Continue(<<>>)
      /\ \E l \in {"open", "close", "discard", "stop", "sched_flush", "stor_flush", "forget"} : Call(l)
  BY DEF OpenFile, CloseFile, Discard, StopStorage, FlushStorage, Forget
<1> QED
  BY <1>1, <1>2, GoesOut

LEMMA CallbackGoes ==
  ASSUME WrittenCallback
  PROVE  Goes
<1>1. main' = "callback" /\ (todo' = <<"update">> \/ todo' = <<>>)
  BY DEF WrittenCallback, OnIoDone
<1>2. First' # "read"
  BY <1>1 DEF First, LabelAt
<1> QED
  BY <1>1, <1>2 DEF Goes, InCallback

------------------------------------------------------------------------------
(* The steps.                                                                *)

\* The handler of a paused device has no block to write.
LEMMA PausedHasNoBlock ==
  ASSUME PathInv, WakeInv, Paused
  PROVE  /\ m_buffer \notin held /\ m_buffer = NoBuffer /\ m_report_buf_avail
         /\ First \notin Writing /\ Second \notin Writing /\ First # "read"
         /\ m_buffers = {} \/ m_file = NoFile \/ WillReport
<1>1. held \subseteq Buffers /\ NoBuffer \notin Buffers
  BY PipeAssumption DEF PathInv, SchedulerInv, Control, ControlTypeOK
<1> QED
  BY <1>1 DEF WakeInv, Wakes, Device, Paused, PathInv, WriteReady

LEMMA StorageWakes ==
  ASSUME PathInv, WakeInv, PathStorage
  PROVE  WakeInv'
<1>1. StorageStep /\ UNCHANGED pipeVars
  BY DEF PathStorage
<1>2. UNCHANGED <<m_buffer, log_on, dev_open, registered, pollin, reopen_timers, pipe_revents>>
  BY <1>1 DEF pipeVars, devVars
<1>3. StorageInv /\ InCallback
  BY DEF PathInv, WakeInv
<1>4. First' # "read" /\ InCallback'
  BY <1>1, <1>3, WriteGoes, UpdateGoes, LastGoes, CallbackGoes DEF StorageStep, Goes
<1>5. First' # "amend"
  BY <1>1, StorageSteps DEF PathInv, Flow
<1>6. Device'
  BY <1>2, <1>4 DEF Device, WakeInv
<1>7. ASSUME Paused
      PROVE  m_report_buf_avail' /\ (m_buffers' = {} \/ m_file' = NoFile \/ WillReport')
  <2>1. /\ m_report_buf_avail /\ Second \notin Writing
        /\ m_buffers = {} \/ m_file = NoFile \/ WillReport
    BY <1>7, PausedHasNoBlock
  <2>2. CASE UNCHANGED vars
    BY <2>1, <2>2, Same DEF WillReport, vars, schedVars
  <2>3. CASE Close
    BY <2>1, <2>3 DEF Close
  <2>4. CASE OpenFile
    <3>1. Call("open") /\ SetFile(m_cur_file)
      BY <2>4 DEF OpenFile
    <3>2. First = "open" /\ Second # "enqueue"
      BY <1>3, <2>1, <3>1, CalledFirst DEF Writing
    <3>3. main = "callback"
      BY <1>3, <3>2 DEF InCallback
    <3> QED
      BY <2>1, <3>1, <3>3 DEF SetFile, WillReport, loopVars
  <2>5. CASE Discard
    <3>1. Call("discard") /\ DiscardQueue
      BY <2>5 DEF Discard
    <3>2. First = "discard"
      BY <1>3, <3>1, CalledFirst
    <3>3. main = "callback"
      BY <1>3, <3>2 DEF InCallback, Updating
    <3> QED
      BY <2>1, <3>1, <3>3 DEF DiscardQueue, WillReport, loopVars
  <2>6. CASE Flush
    <3>1. flushing' # "no"
      BY <2>6 DEF Flush
    <3> QED
      BY <2>1, <2>6, <3>1 DEF Flush, schedVars, WillReport
  <2>7. CASE OnIoDone
    BY <2>1, <2>7 DEF OnIoDone, WillReport
  <2>8. CASE Write \/ WriteFile \/ WriteCreate \/ Update \/ UpdateMedia \/ UpdateFile \/ UpdateReopen \/ Forget
    BY <2>2, <2>8 DEF Write, WriteFile, WriteCreate, Update, UpdateMedia, UpdateFile, UpdateReopen, Forget
  <2>9. CASE CloseFile \/ StopStorage \/ FlushStorage \/ WrittenCallback
    BY <2>2, <2>3, <2>6, <2>7, <2>9 DEF CloseFile, StopStorage, FlushStorage, WrittenCallback
  <2> QED
    BY <1>1, <2>4, <2>5, <2>8, <2>9 DEF StorageStep
<1>8. Wakes'
  BY <1>2, <1>5, <1>7 DEF Wakes, WakeInv, Paused
<1> QED
  BY <1>4, <1>6, <1>8 DEF WakeInv

\* Steps of the loop that lead to no callback.
LEMMA RoundWakes ==
  ASSUME PathInv, WakeInv, PathPoll \/ PathEndRound \/ PathChannelEvent \/ PathThread
  PROVE  WakeInv'
<1>1. /\ UNCHANGED <<m_buffers, m_file, m_report_buf_avail, flushing>>
      /\ UNCHANGED <<todo, m_buffer, log_on, dev_open, registered, pollin, reopen_timers>>
  BY DEF PathPoll, PathEndRound, PathChannelEvent, PathThread, Poll, EndRound, Process, ThreadStep,
         schedVars, loopVars, storVars, pipeVars, devVars
<1>2. First' = First /\ Second' = Second
  BY <1>1 DEF First, Second
<1>3. main' = main \/ (main # "callback" /\ main' # "callback")
  BY DEF PathPoll, PathEndRound, PathChannelEvent, PathThread, Poll, EndRound, Process, ThreadStep,
         InHandler, loopVars
<1>4. Device'
  <2>1. CASE PathPoll
    <3>1. First = "end"
      BY <2>1 DEF PathPoll, Poll, PathInv, StorageInv, Mode
    <3>2. pipe_revents' \in {FALSE, registered /\ pollin /\ next_unit <= MaxUnits}
      BY <2>1 DEF PathPoll
    <3> QED
      BY <1>1, <1>2, <3>1, <3>2 DEF Device, WakeInv
  <2>2. CASE PathEndRound \/ PathChannelEvent \/ PathThread
    <3>1. pipe_revents' = pipe_revents
      BY <2>2 DEF PathEndRound, PathChannelEvent, PathThread, pipeVars, devVars
    <3> QED
      BY <1>1, <1>2, <3>1 DEF Device, WakeInv
  <2> QED
    BY <2>1, <2>2
<1>5. InCallback'
  BY <1>2, <1>3 DEF InCallback, WakeInv
<1>6. Wakes'
  BY <1>1, <1>2, <1>3 DEF Wakes, WakeInv, Paused, WillReport
<1> QED
  BY <1>4, <1>5, <1>6 DEF WakeInv

\* The callback wakes the device, or there is no block still.
LEMMA ReportWakes ==
  ASSUME WakeInv, ReportBufAvail, BufAvailCallback,
         UNCHANGED <<m_file, m_buffer, log_on, dev_open, registered, todo>>
  PROVE  Wakes'
<1>1. First' = First
  BY DEF First
<1>2. SUFFICES ASSUME Paused'
               PROVE  m_report_buf_avail' /\ m_buffers' = {} /\ m_buffer = NoBuffer
                      /\ (First = "amend" => m_file = NoFile)
  BY <1>1 DEF Wakes
<1>3. Paused /\ registered /\ ~(m_report_buf_avail /\ ~m_report_buf_avail')
  BY <1>2 DEF Paused, BufAvailCallback, WakeInv, Device
<1> QED
  BY <1>3 DEF WakeInv, Wakes, ReportBufAvail

LEMMA CallbackDoneWakes ==
  ASSUME PathInv, WakeInv, PathCallbackDone
  PROVE  WakeInv'
<1>1. /\ CallbackDone /\ BufAvailCallback /\ todo = <<>>
      /\ UNCHANGED <<m_buffer, log_on, dev_open, registered, reopen_timers, pipe_revents, todo>>
  BY DEF PathCallbackDone, storVars
<1>2. First' = "end" /\ Second' = "end"
  BY <1>1, IdleState DEF First, Second
<1>3. Wakes'
  BY <1>1, ReportWakes DEF CallbackDone
<1>4. Device' /\ InCallback'
  BY <1>1, <1>2 DEF Device, InCallback, Updating, BufAvailCallback, WakeInv
<1> QED
  BY <1>3, <1>4 DEF WakeInv

LEMMA FlushWakes ==
  ASSUME PathInv, WakeInv, PathFlush
  PROVE  WakeInv'
<1>1. /\ BufAvailCallback
      /\ UNCHANGED <<m_buffer, log_on, dev_open, registered, reopen_timers, pipe_revents, todo>>
  BY DEF PathFlush, storVars
<1>2. First' = First /\ Second' = Second
  BY <1>1 DEF First, Second
<1>3. UNCHANGED <<main, m_file>>
  BY DEF PathFlush, FlushSettle, FlushCommit, FlushAwait, FlushReport
<1>4. Wakes'
  <2>1. CASE FlushReport
    BY <1>1, <1>3, <2>1, ReportWakes DEF FlushReport
  <2>2. CASE FlushSettle \/ FlushCommit \/ FlushAwait
    <3>1. m_report_buf_avail' = m_report_buf_avail /\ flushing' # "no"
      BY <2>2 DEF FlushSettle, FlushCommit, FlushAwait
    <3>2. Paused' => Paused
      BY <1>1 DEF Paused, BufAvailCallback
    <3> QED
      BY <1>1, <1>2, <1>3, <3>1, <3>2 DEF Wakes, WillReport, WakeInv
  <2> QED
    BY <2>1, <2>2 DEF PathFlush
<1>5. Device' /\ InCallback'
  BY <1>1, <1>2, <1>3 DEF Device, InCallback, BufAvailCallback, WakeInv
<1> QED
  BY <1>4, <1>5 DEF WakeInv

\* The device is opened by who is not registered: it can be read, or is closed.
LEMMA OpenWakes ==
  ASSUME NEW events, OpenDevice(FALSE, events, 0), ~pipe_revents, log_on',
         First' \notin Updating \cup {"open", "read"}, Second' \notin Updating
  PROVE  WakeInv'
<1>1. (FALSE => events) = TRUE /\ 0 + 1 = 1
  OBVIOUS
<1>2. \/ dev_open' = TRUE /\ registered' = TRUE /\ pollin' = TRUE /\ reopen_timers' = 0
      \/ dev_open' = FALSE /\ registered' = FALSE /\ reopen_timers' = 0 + 1
  BY <1>1 DEF OpenDevice
<1>3. ~pipe_revents'
  BY DEF OpenDevice
<1>4. Device'
  <2>1. First' # "read"
    OBVIOUS
  <2>2. dev_open' => reopen_timers' = 0 /\ pollin'
    BY <1>2
  <2>3. reopen_timers' <= 1 /\ registered' = dev_open'
    <3>1. reopen_timers' = 0 \/ reopen_timers' = 1
      BY <1>1, <1>2
    <3>2. CASE dev_open' = TRUE /\ registered' = TRUE
      <4>1. registered' = dev_open'
        BY <3>2, Zenon
      <4> QED
        BY <3>1, <4>1
    <3>3. CASE dev_open' = FALSE /\ registered' = FALSE
      <4>1. registered' = dev_open'
        BY <3>3, Zenon
      <4> QED
        BY <3>1, <4>1
    <3> QED
      BY <1>2, <3>2, <3>3, Zenon
  <2> QED
    BY <1>3, <2>1, <2>2, <2>3 DEF Device
<1>5. InCallback' /\ Wakes'
  BY <1>2 DEF InCallback, Wakes, Paused
<1> QED
  BY <1>4, <1>5 DEF WakeInv

\* A step that leaves the device and the idle blocks as they are.
LEMMA QuietWakes ==
  ASSUME PathInv, WakeInv,
         UNCHANGED <<m_buffers, m_file, m_report_buf_avail, flushing, main, m_buffer, log_on>>,
         UNCHANGED devVars,
         First' \notin Updating \cup {"open", "read", "amend"}, Second' \notin Updating
  PROVE  WakeInv'
<1>1. UNCHANGED <<dev_open, registered, pollin, reopen_timers, pipe_revents>>
  BY DEF devVars
<1> QED
  BY <1>1 DEF WakeInv, Device, InCallback, Wakes, Paused, WillReport

LEMMA ProcessWakes ==
  ASSUME PathInv, WakeInv, PipeProcess
  PROVE  WakeInv'
<1>1. /\ todo = <<>> /\ pipe_revents /\ pipe_revents' = FALSE
      /\ UNCHANGED <<log_on, dev_open, registered, reopen_timers>>
  BY DEF PipeProcess, Idle
<1>2. dev_open /\ pollin
  BY <1>1 DEF WakeInv, Device
<1>3. \/ todo' = <<"read">> /\ pollin' = pollin
      \/ /\ UNCHANGED <<todo, m_buffer>>
         /\ m_buffer = NoBuffer /\ m_buffers' = {} /\ m_report_buf_avail' = TRUE
  BY <1>1 DEF PipeProcess, GetFreeBuffer
<1>4. CASE todo' = <<"read">> /\ pollin' = pollin
  <2>1. First' = "read" /\ Second' = "end"
    BY <1>4 DEF First, Second, LabelAt
  <2> QED
    BY <1>1, <1>2, <1>4, <2>1 DEF WakeInv, Device, InCallback, Updating, Wakes, Paused
<1>5. CASE /\ UNCHANGED <<todo, m_buffer>>
           /\ m_buffer = NoBuffer /\ m_buffers' = {} /\ m_report_buf_avail' = TRUE
  <2>1. First' = "end" /\ Second' = "end"
    BY <1>1, <1>5, IdleState DEF First, Second
  <2> QED
    BY <1>1, <1>2, <1>5, <2>1 DEF WakeInv, Device, InCallback, Updating, Wakes, Paused
<1> QED
  BY <1>3, <1>4, <1>5

LEMMA ReadWakes ==
  ASSUME PathInv, WakeInv, PipeRead
  PROVE  WakeInv'
<1>1. Call("read") /\ UNCHANGED <<m_buffer, log_on>>
  BY DEF PipeRead
<1>2. ShapeOf(todo) /\ First = "read" /\ MayFollow("read", Second)
  BY <1>1, CalledFirst DEF PathInv
<1>3. dev_open /\ pollin /\ ~pipe_revents /\ log_on /\ reopen_timers = 0 /\ Second = "end"
  BY <1>2 DEF WakeInv, Device, MayFollow, Then
<1>4. /\ First' \in {"write", "end"} /\ Second' = "end"
      /\ First' \notin Updating \cup {"open", "read"} /\ Second' \notin Updating
  <2>1. CASE Continue(<<>>)
    <3>1. First' = "end" /\ Second' = "end"
      BY <1>1, <1>2, <1>3, <2>1, Continue0
    <3> QED
      BY <3>1 DEF Updating
  <2>2. CASE Continue(<<"write">>)
    <3>1. "write" \in Labels
      BY DEF Labels
    <3>2. First' = "write" /\ Second' = "end"
      BY <1>1, <1>2, <1>3, <2>2, <3>1, OneLabel
    <3> QED
      BY <3>2 DEF Updating
  <2> QED
    BY <2>1, <2>2 DEF PipeRead
<1>5. CASE UNCHANGED devVars
  BY <1>1, <1>3, <1>4, <1>5 DEF devVars, WakeInv, Device, InCallback, Wakes, Paused
<1>6. CASE OpenDevice(FALSE, FALSE, reopen_timers)
  BY <1>1, <1>3, <1>4, <1>6, OpenWakes
<1> QED
  BY <1>5, <1>6 DEF PipeRead

\* A paused device has no block to write, or to give back.
LEMMA WriteWakes ==
  ASSUME PathInv, WakeInv, PipeEnqueue \/ PipeWriteFailed \/ PipeFlush
  PROVE  WakeInv'
<1>1. PICK l \in {"enqueue", "write_failed", "pipe_flush"} : Call(l)
  BY DEF PipeEnqueue, PipeWriteFailed, PipeFlush
<1>2. /\ UNCHANGED <<log_on, dev_open, registered, pollin, reopen_timers, pipe_revents>>
  BY DEF PipeEnqueue, PipeWriteFailed, PipeFlush, devVars
<1>3. ShapeOf(todo) /\ First = l /\ MayFollow(l, Second)
  BY <1>1, CalledFirst DEF PathInv
<1>4. Second \in {"stor_flush", "end"}
  BY <1>3 DEF MayFollow, Then
<1>5. /\ First' \notin Updating \cup {"open", "read", "amend"} /\ Second' \notin Updating
  <2>1. CASE Continue(<<>>)
    <3>1. /\ First' = Second
          /\ First' # "end" => Then(First', Second')
          /\ First' = "end" => Second' = "end"
      BY <1>1, <1>3, <2>1, Continue0
    <3> QED
      BY <1>4, <3>1 DEF Then, Updating
  <2>2. CASE Continue(<<"write">>)
    <3>1. "write" \in Labels
      BY DEF Labels
    <3>2. First' = "write" /\ Second' = Second
      BY <1>1, <1>3, <2>2, <3>1, OneLabel
    <3> QED
      BY <1>4, <3>2 DEF Updating
  <2> QED
    BY <2>1, <2>2 DEF PipeEnqueue, PipeWriteFailed, PipeFlush
<1>6. Device' /\ InCallback'
  BY <1>2, <1>5 DEF WakeInv, Device, InCallback
<1>7. Wakes'
  <2>1. SUFFICES ASSUME Paused PROVE Wakes'
    BY <1>2 DEF Wakes, Paused
  <2>2. m_buffer \notin held /\ m_buffer = NoBuffer /\ First \notin Writing
    BY <2>1, PausedHasNoBlock
  <2>3. CASE PipeEnqueue
    <3>1. First = "enqueue"
      BY <2>3, CalledFirst DEF PipeEnqueue, PathInv
    <3> QED
      BY <2>2, <3>1 DEF Writing
  <2>4. CASE PipeWriteFailed
    BY <2>2, <2>4 DEF PipeWriteFailed, Drop, FreeBuffer
  <2>5. CASE PipeFlush
    <3>1. UNCHANGED vars /\ m_buffer' = NoBuffer
      BY <2>2, <2>5 DEF PipeFlush
    <3> QED
      BY <1>2, <1>5, <2>2, <3>1, Same DEF WakeInv, Wakes, Paused, WillReport, vars, schedVars
  <2> QED
    BY <2>3, <2>4, <2>5
<1> QED
  BY <1>6, <1>7 DEF WakeInv

LEMMA OffWakes ==
  ASSUME PathInv, WakeInv, LoggingOff \/ TruncateLog
  PROVE  WakeInv'
<1>1. PICK l \in {"off", "truncate"} : Call(l)
  BY DEF LoggingOff, TruncateLog
<1>2. ShapeOf(todo) /\ First = l /\ MayFollow(l, Second)
  BY <1>1, CalledFirst DEF PathInv
<1>3. Second = "end"
  BY <1>2 DEF MayFollow, Then
<1>4. First' \notin Updating \cup {"open", "read", "amend"} /\ Second' \notin Updating
  <2>1. CASE Continue(<<>>)
    <3>1. First' = "end" /\ Second' = "end"
      BY <1>1, <1>2, <1>3, <2>1, Continue0
    <3> QED
      BY <3>1 DEF Updating
  <2>2. CASE Continue(OnCurMediaDisabled)
    <3>1. /\ {"sched_flush", "close", "forget"} \subseteq Labels
          /\ MayFollow("sched_flush", "close") /\ Then("close", "forget") /\ Then("forget", "end")
      BY DEF Labels, MayFollow, Then
    <3>2. Continue(<<"sched_flush", "close", "forget">>)
      BY <2>2 DEF OnCurMediaDisabled
    <3>3. First' = "sched_flush" /\ Second' = "close"
      BY <1>1, <1>2, <1>3, <3>1, <3>2, Continue3
    <3> QED
      BY <3>3 DEF Updating
  <2> QED
    BY <2>1, <2>2 DEF LoggingOff, TruncateLog
<1>5. CASE TruncateLog
  BY <1>4, <1>5, QuietWakes, Same DEF TruncateLog, pipeVars, vars, schedVars
<1>6. CASE LoggingOff
  <2>1. CloseDevice
    BY <1>6 DEF LoggingOff
  <2>2. ~dev_open' /\ ~registered' /\ ~pipe_revents' /\ reopen_timers' = reopen_timers
    BY <2>1 DEF CloseDevice, WakeInv, Device
  <2>3. Device'
    BY <1>4, <2>2, <2>1 DEF Device, WakeInv, CloseDevice
  <2> QED
    BY <1>4, <2>2, <2>3 DEF WakeInv, InCallback, Wakes, Paused
<1> QED
  BY <1>5, <1>6

LEMMA StartWakes ==
  ASSUME PathInv, WakeInv, StartLogging
  PROVE  WakeInv'
<1>1. /\ todo = <<>> /\ todo' = todo /\ ~log_on /\ log_on' = TRUE /\ reopen_timers = 0
  BY DEF StartLogging, Idle, storVars
<1>2. First' = "end" /\ Second' = "end"
  BY <1>1, IdleState DEF First, Second
<1>3. ~dev_open /\ registered = FALSE /\ ~pipe_revents
  BY <1>1 DEF WakeInv, Device, PathInv, PipeTypes, DeviceTypes
<1>4. First' \notin Updating \cup {"open", "read"} /\ Second' \notin Updating
  BY <1>2 DEF Updating
<1>5. CASE OpenDevice(registered, pollin, reopen_timers)
  BY <1>1, <1>3, <1>4, <1>5, OpenWakes
<1>6. CASE UNCHANGED devVars
  BY <1>1, <1>3, <1>4, <1>6 DEF devVars, WakeInv, Device, InCallback, Wakes, Paused
<1> QED
  BY <1>5, <1>6 DEF StartLogging

LEMMA ReopenWakes ==
  ASSUME PathInv, WakeInv, ReopenDevice \/ ProcessAlive \/ OtherAlive
  PROVE  WakeInv'
<1>1. /\ todo = <<>> /\ todo' = todo /\ main' = main
      /\ UNCHANGED <<m_buffer, log_on, m_buffers, m_file, m_report_buf_avail, flushing>>
  BY Same DEF ReopenDevice, ProcessAlive, OtherAlive, Idle, storVars, vars, schedVars
<1>2. First' = "end" /\ Second' = "end"
  BY <1>1, IdleState DEF First, Second
<1>3. First' \notin Updating \cup {"open", "read", "amend"} /\ Second' \notin Updating
  BY <1>2 DEF Updating
<1>4. registered \in BOOLEAN /\ reopen_timers \in Nat
  BY PipeAssumption DEF PathInv, PipeTypes, DeviceTypes
<1>5. CASE ReopenDevice
  <2>1. /\ reopen_timers > 0 /\ reopen_timers <= 1 /\ registered = dev_open
        /\ dev_open => reopen_timers = 0
        /\ pipe_revents => dev_open
    BY <1>5 DEF ReopenDevice, WakeInv, Device
  <2>2. reopen_timers - 1 = 0 /\ ~dev_open
    BY <1>4, <2>1
  <2>3. registered = FALSE /\ ~pipe_revents
    BY <1>4, <2>1, <2>2
  <2>4. CASE log_on /\ OpenDevice(registered, pollin, reopen_timers - 1)
    BY <1>1, <1>3, <2>2, <2>3, <2>4, OpenWakes
  <2>5. CASE reopen_timers' = reopen_timers - 1
             /\ UNCHANGED <<dev_open, registered, pollin, pipe_revents>>
    BY <1>1, <1>3, <2>2, <2>3, <2>5 DEF WakeInv, Device, InCallback, Wakes, Paused
  <2> QED
    BY <1>5, <2>4, <2>5 DEF ReopenDevice
<1>6. CASE ProcessAlive
  <2>1. CASE log_on /\ ~dev_open /\ OpenDevice(registered, pollin, 0)
    <3>1. registered = FALSE /\ ~pipe_revents
      BY <1>4, <2>1 DEF WakeInv, Device
    <3> QED
      BY <1>1, <1>3, <2>1, <3>1, OpenWakes
  <2>2. CASE UNCHANGED devVars
    BY <1>1, <1>3, <2>2, QuietWakes
  <2> QED
    BY <1>6, <2>1, <2>2 DEF ProcessAlive
<1>7. CASE OtherAlive
  BY <1>1, <1>3, <1>7 DEF OtherAlive, WakeInv, Device, InCallback, Wakes, Paused, WillReport
<1> QED
  BY <1>5, <1>6, <1>7

\* Handlers that begin with the functions of the storage.
LEMMA HandlerWakes ==
  ASSUME PathInv, WakeInv,
         StopLogging \/ CloseOnAssert \/ FlushRequest \/ MediaEvent \/ MediaDisabled
  PROVE  WakeInv'
<1>1. UNCHANGED <<vars, m_buffer, log_on>>
  BY DEF StopLogging, CloseOnAssert, FlushRequest, MediaEvent, MediaDisabled, pipeVars
<1>2. First' \notin Updating \cup {"open", "read", "amend"} /\ Second' \notin Updating
  <2>1. \/ todo' = <<"pipe_flush", "stor_flush", "stop", "off">>
        \/ todo' = <<"pipe_flush", "stor_flush", "truncate">>
        \/ todo' = <<"pipe_flush", "stor_flush", "stop">>
        \/ todo' = <<"pipe_flush", "stor_flush">>
        \/ todo' = <<"sched_flush", "close", "forget">>
        \/ todo' = <<"stop">>
        \/ todo' = <<>>
    <3>1. CASE StopLogging
      BY <3>1 DEF StopLogging
    <3>2. CASE CloseOnAssert
      BY <3>2 DEF CloseOnAssert
    <3>3. CASE FlushRequest
      BY <3>3 DEF FlushRequest
    <3>4. CASE MediaEvent
      BY <3>4 DEF MediaEvent
    <3>5. CASE MediaDisabled
      BY <3>5 DEF MediaDisabled, OnCurMediaDisabled
    <3> QED
      BY <3>1, <3>2, <3>3, <3>4, <3>5
  <2>2. /\ First' \in {"pipe_flush", "sched_flush", "stop", "end"}
        /\ Second' \in {"stor_flush", "close", "end"}
    BY <2>1, HandlerBegins
  <2> QED
    BY <2>2 DEF Updating
<1>3. CASE UNCHANGED devVars
  BY <1>1, <1>2, <1>3, QuietWakes, Same DEF vars, schedVars
<1>4. CASE CloseDevice
  <2>1. ~dev_open' /\ ~registered' /\ ~pipe_revents' /\ reopen_timers' = reopen_timers
    BY <1>4 DEF CloseDevice, WakeInv, Device
  <2>2. Device'
    BY <1>2, <1>4, <2>1 DEF Device, WakeInv, CloseDevice
  <2> QED
    BY <1>2, <2>1, <2>2 DEF WakeInv, InCallback, Wakes, Paused
<1> QED
  BY <1>3, <1>4 DEF StopLogging, CloseOnAssert, FlushRequest, MediaEvent, MediaDisabled, pipeVars

\* While the device is paused no block is idle, unless no file is open.
LEMMA AmendWakes ==
  ASSUME PathInv, WakeInv, Amend \/ PipeAmend
  PROVE  WakeInv'
<1>1. UNCHANGED <<m_buffer, log_on, dev_open, registered, pollin, reopen_timers, pipe_revents>>
  BY DEF Amend, PipeAmend, pipeVars, devVars
<1>2. CASE Amend
  <2>1. /\ todo = <<>> /\ GetFreeBuffer /\ UNCHANGED <<m_file, main, flushing>> /\ ~WillReport
        /\ todo' = <<"amend">> \/ todo' = <<>>
        /\ todo' = <<"amend">> => m_buffers # {}
    BY <1>2 DEF Amend, Idle, GetFreeBuffer, InHandler, WillReport, loopVars
  <2>2. First' \in {"amend", "end"} /\ Second' = "end" /\ (First' = "amend" => m_buffers # {})
    BY <2>1 DEF First, Second, LabelAt
  <2>3. Device' /\ InCallback'
    BY <1>1, <2>2 DEF WakeInv, Device, InCallback, Updating
  <2>4. ASSUME Paused
        PROVE  /\ m_report_buf_avail'
               /\ m_buffers' = {} \/ m_file' = NoFile
               /\ First' = "amend" => m_file' = NoFile
    <3>1. m_report_buf_avail /\ (m_buffers = {} \/ m_file = NoFile)
      BY <2>1, <2>4, PausedHasNoBlock
    <3> QED
      BY <2>1, <2>2, <3>1 DEF GetFreeBuffer
  <2>5. Wakes'
    BY <1>1, <2>4 DEF WakeInv, Wakes, Paused
  <2> QED
    BY <2>3, <2>5 DEF WakeInv
<1>3. CASE PipeAmend
  <2>1. PICK b \in held \ {m_buffer} : AmendCurrentFile(b)
    BY <1>3 DEF PipeAmend
  <2>2. /\ Call("amend") /\ Continue(<<>>)
        /\ UNCHANGED <<m_file, m_report_buf_avail>>
    BY <2>1 DEF AmendCurrentFile, EnqueueOffset, FreeBuffer
  <2>3. ShapeOf(todo) /\ First = "amend" /\ MayFollow("amend", Second)
    BY <2>2, CalledFirst DEF PathInv
  <2>4. First' = "end" /\ Second' = "end"
    <3>1. Second = "end"
      BY <2>3 DEF MayFollow, Then
    <3> QED
      BY <2>2, <2>3, <3>1, Continue0
  <2> QED
    BY <1>1, <2>2, <2>3, <2>4 DEF WakeInv, Device, InCallback, Updating, Wakes, Paused
<1> QED
  BY <1>2, <1>3

------------------------------------------------------------------------------
(* The theorem.                                                              *)

LEMMA WakeStep ==
  ASSUME PathInv, WakeInv, [PathNext]_pathVars
  PROVE  WakeInv'
<1>1. CASE MainStep
  BY <1>1, RoundWakes, CallbackDoneWakes, FlushWakes, StorageWakes, ProcessWakes, ReadWakes,
     WriteWakes, OffWakes, AmendWakes DEF MainStep
<1>2. CASE PathThread
  BY <1>2, RoundWakes
<1>3. CASE OutsideStep
  BY <1>3, StartWakes, HandlerWakes, ReopenWakes, AmendWakes DEF OutsideStep
<1>4. CASE UNCHANGED pathVars
  <2>1. /\ UNCHANGED <<vars, todo, m_buffer, log_on, devVars>>
        /\ UNCHANGED <<dev_open, registered, pollin, reopen_timers, pipe_revents>>
    BY <1>4 DEF pathVars, storVars, pipeVars, devVars
  <2>2. First' = First /\ Second' = Second
    BY <2>1 DEF First, Second
  <2> QED
    BY <2>1, <2>2, Same DEF WakeInv, Device, InCallback, Wakes, Paused, WillReport, vars, schedVars
<1> QED
  BY <1>1, <1>2, <1>3, <1>4 DEF PathNext

\* Between two rounds a log device whose POLLIN is off is one the scheduler owes
\* a callback, and all blocks are away, so that the next one that comes back
\* wakes it; but when stop() closed the file.  (process(), buf_avail_callback()
\* of LogPipeHandler; m_report_buf_avail)
THEOREM NoLostWakeupHolds == PathSpec => []NoLostWakeup
<1>1. PathInit => WakeInv
  <2> SUFFICES ASSUME PathInit PROVE WakeInv
    OBVIOUS
  <2>1. First = "end" /\ Second = "end"
    BY DEF PathInit, StorInit, First, Second, LabelAt
  <2>2. registered = dev_open
    BY Zenon DEF PathInit
  <2> QED
    BY <2>1, <2>2 DEF PathInit, WakeInv, Device, InCallback, Updating, Wakes, Paused
<1>2. PathInv /\ WakeInv /\ [PathNext]_pathVars => WakeInv'
  BY WakeStep
<1>3. PathInv /\ WakeInv => NoLostWakeup
  <2> SUFFICES ASSUME PathInv, WakeInv, main = "poll", Paused
               PROVE  m_report_buf_avail /\ (m_buffers = {} \/ m_file = NoFile)
    BY DEF NoLostWakeup
  <2>1. ~WillReport
    BY DEF WillReport, PathInv, SchedulerInv, Control, MainPhase
  <2> QED
    BY <2>1, PausedHasNoBlock
<1> QED
  BY <1>1, <1>2, <1>3, PathInvariant, PTL DEF PathSpec
=============================================================================
