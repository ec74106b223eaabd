--------------------------- MODULE LogConvey_proofs ---------------------------
(***************************************************************************)
(* Of LogConvey, for any work routines, requests, units, media and events: *)
(* the invariants of the convey workshop.                                  *)
(***************************************************************************)
EXTENDS LogConvey, SequenceTheorems, FiniteSetTheorems, WellFoundedInduction, TLAPS

Messages == [event : Events, arg : Nat \cup Media \cup {NoMedia}]
Entries == [client : Clients \cup {NoClient}, num : Int]

\* The units that are in a queue or in the hands of a routine.
LiveUnits ==
  Range(raw_material) \cup Range(semi_material) \cup Range(products)
    \cup (Range(holding) \ {NoUnit})

\* Every one is in one place.
PlacesInv ==
  /\ IsInjective(raw_material) /\ IsInjective(semi_material) /\ IsInjective(products)
  /\ \A v, w \in Workers : holding[v] = holding[w] => v = w \/ holding[v] = NoUnit
  /\ Range(raw_material) \cap Range(semi_material) = {}
  /\ Range(products) \cap (Range(raw_material) \cup Range(semi_material)) = {}
  /\ Range(holding) \cap (Range(raw_material) \cup Range(semi_material) \cup Range(products)) = {}

\* What the main thread and the routines may assume where they are.
ControlInv ==
  /\ \A w \in Workers : holding[w] # NoUnit <=> worker[w] \in {"convey", "product"}
  /\ semi_material # <<>> => doing \in {"changed", "inactive", "cancel"}
  /\ stage # "next" =>
       /\ doing \in {"process", "changed", "inactive"}
       /\ item \in Units
       /\ unit[item].tag \in DOMAIN client_table
  /\ doing = "cancel" => arg \in DOMAIN client_table /\ client_table[arg].client = NoClient
  /\ doing = "clear" => arg \in Nat
  /\ doing \in {"changed", "inactive"} => arg \in Media

\* The unit that is reported is in no queue, nor is one of a request not begun.
FreshInv ==
  /\ stage = "callback" => item \notin LiveUnits
  /\ \A c \in Clients : state_[c] = "TS_NOT_BEGIN" =>
       /\ UnitsOf[c] \cap LiveUnits = {}
       /\ stage # "next" => item \notin UnitsOf[c]

BaseInv == TypeOK /\ PlacesInv /\ ControlInv /\ FreshInv

\* The tag of u is that of an entry of its own request, or of one canceled.
Ours(u) ==
  /\ unit[u].tag \in DOMAIN client_table
  /\ \A c \in Clients : client_table[unit[u].tag].client = c => u \in UnitsOf[c]

WithTag(t) == {u \in LiveUnits : unit[u].tag = t}

CountInv ==
  doing \notin {"clear", "crashed"} =>
    /\ \A t \in DOMAIN client_table : client_table[t].num = Cardinality(WithTag(t))
    /\ \A u \in LiveUnits : Ours(u)

\* The request of entry t waits for the units that the entry counts, the one that
\* is being reported included.
Awaits(t) ==
  /\ state_[client_table[t].client] = "TS_EXECUTING"
  /\ item_num_[client_table[t].client] =
       client_table[t].num + (IF stage = "callback" /\ unit[item].tag = t THEN 1 ELSE 0)

\* The request of entry t has ended with the unit that has just been reported.
Answered(t) ==
  /\ stage \in {"finished", "tidy"}
  /\ unit[item].tag = t
  /\ client_table[t].num = 0
  /\ state_[client_table[t].client] = "TS_FINISHED"

RequestInv ==
  doing # "crashed" =>
    /\ stage = "callback" => Ours(item) /\ client_table[unit[item].tag].client # NoClient
    /\ \A t \in DOMAIN client_table : client_table[t].client # NoClient => Awaits(t) \/ Answered(t)
    /\ \A s, t \in DOMAIN client_table :
         client_table[s].client = client_table[t].client => s = t \/ client_table[s].client = NoClient
    /\ \A c \in Clients : state_[c] = "TS_EXECUTING" =>
         item_num_[c] > 0 /\ \E t \in DOMAIN client_table : client_table[t].client = c

HasCleared == \E i \in DOMAIN spent : spent[i] = "clear"
\* The routine has still to read the message of clear(); it has read it with a
\* unit in its hands.
Cleaning(w) == \E i \in DOMAIN messages[w] : messages[w][i].event = "Clean"
Handing(w) == worker[w] \in {"product", "feedback"} /\ fb[w] = "WorkRoutineClean"

QuietInv ==
  ~HasCleared =>
    /\ doing \notin {"clear", "crashed"}
    /\ \A w \in Workers : ~Cleaning(w) /\ fb[w] = "ItemFinish"
    /\ \A i \in DOMAIN feedback : feedback[i] = "ItemFinish"

\* Each routine answers clear() once, with its last message.
Answers(w) ==
  /\ Cleaning(w) =>
       /\ fb[w] = "ItemFinish"
       /\ \A i \in DOMAIN messages[w] : messages[w][i].event = "Clean" <=> i = Len(messages[w])
  /\ ~Cleaning(w) =>
       /\ messages[w] = <<>>
       /\ worker[w] # "convey"
       /\ worker[w] \in {"product", "feedback"} => fb[w] = "WorkRoutineClean"

AnswersDue ==
  Cardinality({w \in Workers : Cleaning(w)}) + Cardinality({w \in Workers : Handing(w)})
    + Count(feedback, "WorkRoutineClean")

AnswerInv ==
  doing = "clear" =>
    /\ raw_material = <<>>
    /\ \A w \in Workers : Answers(w)
    /\ arg = AnswersDue

\* A queue of units that go to the current medium.
Current(queue) == \A u \in Range(queue) : u \notin Fixed => unit[u].dest = media

\* A routine that conveys to another medium will read a message that stops it.
Stops(w) ==
  worker[w] = "convey" /\ holding[w] \notin Fixed /\ unit[holding[w]].dest # media =>
    \E i \in DOMAIN messages[w] : StateAfter(holding[w], messages[w][i]) # "OnGoing"

MediumInv ==
  subscribed /\ media # NoMedia =>
    /\ Current(raw_material)
    /\ doing \in {"inactive", "cancel"} => Current(semi_material)
    /\ \A w \in Workers : Stops(w)

FirstInv == FirstClear => CountInv /\ RequestInv /\ AnswerInv /\ MediumInv

\* No request has been canceled, no log cleared.
Undisturbed == \A i \in DOMAIN spent : spent[i] \notin {"cancel", "clear"}
OverStates == {"Done", "Failed", "SrcVanish", "DestVanish", "CommonDestVanish", "CommonDestChange"}

\* The units that are under way or being reported.
Pending == LiveUnits \cup {u \in Units : stage = "callback" /\ u = item}

Calm ==
  /\ doing \notin {"cancel", "clear", "crashed"}
  /\ \A w \in Workers : \A i \in DOMAIN messages[w] : messages[w][i].event \notin {"Clean", "Cancel"}

\* A unit that a routine or an operation is done with says how it ended.
OverInv ==
  /\ \A u \in Range(products) : unit[u].state \in OverStates
  /\ \A w \in Workers : worker[w] = "product" => unit[holding[w]].state \in OverStates
  /\ stage = "callback" => unit[item].state \in OverStates

\* An entry loses its request with its last unit.
OrphanInv ==
  \A t \in DOMAIN client_table : client_table[t].client = NoClient => client_table[t].num = 0

EndedInv ==
  /\ \A c \in Clients : state_[c] = "TS_EXECUTING" =>
       \A u \in UnitsOf[c] : u \in Pending \/ fail_num_[c] > 0 \/ unit[u].state = "Done"
  /\ \A c \in Clients : state_[c] = "TS_FINISHED" /\ result_[c] = "TRANS_R_SUCCESS" =>
       \A u \in UnitsOf[c] : unit[u].state = "Done" /\ u \notin Pending

DoneInv == Undisturbed => Calm /\ OverInv /\ OrphanInv /\ EndedInv

------------------------------------------------------------------------------
(* Sequences.                                                              *)

LEMMA EmptyParts == Range(<<>>) = {} /\ IsInjective(<<>>)
BY DEF Range, IsInjective

LEMMA TailParts ==
  ASSUME NEW S, NEW q \in Seq(S), q # <<>>
  PROVE  /\ Head(q) \in S /\ Tail(q) \in Seq(S)
         /\ Range(q) = Range(Tail(q)) \cup {Head(q)}
         /\ IsInjective(q) => IsInjective(Tail(q)) /\ Head(q) \notin Range(Tail(q))
<1>1. /\ Len(q) \in Nat \ {0} /\ DOMAIN q = 1 .. Len(q)
      /\ Tail(q) \in Seq(S) /\ Len(Tail(q)) = Len(q) - 1
      /\ DOMAIN Tail(q) = 1 .. Len(q) - 1
      /\ \A i \in 1 .. Len(q) - 1 : Tail(q)[i] = q[i + 1]
      /\ Head(q) = q[1] /\ Head(q) \in S
  BY HeadTailProperties, LenProperties, EmptySeq
<1>2. ASSUME NEW x \in Range(q)
      PROVE  x \in Range(Tail(q)) \cup {Head(q)}
  <2>1. PICK i \in 1 .. Len(q) : x = q[i]
    BY <1>1 DEF Range
  <2>2. CASE i = 1
    BY <1>1, <2>1, <2>2
  <2>3. CASE i # 1
    <3>1. i - 1 \in 1 .. Len(q) - 1 /\ (i - 1) + 1 = i
      BY <1>1, <2>3
    <3>2. Tail(q)[i - 1] = x
      BY <1>1, <2>1, <3>1
    <3> QED
      BY <1>1, <3>1, <3>2 DEF Range
  <2> QED
    BY <2>2, <2>3
<1>3. Range(Tail(q)) \subseteq Range(q)
  BY <1>1 DEF Range
<1>4. Head(q) \in Range(q)
  BY <1>1 DEF Range
<1>5. ASSUME IsInjective(q)
      PROVE  IsInjective(Tail(q)) /\ Head(q) \notin Range(Tail(q))
  <2>1. \A i, j \in 1 .. Len(q) : q[i] = q[j] => i = j
    BY <1>1, <1>5 DEF IsInjective
  <2>2. ASSUME NEW i \in 1 .. Len(q) - 1, NEW j \in 1 .. Len(q) - 1, Tail(q)[i] = Tail(q)[j]
        PROVE  i = j
    <3>1. q[i + 1] = q[j + 1] /\ i + 1 \in 1 .. Len(q) /\ j + 1 \in 1 .. Len(q)
      BY <1>1, <2>2
    <3> QED
      BY <2>1, <3>1
  <2>3. ASSUME NEW i \in 1 .. Len(q) - 1
        PROVE  Tail(q)[i] # Head(q)
    <3>1. Tail(q)[i] = q[i + 1] /\ i + 1 \in 1 .. Len(q) /\ 1 \in 1 .. Len(q) /\ i + 1 # 1
      BY <1>1
    <3> QED
      BY <1>1, <2>1, <3>1
  <2> QED
    BY <1>1, <2>2, <2>3 DEF IsInjective, Range
<1> QED
  BY <1>1, <1>2, <1>3, <1>4, <1>5

LEMMA AppendParts ==
  ASSUME NEW S, NEW q \in Seq(S), NEW x \in S
  PROVE  /\ Append(q, x) \in Seq(S)
         /\ Range(Append(q, x)) = Range(q) \cup {x}
         /\ IsInjective(q) /\ x \notin Range(q) => IsInjective(Append(q, x))
<1>1. /\ Len(q) \in Nat /\ DOMAIN q = 1 .. Len(q)
      /\ Append(q, x) \in Seq(S)
      /\ DOMAIN Append(q, x) = 1 .. Len(q) + 1
      /\ \A i \in 1 .. Len(q) : Append(q, x)[i] = q[i]
      /\ Append(q, x)[Len(q) + 1] = x
  BY AppendProperties, LenProperties
<1>2. 1 .. Len(q) + 1 = (1 .. Len(q)) \cup {Len(q) + 1}
  BY <1>1
<1> DEFINE r == Append(q, x)
<1> HIDE DEF r
<1>3. /\ DOMAIN r = (1 .. Len(q)) \cup {Len(q) + 1}
      /\ \A i \in 1 .. Len(q) : r[i] = q[i]
      /\ r[Len(q) + 1] = x
  BY <1>1, <1>2 DEF r
<1>4. Range(r) = Range(q) \cup {x}
  BY <1>1, <1>3 DEF Range
<1>5. ASSUME IsInjective(q), x \notin Range(q)
      PROVE  IsInjective(r)
  <2>1. \A i \in 1 .. Len(q) : q[i] # x
    BY <1>1, <1>5 DEF Range
  <2> QED
    BY <1>1, <1>3, <1>5, <2>1 DEF IsInjective
<1> QED
  BY <1>1, <1>4, <1>5 DEF r

LEMMA TailElements ==
  ASSUME NEW S, NEW q \in Seq(S), q # <<>>
  PROVE  /\ \A i \in DOMAIN Tail(q) : i + 1 \in DOMAIN q /\ Tail(q)[i] = q[i + 1]
         /\ \A i \in DOMAIN q : i = 1 \/ (i - 1 \in DOMAIN Tail(q) /\ Tail(q)[i - 1] = q[i])
         /\ 1 \in DOMAIN q /\ Head(q) = q[1]
<1> DEFINE n == Len(q)
<1>1. /\ n \in Nat \ {0} /\ DOMAIN q = 1 .. n
      /\ DOMAIN Tail(q) = 1 .. n - 1
      /\ \A i \in 1 .. n - 1 : Tail(q)[i] = q[i + 1]
      /\ Head(q) = q[1]
  BY HeadTailProperties, LenProperties, EmptySeq
<1> HIDE DEF n
<1>2. \A i \in 1 .. n - 1 : i + 1 \in 1 .. n
  BY <1>1
<1>3. \A i \in 1 .. n : i = 1 \/ (i - 1 \in 1 .. n - 1 /\ (i - 1) + 1 = i)
  BY <1>1
<1>4. 1 \in 1 .. n
  BY <1>1
<1>5. \A i \in DOMAIN Tail(q) : i + 1 \in DOMAIN q /\ Tail(q)[i] = q[i + 1]
  BY <1>1, <1>2
<1>6. ASSUME NEW i \in DOMAIN q, i # 1
      PROVE  i - 1 \in DOMAIN Tail(q) /\ Tail(q)[i - 1] = q[i]
  <2>1. i - 1 \in 1 .. n - 1 /\ (i - 1) + 1 = i
    BY <1>1, <1>3, <1>6
  <2>2. Tail(q)[i - 1] = q[(i - 1) + 1]
    BY <1>1, <2>1
  <2> QED
    BY <1>1, <2>1, <2>2
<1>7. 1 \in DOMAIN q /\ Head(q) = q[1]
  BY <1>1, <1>4
<1>8. \A i \in DOMAIN q : i = 1 \/ (i - 1 \in DOMAIN Tail(q) /\ Tail(q)[i - 1] = q[i])
  BY <1>6
<1> QED
  BY <1>5, <1>7, <1>8

LEMMA ConcatParts ==
  ASSUME NEW S, NEW q \in Seq(S), NEW r \in Seq(S)
  PROVE  /\ q \o r \in Seq(S)
         /\ Range(q \o r) = Range(q) \cup Range(r)
         /\ IsInjective(q) /\ IsInjective(r) /\ Range(q) \cap Range(r) = {} =>
              IsInjective(q \o r)
<1>1. /\ Len(q) \in Nat /\ DOMAIN q = 1 .. Len(q)
      /\ Len(r) \in Nat /\ DOMAIN r = 1 .. Len(r)
      /\ q \o r \in Seq(S)
      /\ DOMAIN (q \o r) = 1 .. Len(q) + Len(r)
      /\ \A i \in 1 .. Len(q) + Len(r) :
           (q \o r)[i] = IF i <= Len(q) THEN q[i] ELSE r[i - Len(q)]
      /\ Range(q \o r) = Range(q) \cup Range(r)
  BY ConcatProperties, LenProperties, RangeConcatenation
<1>2. ASSUME IsInjective(q), IsInjective(r), Range(q) \cap Range(r) = {},
             NEW i \in 1 .. Len(q) + Len(r), NEW j \in 1 .. Len(q) + Len(r),
             (q \o r)[i] = (q \o r)[j]
      PROVE  i = j
  <2>1. \A k \in 1 .. Len(q), l \in 1 .. Len(r) : q[k] # r[l]
    BY <1>1, <1>2 DEF Range
  <2>2. CASE i <= Len(q) /\ j <= Len(q)
    BY <1>1, <1>2, <2>2 DEF IsInjective
  <2>3. CASE i <= Len(q) /\ ~(j <= Len(q))
    <3>1. i \in 1 .. Len(q) /\ j - Len(q) \in 1 .. Len(r)
      BY <1>1, <2>3
    <3> QED
      BY <1>1, <1>2, <2>1, <2>3, <3>1
  <2>4. CASE ~(i <= Len(q)) /\ j <= Len(q)
    <3>1. j \in 1 .. Len(q) /\ i - Len(q) \in 1 .. Len(r)
      BY <1>1, <2>4
    <3> QED
      BY <1>1, <1>2, <2>1, <2>4, <3>1
  <2>5. CASE ~(i <= Len(q)) /\ ~(j <= Len(q))
    <3>1. i - Len(q) \in 1 .. Len(r) /\ j - Len(q) \in 1 .. Len(r)
      BY <1>1, <2>5
    <3>2. r[i - Len(q)] = r[j - Len(q)]
      BY <1>1, <1>2, <2>5
    <3>3. i - Len(q) = j - Len(q)
      BY <1>1, <1>2, <3>1, <3>2 DEF IsInjective
    <3> QED
      BY <1>1, <3>3
  <2> QED
    BY <2>2, <2>3, <2>4, <2>5
<1>3. ASSUME IsInjective(q), IsInjective(r), Range(q) \cap Range(r) = {}
      PROVE  IsInjective(q \o r)
  BY <1>1, <1>2, <1>3 DEF IsInjective
<1> QED
  BY <1>1, <1>3

LEMMA SetToSeqParts ==
  ASSUME NEW S, IsFiniteSet(S)
  PROVE  /\ SetToSeq(S) \in Seq(S)
         /\ IsInjective(SetToSeq(S))
         /\ Range(SetToSeq(S)) = S
         /\ Len(SetToSeq(S)) = Cardinality(S)
<1> DEFINE n == Cardinality(S)
<1>1. n \in Nat /\ ExistsBijection(1 .. n, S)
  BY FS_CardinalityType
<1>2. \E f \in [1 .. n -> S] : IsInjective(f)
  BY <1>1 DEF ExistsBijection, Bijection, Injection
<1>3. SetToSeq(S) \in [1 .. n -> S] /\ IsInjective(SetToSeq(S))
  BY <1>2 DEF SetToSeq
<1> DEFINE f == SetToSeq(S)
<1> HIDE DEF f, n
<1>4. f \in [1 .. n -> S] /\ IsInjective(f)
  BY <1>3 DEF f, n
<1>5. f \in Seq(S) /\ Len(f) = n
  BY <1>1, <1>4
<1>6. f \in Injection(1 .. n, S)
  BY <1>4 DEF Injection
<1>7. IsFiniteSet(1 .. n) /\ Cardinality(1 .. n) = n
  BY <1>1, FS_Interval
<1>8. f \in Surjection(1 .. n, S)
  BY <1>6, <1>7, FS_Injection DEF n
<1>9. Range(f) = S
  BY <1>4, <1>8 DEF Surjection, Range
<1> QED
  BY <1>4, <1>5, <1>9 DEF f, n

LEMMA LeastOf ==
  ASSUME NEW S \in SUBSET Nat, S # {}
  PROVE  \E i \in S : \A j \in S : i <= j
<1> DEFINE R == {ss \in Nat \X Nat : ss[1] < ss[2]}
<1>1. IsWellFoundedOn(R, Nat)
  <2>1. IsWellFoundedOn(OpToRel(<, Nat), Nat)
    BY NatLessThanWellFounded
  <2>2. OpToRel(<, Nat) = R
    BY DEF OpToRel
  <2> QED
    BY <2>1, <2>2
<1>2. \A x, y \in Nat : <<x, y>> \in R <=> x < y
  OBVIOUS
<1> HIDE DEF R
<1>3. PICK i \in S : \A j \in S : ~(<<j, i>> \in R)
  BY <1>1, WFMin
<1>4. ASSUME NEW j \in S
      PROVE  i <= j
  <2>1. i \in Nat /\ j \in Nat
    OBVIOUS
  <2>2. ~(j < i)
    BY <1>2, <1>3, <2>1
  <2> QED
    BY <2>1, <2>2
<1> QED
  BY <1>4

------------------------------------------------------------------------------
(* The operations of the main thread on the client table and the messages. *)

\* What remains of table when entries without units are dropped from its end.
Kept(table) ==
  /\ client_table' \in Seq(Entries)
  /\ DOMAIN client_table' \subseteq DOMAIN table
  /\ \A t \in DOMAIN client_table' : client_table'[t] = table[t]
  /\ \A t \in DOMAIN table \ DOMAIN client_table' : table[t].num = 0
  /\ subscribed' \in BOOLEAN /\ (subscribed' => subscribed)

LEMMA TrimKeeps ==
  ASSUME NEW table \in Seq(Entries), Trim(table), subscribed \in BOOLEAN
  PROVE  Kept(table)
<1> DEFINE Bare(k) == \A i \in k + 1 .. Len(table) : table[i].num = 0
           E == {k \in 0 .. Len(table) : Bare(k)}
           Rest(k) == Bare(k) /\ (k > 0 => table[k].num # 0)
           last == CHOOSE k \in 0 .. Len(table) : Rest(k)
<1>1. Len(table) \in Nat /\ DOMAIN table = 1 .. Len(table)
  BY LenProperties
<1>2. Len(table) \in E /\ E \in SUBSET Nat
  BY <1>1
<1>3. PICK k \in E : \A j \in E : k <= j
  BY <1>2, LeastOf
<1>4. k > 0 => table[k].num # 0
  <2> SUFFICES ASSUME k > 0, table[k].num = 0
               PROVE  FALSE
    OBVIOUS
  <2>1. k - 1 \in 0 .. Len(table) /\ k \in 1 .. Len(table)
    BY <1>1, <1>3
  <2>2. ASSUME NEW i \in (k - 1) + 1 .. Len(table)
        PROVE  table[i].num = 0
    <3>1. i = k \/ i \in k + 1 .. Len(table)
      BY <1>1, <2>1, <2>2
    <3> QED
      BY <1>3, <3>1
  <2>3. k - 1 \in E
    BY <2>1, <2>2
  <2> HIDE DEF E
  <2>4. k <= k - 1
    BY <1>3, <2>3
  <2> QED
    BY <2>1, <2>4
<1>5. k \in 0 .. Len(table) /\ Rest(k)
  BY <1>3, <1>4
<1>6. last \in 0 .. Len(table) /\ Rest(last)
  BY <1>5
<1>7. client_table' = SubSeq(table, 1, last) /\ subscribed' = (subscribed /\ last > 1)
  BY DEF Trim
<1> HIDE DEF last
<1>8. /\ client_table' \in Seq(Entries)
      /\ DOMAIN client_table' = 1 .. last
      /\ \A i \in 1 .. last : client_table'[i] = table[i]
  <2>1. \A i \in 1 .. last : table[i] \in Entries
    BY <1>1, <1>6
  <2>2. /\ SubSeq(table, 1, last) \in Seq(Entries)
        /\ Len(SubSeq(table, 1, last)) = IF 1 <= last THEN last - 1 + 1 ELSE 0
        /\ \A i \in 1 .. last - 1 + 1 : SubSeq(table, 1, last)[i] = table[1 + i - 1]
    BY <1>1, <1>6, <2>1, SubSeqProperties
  <2> QED
    BY <1>1, <1>6, <1>7, <2>2
<1>9. \A t \in (1 .. Len(table)) \ (1 .. last) : t \in last + 1 .. Len(table)
  BY <1>1, <1>6
<1> QED
  BY <1>1, <1>6, <1>7, <1>8, <1>9 DEF Kept

\* item_done() after the callback of the client of entry tag.
Tidied(tag) ==
  /\ client_table' \in Seq(Entries)
  /\ DOMAIN client_table' \subseteq DOMAIN client_table
  /\ \A t \in DOMAIN client_table' :
       /\ client_table'[t].num = client_table[t].num
       /\ client_table'[t].client = IF t = tag /\ client_table[t].num = 0 THEN NoClient
                                    ELSE client_table[t].client
  /\ \A t \in DOMAIN client_table \ DOMAIN client_table' : client_table[t].num = 0
  /\ subscribed' \in BOOLEAN /\ (subscribed' => subscribed)

LEMMA TidyDoes ==
  ASSUME client_table \in Seq(Entries), subscribed \in BOOLEAN,
         NEW tag \in DOMAIN client_table, Tidy(tag)
  PROVE  Tidied(tag)
<1> DEFINE table == IF client_table[tag].num = 0
                    THEN [client_table EXCEPT ![tag].client = NoClient]
                    ELSE client_table
<1>1. Len(client_table) \in Nat /\ DOMAIN client_table = 1 .. Len(client_table)
  BY LenProperties
<1>2. \A t \in DOMAIN client_table : client_table[t] \in Entries
  BY <1>1
<1>3. /\ table \in Seq(Entries) /\ DOMAIN table = DOMAIN client_table
      /\ \A t \in DOMAIN client_table :
           table[t] = IF t = tag /\ client_table[t].num = 0
                      THEN [client |-> NoClient, num |-> 0] ELSE client_table[t]
  <2>1. CASE client_table[tag].num = 0
    <3>1. [client_table[tag] EXCEPT !.client = NoClient] = [client |-> NoClient, num |-> 0]
      BY <1>2, <2>1 DEF Entries
    <3>2. [client |-> NoClient, num |-> 0] \in Entries
      BY DEF Entries
    <3>3. table = [client_table EXCEPT ![tag] = [client |-> NoClient, num |-> 0]]
      BY <2>1, <3>1
    <3>4. tag \in 1 .. Len(client_table)
      BY <1>1
    <3> HIDE DEF table
    <3>5. /\ table \in Seq(Entries) /\ Len(table) = Len(client_table)
          /\ \A t \in 1 .. Len(client_table) :
               table[t] = IF t = tag THEN [client |-> NoClient, num |-> 0] ELSE client_table[t]
      BY <3>2, <3>3, <3>4, ExceptSeq
    <3> QED
      BY <1>1, <2>1, <3>5, LenProperties
  <2>2. CASE client_table[tag].num # 0
    BY <2>2
  <2> QED
    BY <2>1, <2>2
<1>4. \/ Trim(table)
      \/ client_table' = table /\ subscribed' = subscribed
  BY DEF Tidy
<1> HIDE DEF table
<1>5. \A t \in DOMAIN client_table :
        /\ table[t].num = client_table[t].num
        /\ table[t].client = IF t = tag /\ client_table[t].num = 0 THEN NoClient
                             ELSE client_table[t].client
  BY <1>2, <1>3 DEF Entries
<1>6. Kept(table)
  BY <1>3, <1>4, TrimKeeps DEF Kept
<1> QED
  BY <1>3, <1>5, <1>6 DEF Kept, Tidied

\* A new request of client c for the units us, with entry tag.
Attached(c, us, dest, tag) ==
  /\ client_table' \in Seq(Entries)
  /\ DOMAIN client_table' = DOMAIN client_table \cup {tag}
  /\ \A t \in DOMAIN client_table \ {tag} : client_table'[t] = client_table[t]
  /\ client_table'[tag] = [client |-> c, num |-> Cardinality(us)]
  /\ tag \in DOMAIN client_table => client_table[tag].num = 0
  /\ tag \in Nat
  /\ unit' \in [Units -> [state : States, tag : Nat, src : Media \cup {NoMedia},
                          dest : Media \cup {NoMedia}]]
  /\ \A u \in us : unit'[u].tag = tag /\ unit'[u].dest = dest
  /\ \A u \in Units \ us : unit'[u] = unit[u]
  /\ raw_material' \in Seq(Units)
  /\ Range(raw_material') = Range(raw_material) \cup us
  /\ IsInjective(raw_material) /\ Range(raw_material) \cap us = {} => IsInjective(raw_material')

LEMMA AttachDoes ==
  ASSUME ShopTypeOK, NEW c \in Clients, NEW us \in SUBSET Units, NEW src \in Media,
         NEW dest \in Media, AttachRequest(c, SetToSeq(us), src, dest)
  PROVE  /\ \E tag \in Nat : Attached(c, us, dest, tag)
         /\ subscribed' = (subscribed \/ client_table = <<>>)
         /\ Post("NewItem", 0)
<1> DEFINE q == SetToSeq(us)
           entry == [client |-> c, num |-> Len(q)]
           tag == IF Vacant = {} THEN Len(client_table) + 1
                  ELSE CHOOSE i \in Vacant : \A j \in Vacant : i <= j
<1>1. /\ q \in Seq(us) /\ IsInjective(q) /\ Range(q) = us /\ Len(q) = Cardinality(us)
      /\ Cardinality(us) \in Nat
  BY WorkshopAssumption, FS_Subset, SetToSeqParts, FS_CardinalityType
<1>2. q \in Seq(Units)
  BY <1>1, SeqMonotonic
<1>3. /\ client_table' = IF Vacant = {} THEN Append(client_table, entry)
                         ELSE [client_table EXCEPT ![tag] = entry]
      /\ subscribed' = (subscribed \/ client_table = <<>>)
      /\ unit' = [u \in Units |->
                   IF u \in Range(q)
                   THEN [state |-> "Wait", tag |-> tag,
                         src |-> IF u \in Fixed THEN NoMedia ELSE src, dest |-> dest]
                   ELSE unit[u]]
      /\ raw_material' = raw_material \o q
      /\ Post("NewItem", 0)
  BY DEF AttachRequest, Supply
<1>4. /\ client_table \in Seq(Entries) /\ DOMAIN client_table = 1 .. Len(client_table)
      /\ Len(client_table) \in Nat /\ raw_material \in Seq(Units)
      /\ unit \in [Units -> [state : States, tag : Nat, src : Media \cup {NoMedia},
                             dest : Media \cup {NoMedia}]]
  BY LenProperties DEF ShopTypeOK, Entries
<1>5. entry \in Entries /\ entry = [client |-> c, num |-> Cardinality(us)]
  BY <1>1 DEF Entries
<1>6. /\ tag \in Nat
      /\ Vacant # {} => tag \in DOMAIN client_table /\ client_table[tag].num = 0
  <2>1. CASE Vacant = {}
    BY <1>4, <2>1
  <2>2. CASE Vacant # {}
    <3>1. Vacant \in SUBSET Nat
      BY <1>4 DEF Vacant
    <3>2. \E i \in Vacant : \A j \in Vacant : i <= j
      BY <2>2, <3>1, LeastOf
    <3>3. tag \in Vacant
      BY <2>2, <3>2
    <3> HIDE DEF tag
    <3> QED
      BY <1>4, <3>3 DEF Vacant
  <2> QED
    BY <2>1, <2>2
<1>7. Vacant = {} => tag = Len(client_table) + 1
  OBVIOUS
<1> HIDE DEF q, entry, tag
<1>8. /\ client_table' \in Seq(Entries)
      /\ DOMAIN client_table' = DOMAIN client_table \cup {tag}
      /\ \A t \in DOMAIN client_table \ {tag} : client_table'[t] = client_table[t]
      /\ client_table'[tag] = entry
      /\ tag \in DOMAIN client_table => client_table[tag].num = 0
  <2>1. CASE Vacant = {}
    <3>1. /\ client_table' \in Seq(Entries)
          /\ DOMAIN client_table' = 1 .. Len(client_table) + 1
          /\ \A i \in 1 .. Len(client_table) : client_table'[i] = client_table[i]
          /\ client_table'[Len(client_table) + 1] = entry
      BY <1>3, <1>4, <1>5, <2>1, AppendProperties, LenProperties
    <3> QED
      BY <1>4, <1>7, <2>1, <3>1
  <2>2. CASE Vacant # {}
    BY <1>3, <1>4, <1>5, <1>6, <2>2, ExceptSeq, LenProperties
  <2> QED
    BY <2>1, <2>2
<1>9. /\ unit' \in [Units -> [state : States, tag : Nat, src : Media \cup {NoMedia},
                              dest : Media \cup {NoMedia}]]
      /\ \A u \in us : unit'[u].tag = tag /\ unit'[u].dest = dest
      /\ \A u \in Units \ us : unit'[u] = unit[u]
  BY <1>1, <1>3, <1>4, <1>6 DEF States
<1>10. /\ raw_material' \in Seq(Units)
       /\ Range(raw_material') = Range(raw_material) \cup us
       /\ IsInjective(raw_material) /\ Range(raw_material) \cap us = {} => IsInjective(raw_material')
  BY <1>1, <1>2, <1>3, <1>4, ConcatParts
<1> QED
  BY <1>3, <1>5, <1>6, <1>8, <1>9, <1>10 DEF Attached

\* A message reaches every routine, and wakes those that sleep.
LEMMA PostDoes ==
  ASSUME ShopTypeOK, NEW event \in Events, NEW about \in Nat \cup Media \cup {NoMedia},
         Post(event, about)
  PROVE  /\ messages' \in [Workers -> Seq(Messages)]
         /\ \A w \in Workers :
              /\ messages'[w] = Append(messages[w], [event |-> event, arg |-> about])
              /\ messages[w] \in Seq(Messages)
         /\ worker' \in [Workers -> {"message", "checked", "asleep", "take", "convey",
                                     "product", "feedback"}]
         /\ \A w \in Workers :
              /\ worker'[w] = "convey" <=> worker[w] = "convey"
              /\ worker'[w] = "product" <=> worker[w] = "product"
              /\ worker'[w] = "feedback" <=> worker[w] = "feedback"
<1>1. [event |-> event, arg |-> about] \in Messages
  BY DEF Messages
<1>2. messages \in [Workers -> Seq(Messages)]
  BY DEF ShopTypeOK, Messages
<1>3. \A w \in Workers : Append(messages[w], [event |-> event, arg |-> about]) \in Seq(Messages)
  BY <1>1, <1>2, AppendProperties
<1> QED
  BY <1>2, <1>3 DEF Post, ShopTypeOK

------------------------------------------------------------------------------
(* The work routines: types, places, control.                              *)

UnitFields == [state : States, tag : Nat, src : Media \cup {NoMedia},
               dest : Media \cup {NoMedia}]
Held == Range(holding) \ {NoUnit}

LEMMA QueuesAreUnits ==
  ASSUME TypeOK
  PROVE  /\ Range(raw_material) \subseteq Units
         /\ Range(semi_material) \subseteq Units
         /\ Range(products) \subseteq Units
         /\ Held \subseteq Units
         /\ NoUnit \notin Units
         /\ LiveUnits \subseteq Units
<1>1. /\ Range(raw_material) \subseteq Units
      /\ Range(semi_material) \subseteq Units
      /\ Range(products) \subseteq Units
  BY RangeOfSeq DEF TypeOK, ShopTypeOK
<1>2. Held \subseteq Units
  BY DEF TypeOK, ShopTypeOK, Held, Range
<1> QED
  BY <1>1, <1>2, WorkshopAssumption DEF LiveUnits, Held

LEMMA HeldUnit ==
  ASSUME TypeOK, NEW w \in Workers, holding[w] # NoUnit
  PROVE  holding[w] \in Held /\ holding[w] \in LiveUnits /\ holding[w] \in Units
BY DEF TypeOK, ShopTypeOK, Held, Range, LiveUnits

LEMMA HeldNothing ==
  ASSUME TypeOK, Held = {}
  PROVE  \A w \in Workers : holding[w] = NoUnit
BY HeldUnit DEF Held

\* No unit changes its place.
LEMMA SamePlaces ==
  ASSUME UNCHANGED <<raw_material, semi_material, products, holding>>
  PROVE  /\ PlacesInv => PlacesInv'
         /\ LiveUnits' = LiveUnits
BY DEF PlacesInv, LiveUnits

LEMMA PlacesAgain ==
  ASSUME TypeOK',
         IsInjective(raw_material'), IsInjective(semi_material'), IsInjective(products'),
         \A v, w \in Workers : holding'[v] = holding'[w] => v = w \/ holding'[v] = NoUnit,
         Range(raw_material') \cap Range(semi_material') = {},
         Range(products') \cap (Range(raw_material') \cup Range(semi_material')) = {},
         (Range(holding') \ {NoUnit})
            \cap (Range(raw_material') \cup Range(semi_material') \cup Range(products')) = {}
  PROVE  PlacesInv'
<1>1. /\ Range(raw_material') \subseteq Units
      /\ Range(semi_material') \subseteq Units
      /\ Range(products') \subseteq Units
  BY RangeOfSeq DEF TypeOK, ShopTypeOK
<1>2. Range(holding') \cap (Range(raw_material') \cup Range(semi_material') \cup Range(products')) = {}
  BY <1>1, WorkshopAssumption
<1> QED
  BY <1>2 DEF PlacesInv

\* Only the state of a unit changes.
LEMMA UnitState ==
  ASSUME TypeOK, NEW u \in Units, NEW s \in States, unit' = [unit EXCEPT ![u].state = s]
  PROVE  /\ unit' \in [Units -> UnitFields]
         /\ \A x \in Units : /\ unit'[x].tag = unit[x].tag
                            /\ unit'[x].src = unit[x].src
                            /\ unit'[x].dest = unit[x].dest
                            /\ unit'[x].state = IF x = u THEN s ELSE unit[x].state
BY DEF TypeOK, ShopTypeOK, UnitFields

\* Routine w takes u in its hands.
LEMMA HoldingPut ==
  ASSUME TypeOK, PlacesInv, NEW w \in Workers, NEW u \in Units, holding[w] = NoUnit,
         u \notin Held, holding' = [holding EXCEPT ![w] = u]
  PROVE  /\ Range(holding') \ {NoUnit} = Held \cup {u}
         /\ \A v1, v2 \in Workers : holding'[v1] = holding'[v2] => v1 = v2 \/ holding'[v1] = NoUnit
<1>1. /\ holding \in [Workers -> Units \cup {NoUnit}] /\ NoUnit \notin Units
      /\ \A v \in Workers : holding'[v] = IF v = w THEN u ELSE holding[v]
      /\ DOMAIN holding' = Workers
  BY WorkshopAssumption DEF TypeOK, ShopTypeOK
<1>2. \A v \in Workers : holding[v] # u
  BY <1>1 DEF Held, Range
<1>3. \A v1, v2 \in Workers : holding'[v1] = holding'[v2] => v1 = v2 \/ holding'[v1] = NoUnit
  BY <1>1, <1>2 DEF PlacesInv
<1>4. ASSUME NEW x \in Held \cup {u}
      PROVE  x \in Range(holding') \ {NoUnit}
  <2>1. CASE x = u
    BY <1>1, <2>1 DEF Range
  <2>2. CASE x # u
    <3>1. PICK v \in Workers : holding[v] = x /\ x # NoUnit
      BY <1>1, <1>4, <2>2 DEF Held, Range
    <3>2. v # w /\ holding'[v] = x
      BY <1>1, <3>1
    <3> QED
      BY <1>1, <3>1, <3>2 DEF Range
  <2> QED
    BY <2>1, <2>2
<1>5. ASSUME NEW x \in Range(holding') \ {NoUnit}
      PROVE  x \in Held \cup {u}
  <2>1. PICK v \in Workers : holding'[v] = x /\ x # NoUnit
    BY <1>1, <1>5 DEF Range
  <2> QED
    BY <1>1, <2>1 DEF Held, Range
<1> QED
  BY <1>3, <1>4, <1>5

\* Routine w lets go of the unit in its hands.
LEMMA HoldingDrop ==
  ASSUME TypeOK, PlacesInv, NEW w \in Workers, holding[w] # NoUnit,
         holding' = [holding EXCEPT ![w] = NoUnit]
  PROVE  /\ Range(holding') \ {NoUnit} = Held \ {holding[w]}
         /\ \A v1, v2 \in Workers : holding'[v1] = holding'[v2] => v1 = v2 \/ holding'[v1] = NoUnit
<1>1. /\ holding \in [Workers -> Units \cup {NoUnit}]
      /\ \A v \in Workers : holding'[v] = IF v = w THEN NoUnit ELSE holding[v]
      /\ DOMAIN holding' = Workers
      /\ \A v \in Workers : holding[v] = holding[w] => v = w
  BY DEF TypeOK, ShopTypeOK, PlacesInv
<1>2. \A v1, v2 \in Workers : holding'[v1] = holding'[v2] => v1 = v2 \/ holding'[v1] = NoUnit
  BY <1>1 DEF PlacesInv
<1>3. ASSUME NEW x \in Held \ {holding[w]}
      PROVE  x \in Range(holding') \ {NoUnit}
  <2>1. PICK v \in Workers : holding[v] = x /\ x # NoUnit /\ v # w
    BY <1>1, <1>3 DEF Held, Range
  <2> QED
    BY <1>1, <2>1 DEF Range
<1>4. ASSUME NEW x \in Range(holding') \ {NoUnit}
      PROVE  x \in Held \ {holding[w]}
  <2>1. PICK v \in Workers : holding'[v] = x /\ x # NoUnit
    BY <1>1, <1>4 DEF Range
  <2> QED
    BY <1>1, <2>1 DEF Held, Range
<1> QED
  BY <1>2, <1>3, <1>4

\* What a step of a routine leaves alone.
RoutineFrame == UNCHANGED <<client_table, subscribed, mainVars, requestVars, spent>>

\* What the rest of the system sees of one.
RoutineEffect ==
  /\ RoutineFrame
  /\ LiveUnits' = LiveUnits
  /\ \A u \in Units :
       unit'[u].tag = unit[u].tag /\ unit'[u].src = unit[u].src /\ unit'[u].dest = unit[u].dest

LEMMA RoutineControl ==
  ASSUME BaseInv, RoutineEffect,
         \A w \in Workers : holding'[w] # NoUnit <=> worker'[w] \in {"convey", "product"}
  PROVE  ControlInv' /\ FreshInv'
<1> USE DEF RoutineEffect, RoutineFrame, mainVars, requestVars
<1>1. ControlInv'
  BY DEF BaseInv, ControlInv
<1>2. FreshInv'
  BY DEF BaseInv, FreshInv
<1> QED
  BY <1>1, <1>2

\* A step of a routine that moves no unit.
LEMMA RoutineStays ==
  ASSUME BaseInv, RoutineFrame, TypeOK', UNCHANGED <<raw_material, products, holding>>,
         \A w \in Workers : worker'[w] \in {"convey", "product"} <=> worker[w] \in {"convey", "product"},
         \A u \in Units : unit'[u].tag = unit[u].tag /\ unit'[u].src = unit[u].src
                            /\ unit'[u].dest = unit[u].dest
  PROVE  BaseInv' /\ RoutineEffect
<1>1. PlacesInv' /\ LiveUnits' = LiveUnits
  BY SamePlaces DEF BaseInv, RoutineFrame, mainVars
<1>2. RoutineEffect
  BY <1>1 DEF RoutineEffect
<1>3. \A w \in Workers : holding'[w] # NoUnit <=> worker'[w] \in {"convey", "product"}
  BY DEF BaseInv, ControlInv
<1> QED
  BY <1>1, <1>2, <1>3, RoutineControl DEF BaseInv

LEMMA ReadMessageBase ==
  ASSUME BaseInv, NEW w \in Workers, ReadMessage(w), RoutineFrame
  PROVE  BaseInv' /\ RoutineEffect
<1>1. messages[w] \in Seq(Messages) /\ messages[w] # <<>>
  BY DEF BaseInv, TypeOK, ShopTypeOK, Messages, ReadMessage
<1>2. Tail(messages[w]) \in Seq(Messages)
  BY <1>1, TailParts
<1> DEFINE Bytes == {"ItemFinish", "WorkRoutineClean"}
<1>3. feedback' \in Seq(Bytes) /\ fb' \in [Workers -> Bytes]
  <2>1. feedback \in Seq(Bytes) /\ fb \in [Workers -> Bytes]
    BY DEF BaseInv, TypeOK, ShopTypeOK
  <2>2. Append(feedback, "WorkRoutineClean") \in Seq(Bytes)
    BY <2>1, AppendProperties
  <2> QED
    BY <2>1, <2>2 DEF ReadMessage
<1>3a. messages' \in [Workers -> Seq(Messages)]
  BY <1>2 DEF BaseInv, TypeOK, ShopTypeOK, Messages, ReadMessage, Consume
<1>3b. worker' \in [Workers -> {"message", "checked", "asleep", "take", "convey",
                               "product", "feedback"}]
  BY DEF BaseInv, TypeOK, ShopTypeOK, ReadMessage
<1>3c. TypeOK'
  BY <1>3, <1>3a, <1>3b DEF BaseInv, TypeOK, ShopTypeOK, Messages, ReadMessage, RoutineFrame,
              mainVars, requestVars
<1>4. \A v \in Workers : worker'[v] \in {"convey", "product"} <=> worker[v] \in {"convey", "product"}
  BY DEF BaseInv, TypeOK, ShopTypeOK, ReadMessage
<1> QED
  BY <1>3c, <1>4, RoutineStays DEF ReadMessage

LEMMA FindNoMessageBase ==
  ASSUME BaseInv, NEW w \in Workers, FindNoMessage(w), RoutineFrame
  PROVE  BaseInv' /\ RoutineEffect
<1>1. TypeOK'
  BY DEF BaseInv, TypeOK, ShopTypeOK, FindNoMessage, RoutineFrame, mainVars, requestVars
<1>2. \A v \in Workers : worker'[v] \in {"convey", "product"} <=> worker[v] \in {"convey", "product"}
  BY DEF BaseInv, TypeOK, ShopTypeOK, FindNoMessage
<1> QED
  BY <1>1, <1>2, RoutineStays DEF FindNoMessage

LEMMA FallAsleepBase ==
  ASSUME BaseInv, NEW w \in Workers, FallAsleep(w), RoutineFrame
  PROVE  BaseInv' /\ RoutineEffect
<1>1. TypeOK'
  BY DEF BaseInv, TypeOK, ShopTypeOK, FallAsleep, RoutineFrame, mainVars, requestVars
<1>2. \A v \in Workers : worker'[v] \in {"convey", "product"} <=> worker[v] \in {"convey", "product"}
  BY DEF BaseInv, TypeOK, ShopTypeOK, FallAsleep
<1> QED
  BY <1>1, <1>2, RoutineStays DEF FallAsleep

LEMMA WriteFeedbackBase ==
  ASSUME BaseInv, NEW w \in Workers, WriteFeedback(w), RoutineFrame
  PROVE  BaseInv' /\ RoutineEffect
<1>1. Append(feedback, fb[w]) \in Seq({"ItemFinish", "WorkRoutineClean"})
  BY AppendProperties DEF BaseInv, TypeOK, ShopTypeOK
<1>2. TypeOK'
  BY <1>1 DEF BaseInv, TypeOK, ShopTypeOK, WriteFeedback, RoutineFrame, mainVars, requestVars
<1>3. \A v \in Workers : worker'[v] \in {"convey", "product"} <=> worker[v] \in {"convey", "product"}
  BY DEF BaseInv, TypeOK, ShopTypeOK, WriteFeedback
<1> QED
  BY <1>2, <1>3, RoutineStays DEF WriteFeedback

LEMMA TakeMaterialBase ==
  ASSUME BaseInv, NEW w \in Workers, TakeMaterial(w), RoutineFrame
  PROVE  BaseInv' /\ RoutineEffect
<1>1. CASE raw_material = <<>>
  <2>1. TypeOK'
    <3>1. TypeOK /\ ShopTypeOK
      BY DEF BaseInv, TypeOK
    <3>2. ShopTypeOK'
      BY <1>1, <3>1 DEF ShopTypeOK, TakeMaterial
    <3> QED
      BY <3>1, <3>2 DEF TypeOK, RoutineFrame, mainVars, requestVars
  <2>2. \A v \in Workers : worker'[v] \in {"convey", "product"} <=> worker[v] \in {"convey", "product"}
    BY <1>1 DEF BaseInv, TypeOK, ShopTypeOK, TakeMaterial
  <2> QED
    BY <1>1, <2>1, <2>2, RoutineStays DEF TakeMaterial
<1>2. CASE raw_material # <<>>
  <2> DEFINE u == Head(raw_material)
  <2>1. /\ u \in Units /\ Tail(raw_material) \in Seq(Units)
        /\ Range(raw_material) = Range(Tail(raw_material)) \cup {u}
        /\ IsInjective(Tail(raw_material)) /\ u \notin Range(Tail(raw_material))
    BY <1>2, TailParts DEF BaseInv, TypeOK, ShopTypeOK, PlacesInv
  <2>2. /\ worker[w] = "take" /\ raw_material' = Tail(raw_material)
        /\ holding' = [holding EXCEPT ![w] = u]
        /\ unit' = [unit EXCEPT ![u].state = "OnGoing"]
        /\ worker' = [worker EXCEPT ![w] = "convey"]
        /\ UNCHANGED <<client_table, subscribed, products, messages, feedback, fb, semi_material>>
    BY <1>2 DEF TakeMaterial, RoutineFrame, mainVars
  <2> HIDE DEF u
  <2>3. holding[w] = NoUnit
    BY <2>2 DEF BaseInv, ControlInv
  <2>4. u \notin Held
    BY <2>1, QueuesAreUnits DEF BaseInv, PlacesInv, Held
  <2>5. /\ Range(holding') \ {NoUnit} = Held \cup {u}
        /\ \A v1, v2 \in Workers : holding'[v1] = holding'[v2] => v1 = v2 \/ holding'[v1] = NoUnit
    BY <2>1, <2>2, <2>3, <2>4, HoldingPut DEF BaseInv
  <2>6. unit' \in [Units -> UnitFields] /\ \A x \in Units :
          unit'[x].tag = unit[x].tag /\ unit'[x].src = unit[x].src /\ unit'[x].dest = unit[x].dest
    <3>1. "OnGoing" \in States /\ TypeOK
      BY DEF States, BaseInv
    <3>2. /\ u \in Units
          /\ unit' = [unit EXCEPT ![u].state = "OnGoing"]
      BY <2>1, <2>2
    <3> QED
      BY <3>1, <3>2, UnitState
  <2>7. TypeOK'
    BY <2>1, <2>2, <2>6 DEF BaseInv, TypeOK, ShopTypeOK, UnitFields, RoutineFrame, mainVars, requestVars
  <2>8. LiveUnits' = LiveUnits
    BY <2>1, <2>2, <2>5 DEF LiveUnits, Held
  <2>9. PlacesInv'
    <3>1. (Range(holding') \ {NoUnit})
            \cap (Range(raw_material') \cup Range(semi_material') \cup Range(products')) = {}
      BY <2>1, <2>2, <2>5 DEF BaseInv, PlacesInv, Held
    <3>2. /\ Range(raw_material') \cap Range(semi_material') = {}
          /\ Range(products') \cap (Range(raw_material') \cup Range(semi_material')) = {}
          /\ IsInjective(raw_material') /\ IsInjective(semi_material') /\ IsInjective(products')
      BY <2>1, <2>2 DEF BaseInv, PlacesInv
    <3> QED
      BY <2>5, <2>7, <3>1, <3>2, PlacesAgain
  <2>10. \A v \in Workers : holding'[v] # NoUnit <=> worker'[v] \in {"convey", "product"}
    BY <2>1, <2>2, WorkshopAssumption DEF BaseInv, TypeOK, ShopTypeOK, ControlInv
  <2>11. RoutineEffect
    BY <2>6, <2>8 DEF RoutineEffect
  <2> QED
    BY <2>7, <2>9, <2>10, <2>11, RoutineControl DEF BaseInv
<1> QED
  BY <1>1, <1>2

LEMMA StateAfterType ==
  ASSUME NEW u \in Units, NEW m \in Messages
  PROVE  /\ StateAfter(u, m) \in {"Clean", "Cancelled", "SrcVanish", "DestVanish",
                                  "CommonDestVanish", "CommonDestChange", "OnGoing"}
         /\ StateAfter(u, m) = "Clean" <=> m.event = "Clean"
         /\ StateAfter(u, m) = "Cancelled" => m.event = "Cancel"
BY DEF StateAfter, Messages, Events

LEMMA InspectBase ==
  ASSUME BaseInv, NEW w \in Workers, Inspect(w), RoutineFrame
  PROVE  BaseInv' /\ RoutineEffect
<1> DEFINE h == holding[w]
           s == StateAfter(h, Head(messages[w]))
<1>1. messages[w] \in Seq(Messages) /\ messages[w] # <<>>
  BY DEF BaseInv, TypeOK, ShopTypeOK, Messages, Inspect
<1>2. Tail(messages[w]) \in Seq(Messages) /\ Head(messages[w]) \in Messages
  BY <1>1, TailParts
<1>3. h \in Units
  BY HeldUnit DEF BaseInv, ControlInv, Inspect
<1>4. s \in States
  BY <1>2, <1>3, StateAfterType DEF States
<1>5. /\ worker[w] = "convey"
      /\ messages' = [messages EXCEPT ![w] = Tail(@)]
      /\ unit' = [unit EXCEPT ![h].state = s]
      /\ worker' = [worker EXCEPT ![w] = IF s = "OnGoing" THEN @ ELSE "product"]
      /\ fb' = [fb EXCEPT ![w] = IF s = "Clean" THEN "WorkRoutineClean" ELSE @]
      /\ UNCHANGED <<client_table, subscribed, raw_material, products, feedback, holding>>
  BY DEF Inspect, Consume
<1> HIDE DEF h, s
<1>6. unit' \in [Units -> UnitFields] /\ \A x \in Units :
        unit'[x].tag = unit[x].tag /\ unit'[x].src = unit[x].src /\ unit'[x].dest = unit[x].dest
  BY <1>3, <1>4, <1>5, UnitState DEF BaseInv
<1>7. TypeOK'
  BY <1>2, <1>5, <1>6 DEF BaseInv, TypeOK, ShopTypeOK, UnitFields, Messages, RoutineFrame,
                          mainVars, requestVars
<1>8. \A v \in Workers : worker'[v] \in {"convey", "product"} <=> worker[v] \in {"convey", "product"}
  BY <1>5 DEF BaseInv, TypeOK, ShopTypeOK
<1> QED
  BY <1>5, <1>6, <1>7, <1>8, RoutineStays

LEMMA ConveyBase ==
  ASSUME BaseInv, NEW w \in Workers, Convey(w), RoutineFrame
  PROVE  BaseInv' /\ RoutineEffect
<1> DEFINE h == holding[w]
<1>1. h \in Units
  BY HeldUnit DEF BaseInv, ControlInv, Convey
<1>2. PICK s \in {"Done", "Failed"} : unit' = [unit EXCEPT ![h].state = s]
  BY DEF Convey
<1> HIDE DEF h
<1>3. unit' \in [Units -> UnitFields] /\ \A x \in Units :
        unit'[x].tag = unit[x].tag /\ unit'[x].src = unit[x].src /\ unit'[x].dest = unit[x].dest
  <2>1. TypeOK /\ s \in States
    BY <1>2 DEF BaseInv, States
  <2> QED
    BY <1>1, <1>2, <2>1, UnitState
<1>4. TypeOK'
  <2>1. TypeOK /\ ShopTypeOK
    BY DEF BaseInv, TypeOK
  <2>2. /\ worker' = [worker EXCEPT ![w] = "product"]
        /\ UNCHANGED <<client_table, subscribed, raw_material, products, messages, feedback, holding, fb>>
    BY DEF Convey
  <2>3. ShopTypeOK'
    BY <1>3, <2>1, <2>2 DEF ShopTypeOK, UnitFields
  <2> QED
    BY <2>1, <2>3 DEF TypeOK, RoutineFrame, mainVars, requestVars
<1>5. \A v \in Workers : worker'[v] \in {"convey", "product"} <=> worker[v] \in {"convey", "product"}
  BY DEF BaseInv, TypeOK, ShopTypeOK, Convey
<1> QED
  BY <1>3, <1>4, <1>5, RoutineStays DEF Convey

LEMMA PushProductBase ==
  ASSUME BaseInv, NEW w \in Workers, PushProduct(w), RoutineFrame
  PROVE  BaseInv' /\ RoutineEffect
<1> DEFINE h == holding[w]
<1>1. h # NoUnit /\ h \in Units /\ h \in Held
  BY HeldUnit DEF BaseInv, ControlInv, PushProduct
<1>2. /\ worker[w] = "product" /\ products' = Append(products, h)
      /\ holding' = [holding EXCEPT ![w] = NoUnit]
      /\ worker' = [worker EXCEPT ![w] = "feedback"]
      /\ UNCHANGED <<raw_material, messages, feedback, fb, unit, semi_material>>
  BY DEF PushProduct, RoutineFrame, mainVars
<1>3. /\ Range(holding') \ {NoUnit} = Held \ {h}
      /\ \A v1, v2 \in Workers : holding'[v1] = holding'[v2] => v1 = v2 \/ holding'[v1] = NoUnit
  BY <1>1, <1>2, HoldingDrop DEF BaseInv
<1> HIDE DEF h
<1>4. h \notin Range(raw_material) /\ h \notin Range(semi_material) /\ h \notin Range(products)
  BY <1>1 DEF BaseInv, PlacesInv, Held
<1>5. /\ products' \in Seq(Units) /\ Range(products') = Range(products) \cup {h}
      /\ IsInjective(products')
  BY <1>1, <1>2, <1>4, AppendParts DEF BaseInv, TypeOK, ShopTypeOK, PlacesInv
<1>6. TypeOK'
  BY <1>2, <1>5 DEF BaseInv, TypeOK, ShopTypeOK, RoutineFrame, mainVars, requestVars
<1>7. LiveUnits' = LiveUnits
  BY <1>1, <1>2, <1>3, <1>5 DEF LiveUnits, Held
<1>8. PlacesInv'
  <2>1. (Range(holding') \ {NoUnit})
            \cap (Range(raw_material') \cup Range(semi_material') \cup Range(products')) = {}
    BY <1>2, <1>3, <1>5 DEF BaseInv, PlacesInv, Held
  <2>2. /\ Range(raw_material') \cap Range(semi_material') = {}
        /\ Range(products') \cap (Range(raw_material') \cup Range(semi_material')) = {}
        /\ IsInjective(raw_material') /\ IsInjective(semi_material')
    BY <1>2, <1>4, <1>5 DEF BaseInv, PlacesInv
  <2> QED
    BY <1>3, <1>5, <1>6, <2>1, <2>2, PlacesAgain
<1>9. \A v \in Workers : holding'[v] # NoUnit <=> worker'[v] \in {"convey", "product"}
  BY <1>2 DEF BaseInv, TypeOK, ShopTypeOK, ControlInv
<1>10. RoutineEffect
  BY <1>2, <1>7 DEF RoutineEffect
<1> QED
  BY <1>6, <1>8, <1>9, <1>10, RoutineControl DEF BaseInv

LEMMA RoutineBase ==
  ASSUME BaseInv, NEW w \in Workers, WorkRoutine(w), UNCHANGED <<mainVars, requestVars, spent>>
  PROVE  BaseInv' /\ RoutineEffect
<1>1. RoutineFrame
  BY DEF RoutineFrame, WorkRoutine, ReadMessage, FindNoMessage, FallAsleep, TakeMaterial, Inspect,
         Convey, PushProduct, WriteFeedback
<1> QED
  BY <1>1, ReadMessageBase, FindNoMessageBase, FallAsleepBase, TakeMaterialBase, InspectBase,
     ConveyBase, PushProductBase, WriteFeedbackBase DEF WorkRoutine

------------------------------------------------------------------------------
(* The main thread: types, places, control.                                *)

\* The number of an entry of the client table changes.
LEMMA NumChanges ==
  ASSUME client_table \in Seq(Entries), NEW tag \in DOMAIN client_table, NEW n \in Int,
         client_table' = [client_table EXCEPT ![tag].num = n]
  PROVE  /\ client_table' \in Seq(Entries)
         /\ DOMAIN client_table' = DOMAIN client_table
         /\ \A t \in DOMAIN client_table :
              /\ client_table'[t].client = client_table[t].client
              /\ client_table'[t].num = IF t = tag THEN n ELSE client_table[t].num
<1>1. /\ Len(client_table) \in Nat /\ DOMAIN client_table = 1 .. Len(client_table)
      /\ \A t \in 1 .. Len(client_table) : client_table[t] \in Entries
  BY LenProperties
<1> DEFINE entry == [client_table[tag] EXCEPT !.num = n]
<1>2. entry \in Entries /\ entry.client = client_table[tag].client /\ entry.num = n
  BY <1>1 DEF Entries
<1>3. client_table' = [client_table EXCEPT ![tag] = entry]
  OBVIOUS
<1> HIDE DEF entry
<1>4. /\ client_table' \in Seq(Entries) /\ Len(client_table') = Len(client_table)
      /\ \A t \in 1 .. Len(client_table) :
           client_table'[t] = IF t = tag THEN entry ELSE client_table[t]
  BY <1>1, <1>2, <1>3, ExceptSeq
<1> QED
  BY <1>1, <1>2, <1>4, LenProperties

LEMMA TableType ==
  ASSUME TypeOK
  PROVE  /\ client_table \in Seq(Entries) /\ subscribed \in BOOLEAN
         /\ \A t \in DOMAIN client_table :
              client_table[t].num \in Int /\ client_table[t].client \in Clients \cup {NoClient}
<1>1. client_table \in Seq(Entries) /\ subscribed \in BOOLEAN
  BY DEF TypeOK, ShopTypeOK, Entries
<1>2. \A t \in DOMAIN client_table : client_table[t] \in Entries
  BY <1>1, LenProperties
<1> QED
  BY <1>1, <1>2 DEF Entries

\* The first unit of a queue is counted down and its client is to be called.
Counted(u) ==
  /\ client_table' \in Seq(Entries)
  /\ DOMAIN client_table' = DOMAIN client_table
  /\ \A t \in DOMAIN client_table :
       /\ client_table'[t].client = client_table[t].client
       /\ client_table'[t].num =
            IF Registered(u) /\ t = unit[u].tag THEN client_table[t].num - 1 ELSE client_table[t].num
  /\ item' = (IF Registered(u) THEN u ELSE item)
  /\ stage' = IF ~Registered(u) THEN stage
              ELSE IF client_table[unit[u].tag].client # NoClient THEN "callback" ELSE "tidy"

LEMMA ItemDoneDoes ==
  ASSUME TypeOK, NEW u \in Units, ItemDone(u)
  PROVE  Counted(u)
<1>1. CASE Registered(u)
  <2>1. unit[u].tag \in DOMAIN client_table
    BY <1>1 DEF Registered
  <2>2. client_table[unit[u].tag].num - 1 \in Int
    BY <2>1, TableType
  <2>3. client_table' = [client_table EXCEPT ![unit[u].tag].num = client_table[unit[u].tag].num - 1]
    BY <1>1 DEF ItemDone, CountDown
  <2>4. /\ client_table' \in Seq(Entries)
        /\ DOMAIN client_table' = DOMAIN client_table
        /\ \A t \in DOMAIN client_table :
             /\ client_table'[t].client = client_table[t].client
             /\ client_table'[t].num = IF t = unit[u].tag THEN client_table[unit[u].tag].num - 1
                                       ELSE client_table[t].num
    <3> DEFINE tag == unit[u].tag
               n == client_table[tag].num - 1
    <3>1. tag \in DOMAIN client_table /\ n \in Int /\ client_table \in Seq(Entries)
      BY <2>1, <2>2, TableType
    <3>2. client_table' = [client_table EXCEPT ![tag].num = n]
      BY <2>3
    <3> HIDE DEF tag, n
    <3>3. /\ client_table' \in Seq(Entries)
          /\ DOMAIN client_table' = DOMAIN client_table
          /\ \A t \in DOMAIN client_table :
               /\ client_table'[t].client = client_table[t].client
               /\ client_table'[t].num = IF t = tag THEN n ELSE client_table[t].num
      BY <3>1, <3>2, NumChanges
    <3> QED
      BY <3>3 DEF tag, n
  <2> QED
    BY <1>1, <2>4 DEF ItemDone, Counted
<1>2. CASE ~Registered(u)
  BY <1>2, TableType DEF ItemDone, Counted
<1> QED
  BY <1>1, <1>2

LEMMA ProcessBase ==
  ASSUME BaseInv, Process
  PROVE  BaseInv' /\ LiveUnits' = LiveUnits
<1>1. Tail(feedback) \in Seq({"ItemFinish", "WorkRoutineClean"})
  BY TailParts DEF BaseInv, TypeOK, ShopTypeOK, Process
<1>2. TypeOK'
  BY <1>1 DEF BaseInv, TypeOK, ShopTypeOK, Process, requestVars, routineVars
<1>3. PlacesInv' /\ LiveUnits' = LiveUnits
  BY SamePlaces DEF BaseInv, Process, routineVars
<1>4. ControlInv'
  BY DEF BaseInv, ControlInv, Process, Idle, routineVars
<1>5. FreshInv'
  BY <1>3 DEF BaseInv, FreshInv, Process, Idle, requestVars
<1> QED
  BY <1>2, <1>3, <1>4, <1>5 DEF BaseInv

LEMMA ProcessNextBase ==
  ASSUME BaseInv, ProcessNext
  PROVE  /\ BaseInv'
         /\ products = <<>> => LiveUnits' = LiveUnits
         /\ products # <<>> =>
              /\ Head(products) \in LiveUnits
              /\ LiveUnits' = LiveUnits \ {Head(products)}
              /\ Counted(Head(products))
<1>1. CASE products = <<>>
  <2>1. TypeOK'
    BY <1>1 DEF BaseInv, TypeOK, ShopTypeOK, ProcessNext, requestVars, routineVars
  <2>2. PlacesInv' /\ LiveUnits' = LiveUnits
    BY <1>1, SamePlaces DEF BaseInv, ProcessNext, routineVars
  <2>3. ControlInv'
    BY <1>1 DEF BaseInv, ControlInv, ProcessNext, routineVars
  <2>4. FreshInv'
    BY <1>1, <2>2 DEF BaseInv, FreshInv, ProcessNext, requestVars
  <2> QED
    BY <1>1, <2>1, <2>2, <2>3, <2>4 DEF BaseInv
<1>2. CASE products # <<>>
  <2> DEFINE u == Head(products)
  <2>1. /\ u \in Units /\ Tail(products) \in Seq(Units)
        /\ Range(products) = Range(Tail(products)) \cup {u}
        /\ IsInjective(Tail(products)) /\ u \notin Range(Tail(products))
    BY <1>2, TailParts DEF BaseInv, TypeOK, ShopTypeOK, PlacesInv
  <2>2. /\ doing = "process" /\ stage = "next" /\ products' = Tail(products)
        /\ UNCHANGED <<subscribed, raw_material, messages, feedback, routineVars, unit,
                       media, semi_material, arg, requestVars, spent, doing>>
    BY <1>2 DEF ProcessNext
  <2>3. ItemDone(u)
    BY <1>2 DEF ProcessNext
  <2> HIDE DEF u
  <2>4. Counted(u)
    BY <2>1, <2>3, ItemDoneDoes DEF BaseInv
  <2>5. u \in LiveUnits /\ LiveUnits' = LiveUnits \ {u} /\ PlacesInv'
    <3>1. u \notin Range(holding) /\ u \notin Range(raw_material) /\ u \notin Range(semi_material)
      BY <2>1 DEF BaseInv, PlacesInv
    <3>2. PlacesInv'
      BY <2>1, <2>2 DEF BaseInv, PlacesInv, routineVars
    <3> QED
      BY <2>1, <2>2, <3>1, <3>2 DEF LiveUnits, routineVars
  <2>6. TypeOK'
    BY <2>1, <2>2, <2>4 DEF BaseInv, TypeOK, ShopTypeOK, Counted, Entries, requestVars, routineVars
  <2>7. ControlInv'
    BY <2>1, <2>2, <2>4 DEF BaseInv, ControlInv, Counted, Registered, routineVars
  <2>8. FreshInv'
    BY <2>1, <2>2, <2>4, <2>5 DEF BaseInv, FreshInv, Counted, requestVars
  <2> QED
    BY <1>2, <2>4, <2>5, <2>6, <2>7, <2>8 DEF BaseInv, u
<1> QED
  BY <1>1, <1>2

LEMMA RequestDoneBase ==
  ASSUME BaseInv, RequestDone
  PROVE  BaseInv' /\ LiveUnits' = LiveUnits
<1>1. TypeOK'
  BY DEF BaseInv, TypeOK, ShopTypeOK, RequestDone, requestVars, routineVars, shopVars
<1>2. PlacesInv' /\ LiveUnits' = LiveUnits
  BY SamePlaces DEF BaseInv, RequestDone, routineVars, shopVars
<1>3. ControlInv'
  BY DEF BaseInv, ControlInv, RequestDone, routineVars, shopVars
<1>4. FreshInv'
  BY <1>2 DEF BaseInv, FreshInv, RequestDone, requestVars
<1> QED
  BY <1>1, <1>2, <1>3, <1>4 DEF BaseInv

LEMMA ItemTidyBase ==
  ASSUME BaseInv, ItemTidy
  PROVE  BaseInv' /\ LiveUnits' = LiveUnits /\ Tidied(unit[item].tag)
<1>1. unit[item].tag \in DOMAIN client_table /\ doing \in {"process", "changed", "inactive"}
  BY DEF BaseInv, ControlInv, ItemTidy
<1>2. Tidied(unit[item].tag)
  BY <1>1, TableType, TidyDoes DEF BaseInv, ItemTidy
<1>3. TypeOK'
  BY <1>2 DEF BaseInv, TypeOK, ShopTypeOK, ItemTidy, Tidied, Entries, requestVars, routineVars
<1>4. PlacesInv' /\ LiveUnits' = LiveUnits
  BY SamePlaces DEF BaseInv, ItemTidy, routineVars
<1>5. ControlInv'
  BY <1>1 DEF BaseInv, ControlInv, ItemTidy, routineVars
<1>6. FreshInv'
  BY <1>4 DEF BaseInv, FreshInv, ItemTidy, requestVars
<1> QED
  BY <1>2, <1>3, <1>4, <1>5, <1>6 DEF BaseInv

\* finish() gives the request its state and result, and says what is next.
LEMMA FinishDoes ==
  ASSUME TypeOK, NEW c \in Clients, NEW left, NEW failed, Finish(c, left, failed)
  PROVE  /\ state_' \in [Clients -> {"TS_NOT_BEGIN", "TS_EXECUTING", "TS_FINISHED", "TS_CANCELED"}]
         /\ result_' \in [Clients -> {"TRANS_R_SUCCESS", "TRANS_R_FAILURE"}]
         /\ \A d \in Clients :
              /\ state_'[d] = IF d = c /\ left = 0 THEN "TS_FINISHED" ELSE state_[d]
              /\ result_'[d] = IF d = c /\ left = 0 /\ failed > 0 THEN "TRANS_R_FAILURE" ELSE result_[d]
         /\ stage' = IF left = 0 THEN "finished" ELSE "tidy"
BY DEF Finish, TypeOK

\* A unit of request c is over: it is counted down, and up if it failed.
Ends(c, failing) ==
  /\ item_num_' \in [Clients -> Nat] /\ fail_num_' \in [Clients -> Nat]
  /\ \A d \in Clients :
       /\ item_num_'[d] = IF d = c THEN item_num_[d] - 1 ELSE item_num_[d]
       /\ fail_num_'[d] = IF d = c /\ failing THEN fail_num_[d] + 1 ELSE fail_num_[d]
  /\ state_' \in [Clients -> {"TS_NOT_BEGIN", "TS_EXECUTING", "TS_FINISHED", "TS_CANCELED"}]
  /\ result_' \in [Clients -> {"TRANS_R_SUCCESS", "TRANS_R_FAILURE"}]
  /\ \A d \in Clients :
       /\ state_'[d] = IF d = c /\ item_num_[c] = 1 THEN "TS_FINISHED" ELSE state_[d]
       /\ result_'[d] = IF d = c /\ item_num_[c] = 1 /\ fail_num_'[c] > 0 THEN "TRANS_R_FAILURE"
                        ELSE result_[d]
  /\ stage' = IF item_num_[c] = 1 THEN "finished" ELSE "tidy"

LEMMA UnitOverDoes ==
  ASSUME TypeOK, NEW c \in Clients, UnitOver(c)
  PROVE  Ends(c, unit[item].state \in FailedStates)
<1> DEFINE state == unit[item].state
           left == item_num_[c] - 1
           failed == fail_num_[c] + (IF state \in FailedStates THEN 1 ELSE 0)
<1>1. item_num_ \in [Clients -> Nat] /\ fail_num_ \in [Clients -> Nat] /\ item_num_[c] > 0
  BY DEF TypeOK, UnitOver
<1>2. left \in Nat /\ (left = 0 <=> item_num_[c] = 1) /\ failed \in Nat
      /\ failed = IF state \in FailedStates THEN fail_num_[c] + 1 ELSE fail_num_[c]
  BY <1>1
<1>3. /\ item_num_' = [item_num_ EXCEPT ![c] = left]
      /\ fail_num_' = [fail_num_ EXCEPT ![c] = failed]
      /\ Finish(c, left, failed)
  BY DEF UnitOver
<1> HIDE DEF left, failed
<1>4. /\ \A d \in Clients :
           /\ state_'[d] = IF d = c /\ left = 0 THEN "TS_FINISHED" ELSE state_[d]
           /\ result_'[d] = IF d = c /\ left = 0 /\ failed > 0 THEN "TRANS_R_FAILURE" ELSE result_[d]
      /\ stage' = IF left = 0 THEN "finished" ELSE "tidy"
      /\ state_' \in [Clients -> {"TS_NOT_BEGIN", "TS_EXECUTING", "TS_FINISHED", "TS_CANCELED"}]
      /\ result_' \in [Clients -> {"TRANS_R_SUCCESS", "TRANS_R_FAILURE"}]
  BY <1>3, FinishDoes
<1>5. fail_num_'[c] = failed
  BY <1>1, <1>3
<1>6. item_num_' \in [Clients -> Nat] /\ fail_num_' \in [Clients -> Nat]
  BY <1>1, <1>2, <1>3
<1>7. \A d \in Clients :
        /\ item_num_'[d] = IF d = c THEN item_num_[d] - 1 ELSE item_num_[d]
        /\ fail_num_'[d] = IF d = c /\ state \in FailedStates THEN fail_num_[d] + 1 ELSE fail_num_[d]
  BY <1>1, <1>2, <1>3 DEF left
<1> QED
  BY <1>2, <1>4, <1>5, <1>6, <1>7 DEF Ends

LEMMA UnitOverBase ==
  ASSUME BaseInv, NEW c \in Clients, UnitOver(c)
  PROVE  BaseInv' /\ LiveUnits' = LiveUnits /\ Ends(c, unit[item].state \in FailedStates)
<1>1. Ends(c, unit[item].state \in FailedStates)
  BY UnitOverDoes DEF BaseInv
<1>2. TypeOK'
  BY <1>1 DEF BaseInv, TypeOK, ShopTypeOK, UnitOver, Ends, shopVars, routineVars
<1>3. PlacesInv' /\ LiveUnits' = LiveUnits
  BY SamePlaces DEF BaseInv, UnitOver, shopVars, routineVars
<1>4. ControlInv'
  BY DEF BaseInv, ControlInv, UnitOver, shopVars, routineVars
<1>5. FreshInv'
  BY <1>1, <1>3 DEF BaseInv, FreshInv, Ends, UnitOver, shopVars, TypeOK
<1> QED
  BY <1>1, <1>2, <1>3, <1>4, <1>5 DEF BaseInv

\* A unit of request c starts again, on the current medium.
StartsAgain ==
  /\ media # NoMedia /\ unit[item].src # media
  /\ client_table' \in Seq(Entries)
  /\ DOMAIN client_table' = DOMAIN client_table
  /\ \A t \in DOMAIN client_table :
       /\ client_table'[t].client = client_table[t].client
       /\ client_table'[t].num = IF t = unit[item].tag THEN client_table[t].num + 1
                                 ELSE client_table[t].num
  /\ unit' \in [Units -> UnitFields]
  /\ \A u \in Units : /\ unit'[u].tag = unit[u].tag
                      /\ unit'[u].state = unit[u].state
                      /\ unit'[u].src = unit[u].src
                      /\ unit'[u].dest = IF u = item THEN media ELSE unit[u].dest
  /\ raw_material' = Append(raw_material, item)
  /\ Post("NewItem", 0)
  /\ stage' = "tidy"
  /\ UNCHANGED <<subscribed, products, feedback, holding, fb, media, semi_material, doing, arg, item,
                 requestVars, spent>>

\* It is over instead.
GivesUp(c) ==
  /\ Ends(c, TRUE)
  /\ UNCHANGED <<shopVars, media, semi_material, doing, arg, item, spent>>

LEMMA UnitAgainDoes ==
  ASSUME BaseInv, NEW c \in Clients, UnitAgain(c)
  PROVE  StartsAgain \/ GivesUp(c)
<1> DEFINE tag == unit[item].tag
<1>0. item \in Units /\ tag \in DOMAIN client_table
  BY DEF BaseInv, ControlInv, UnitAgain
<1>1. CASE /\ media # NoMedia /\ unit[item].src # media
           /\ AddNewUnit(unit[item].tag, item, media)
           /\ stage' = "tidy"
           /\ UNCHANGED <<state_, result_, item_num_, fail_num_, subscribed>>
  <2>1. client_table \in Seq(Entries) /\ client_table[tag].num + 1 \in Int
    BY <1>0, TableType DEF BaseInv
  <2>2. /\ client_table' = [client_table EXCEPT ![tag].num = client_table[tag].num + 1]
        /\ unit' = [unit EXCEPT ![item].tag = tag, ![item].dest = media]
        /\ raw_material' = raw_material \o <<item>>
        /\ Post("NewItem", 0)
    BY <1>1 DEF AddNewUnit, Supply
  <2>3. /\ client_table' \in Seq(Entries)
        /\ DOMAIN client_table' = DOMAIN client_table
        /\ \A t \in DOMAIN client_table :
             /\ client_table'[t].client = client_table[t].client
             /\ client_table'[t].num = IF t = tag THEN client_table[tag].num + 1
                                       ELSE client_table[t].num
    <3> DEFINE n == client_table[tag].num + 1
    <3>1. tag \in DOMAIN client_table /\ n \in Int /\ client_table \in Seq(Entries)
      BY <1>0, <2>1
    <3>2. client_table' = [client_table EXCEPT ![tag].num = n]
      BY <2>2
    <3> HIDE DEF tag, n
    <3>3. /\ client_table' \in Seq(Entries)
          /\ DOMAIN client_table' = DOMAIN client_table
          /\ \A t \in DOMAIN client_table :
               /\ client_table'[t].client = client_table[t].client
               /\ client_table'[t].num = IF t = tag THEN n ELSE client_table[t].num
      BY <3>1, <3>2, NumChanges
    <3> QED
      BY <3>3 DEF n
  <2>4. unit' \in [Units -> UnitFields] /\ \A u \in Units :
           /\ unit'[u].tag = unit[u].tag
           /\ unit'[u].state = unit[u].state
           /\ unit'[u].src = unit[u].src
           /\ unit'[u].dest = IF u = item THEN media ELSE unit[u].dest
    <3>1. unit \in [Units -> UnitFields] /\ item \in Units /\ media \in Media \cup {NoMedia}
      BY <1>0 DEF BaseInv, TypeOK, ShopTypeOK, UnitFields
    <3>2. unit' = [unit EXCEPT ![item].tag = tag, ![item].dest = media]
      BY <2>2
    <3>3. tag \in Nat /\ tag = unit[item].tag
      BY <3>1 DEF UnitFields
    <3> HIDE DEF tag
    <3> QED
      BY <3>1, <3>2, <3>3 DEF UnitFields
  <2>5. raw_material' = Append(raw_material, item)
    BY <1>0, <2>2 DEF BaseInv, TypeOK, ShopTypeOK
  <2> QED
    BY <1>1, <2>2, <2>3, <2>4, <2>5 DEF StartsAgain, UnitAgain, requestVars
<1>2. CASE /\ item_num_' = [item_num_ EXCEPT ![c] = @ - 1]
           /\ fail_num_' = [fail_num_ EXCEPT ![c] = @ + 1]
           /\ Finish(c, item_num_'[c], fail_num_'[c])
           /\ UNCHANGED <<client_table, subscribed, raw_material, messages, worker, unit>>
  <2>1. item_num_ \in [Clients -> Nat] /\ fail_num_ \in [Clients -> Nat] /\ item_num_[c] > 0
    BY DEF BaseInv, TypeOK, UnitAgain
  <2>2. item_num_' \in [Clients -> Nat] /\ fail_num_' \in [Clients -> Nat]
        /\ item_num_'[c] = item_num_[c] - 1
        /\ (item_num_'[c] = 0 <=> item_num_[c] = 1)
    BY <1>2, <2>1
  <2>3. \A d \in Clients :
          /\ item_num_'[d] = IF d = c THEN item_num_[d] - 1 ELSE item_num_[d]
          /\ fail_num_'[d] = IF d = c THEN fail_num_[d] + 1 ELSE fail_num_[d]
    BY <1>2, <2>1
  <2>4. /\ \A d \in Clients :
             /\ state_'[d] = IF d = c /\ item_num_'[c] = 0 THEN "TS_FINISHED" ELSE state_[d]
             /\ result_'[d] = IF d = c /\ item_num_'[c] = 0 /\ fail_num_'[c] > 0
                              THEN "TRANS_R_FAILURE" ELSE result_[d]
        /\ stage' = IF item_num_'[c] = 0 THEN "finished" ELSE "tidy"
        /\ state_' \in [Clients -> {"TS_NOT_BEGIN", "TS_EXECUTING", "TS_FINISHED", "TS_CANCELED"}]
        /\ result_' \in [Clients -> {"TRANS_R_SUCCESS", "TRANS_R_FAILURE"}]
    BY <1>2, FinishDoes DEF BaseInv
  <2>5. Ends(c, TRUE)
    BY <2>2, <2>3, <2>4 DEF Ends
  <2> QED
    BY <1>2, <2>5 DEF GivesUp, UnitAgain, shopVars, routineVars
<1> QED
  BY <1>1, <1>2 DEF UnitAgain

LEMMA UnitAgainBase ==
  ASSUME BaseInv, NEW c \in Clients, UnitAgain(c)
  PROVE  /\ BaseInv'
         /\ \/ StartsAgain /\ LiveUnits' = LiveUnits \cup {item} /\ item \notin LiveUnits
            \/ GivesUp(c) /\ LiveUnits' = LiveUnits
<1>1. CASE GivesUp(c)
  <2>1. TypeOK'
    BY <1>1 DEF BaseInv, TypeOK, ShopTypeOK, GivesUp, Ends, shopVars, routineVars
  <2>2. PlacesInv' /\ LiveUnits' = LiveUnits
    BY <1>1, SamePlaces DEF BaseInv, GivesUp, shopVars, routineVars
  <2>3. ControlInv'
    BY <1>1 DEF BaseInv, ControlInv, UnitAgain, GivesUp, shopVars, routineVars
  <2>4. FreshInv'
    <3>1. stage = "callback" /\ item' = item
      BY <1>1 DEF UnitAgain, GivesUp
    <3>2. stage' # "callback"
      BY <1>1 DEF GivesUp, Ends
    <3>3. \A d \in Clients : state_'[d] = "TS_NOT_BEGIN" => state_[d] = "TS_NOT_BEGIN"
      BY <1>1 DEF GivesUp, Ends
    <3> QED
      BY <2>2, <3>1, <3>2, <3>3 DEF BaseInv, FreshInv
  <2> QED
    BY <1>1, <2>1, <2>2, <2>3, <2>4 DEF BaseInv
<1>2. CASE StartsAgain
  <2>1. /\ item \in Units /\ unit[item].tag \in DOMAIN client_table /\ item \notin LiveUnits
        /\ doing \in {"process", "changed", "inactive"}
        /\ stage = "callback"
    BY DEF BaseInv, ControlInv, FreshInv, UnitAgain
  <2>2. /\ messages' \in [Workers -> Seq(Messages)]
        /\ worker' \in [Workers -> {"message", "checked", "asleep", "take", "convey",
                                    "product", "feedback"}]
        /\ \A w \in Workers : worker'[w] \in {"convey", "product"} <=> worker[w] \in {"convey", "product"}
    <3>1. "NewItem" \in Events /\ 0 \in Nat
      BY DEF Events
    <3> QED
      BY <1>2, <3>1, PostDoes DEF StartsAgain, BaseInv, TypeOK
  <2>3. /\ raw_material' \in Seq(Units) /\ Range(raw_material') = Range(raw_material) \cup {item}
        /\ IsInjective(raw_material')
    BY <1>2, <2>1, AppendParts DEF StartsAgain, BaseInv, TypeOK, ShopTypeOK, PlacesInv, LiveUnits
  <2>4. TypeOK'
    BY <1>2, <2>2, <2>3 DEF BaseInv, TypeOK, ShopTypeOK, StartsAgain, Entries, Messages, UnitFields,
                            requestVars
  <2>5. LiveUnits' = LiveUnits \cup {item}
    BY <1>2, <2>1, <2>3 DEF LiveUnits, StartsAgain
  <2>6. PlacesInv'
    <3>1. (Range(holding') \ {NoUnit})
            \cap (Range(raw_material') \cup Range(semi_material') \cup Range(products')) = {}
      BY <1>2, <2>1, <2>3 DEF BaseInv, PlacesInv, LiveUnits, StartsAgain
    <3>2. /\ Range(raw_material') \cap Range(semi_material') = {}
          /\ Range(products') \cap (Range(raw_material') \cup Range(semi_material')) = {}
          /\ IsInjective(semi_material') /\ IsInjective(products')
      BY <1>2, <2>1, <2>3 DEF BaseInv, PlacesInv, LiveUnits, StartsAgain
    <3>3. \A v, w \in Workers : holding'[v] = holding'[w] => v = w \/ holding'[v] = NoUnit
      BY <1>2 DEF BaseInv, PlacesInv, StartsAgain
    <3> QED
      BY <2>3, <2>4, <3>1, <3>2, <3>3, PlacesAgain
  <2>7. ControlInv'
    BY <1>2, <2>1, <2>2 DEF BaseInv, ControlInv, StartsAgain
  <2>8. FreshInv'
    BY <1>2, <2>1, <2>5 DEF BaseInv, FreshInv, StartsAgain, requestVars
  <2> QED
    BY <1>2, <2>1, <2>4, <2>5, <2>6, <2>7, <2>8 DEF BaseInv
<1> QED
  BY <1>1, <1>2, UnitAgainDoes

\* The raw material is taken aside.
LEMMA TakeAsideDoes ==
  ASSUME TypeOK, PlacesInv, semi_material = <<>>, NEW event \in Events,
         NEW about \in Nat \cup Media \cup {NoMedia}, TakeAside(event, about)
  PROVE  /\ semi_material' = raw_material /\ raw_material' = <<>>
         /\ Post(event, about)
         /\ UNCHANGED <<products, feedback, holding, fb>>
         /\ LiveUnits' = LiveUnits /\ PlacesInv'
         /\ semi_material' \in Seq(Units) /\ raw_material' \in Seq(Units)
         /\ messages' \in [Workers -> Seq(Messages)]
         /\ worker' \in [Workers -> {"message", "checked", "asleep", "take", "convey",
                                     "product", "feedback"}]
         /\ \A w \in Workers : worker'[w] \in {"convey", "product"} <=> worker[w] \in {"convey", "product"}
<1>1. /\ semi_material' = raw_material /\ raw_material' = <<>>
      /\ Post(event, about)
      /\ UNCHANGED <<products, feedback, holding, fb>>
  BY DEF TakeAside
<1>2. semi_material' \in Seq(Units) /\ raw_material' \in Seq(Units)
  BY <1>1 DEF TypeOK, ShopTypeOK
<1>3. Range(raw_material') = {} /\ IsInjective(raw_material')
      /\ Range(semi_material) = {} /\ Range(semi_material') = Range(raw_material)
  BY <1>1, EmptyParts
<1>4. LiveUnits' = LiveUnits
  BY <1>1, <1>3 DEF LiveUnits
<1>5. PlacesInv'
  BY <1>1, <1>3 DEF PlacesInv
<1>6. /\ messages' \in [Workers -> Seq(Messages)]
      /\ worker' \in [Workers -> {"message", "checked", "asleep", "take", "convey",
                                  "product", "feedback"}]
      /\ \A w \in Workers : worker'[w] \in {"convey", "product"} <=> worker[w] \in {"convey", "product"}
  BY <1>1, PostDoes DEF TypeOK
<1> QED
  BY <1>1, <1>2, <1>4, <1>5, <1>6

\* What does not change when the medium does.
SwitchFrame == UNCHANGED <<client_table, subscribed, unit, item, stage, requestVars>>
SpentType == spent' \in Seq(Kinds) /\ Len(spent') <= MaxEvents

LEMMA SwitchToBase ==
  ASSUME BaseInv, semi_material = <<>>, stage = "next", NEW new \in Media \cup {NoMedia},
         SwitchTo(new), SwitchFrame, SpentType
  PROVE  BaseInv' /\ LiveUnits' = LiveUnits
<1> USE DEF SwitchFrame, requestVars, routineVars
<1>1. CASE subscribed /\ new # NoMedia
  <2>1. /\ media' = new /\ doing' = "changed" /\ arg' = new /\ new \in Media
        /\ TakeAside("CommonDestChange", new)
    BY <1>1 DEF SwitchTo, Enter
  <2>2. "CommonDestChange" \in Events
    BY DEF Events
  <2>3. /\ LiveUnits' = LiveUnits /\ PlacesInv'
        /\ semi_material' \in Seq(Units) /\ raw_material' \in Seq(Units)
        /\ messages' \in [Workers -> Seq(Messages)]
        /\ worker' \in [Workers -> {"message", "checked", "asleep", "take", "convey",
                                    "product", "feedback"}]
        /\ \A w \in Workers : worker'[w] \in {"convey", "product"} <=> worker[w] \in {"convey", "product"}
        /\ UNCHANGED <<products, feedback, holding, fb>>
    BY <2>1, <2>2, TakeAsideDoes DEF BaseInv
  <2>4. TypeOK'
    BY <2>1, <2>3 DEF BaseInv, TypeOK, ShopTypeOK, Messages, SpentType
  <2>5. ControlInv'
    BY <2>1, <2>3 DEF BaseInv, ControlInv
  <2>6. FreshInv'
    BY <2>3 DEF BaseInv, FreshInv
  <2> QED
    BY <2>3, <2>4, <2>5, <2>6 DEF BaseInv
<1>2. CASE ~(subscribed /\ new # NoMedia)
  <2>1. /\ media' = new /\ doing' = "loop" /\ arg' = NoMedia
        /\ UNCHANGED <<semi_material, raw_material, messages, products, feedback, routineVars>>
    BY <1>2 DEF SwitchTo, Enter
  <2>2. LiveUnits' = LiveUnits /\ PlacesInv'
    BY <2>1, SamePlaces DEF BaseInv
  <2>3. TypeOK'
    BY <2>1 DEF BaseInv, TypeOK, ShopTypeOK, SpentType
  <2>4. ControlInv'
    BY <2>1 DEF BaseInv, ControlInv
  <2>5. FreshInv'
    BY <2>2 DEF BaseInv, FreshInv
  <2> QED
    BY <2>2, <2>3, <2>4, <2>5 DEF BaseInv
<1> QED
  BY <1>1, <1>2

LEMMA SpendType ==
  ASSUME TypeOK, NEW kind, Spend(kind)
  PROVE  SpentType
<1>1. spent \in Seq(Kinds) /\ kind \in Kinds /\ Len(spent) < MaxEvents /\ spent' = Append(spent, kind)
  BY DEF TypeOK, Spend
<1>2. spent' \in Seq(Kinds) /\ Len(spent') = Len(spent) + 1 /\ Len(spent) \in Nat
  BY <1>1, AppendProperties, LenProperties
<1> QED
  BY <1>1, <1>2, ConveyAssumption DEF SpentType

LEMMA CurrentMediaChangedBase ==
  ASSUME BaseInv, CurrentMediaChanged
  PROVE  BaseInv' /\ LiveUnits' = LiveUnits
<1>1. SpentType
  BY SpendType DEF BaseInv, CurrentMediaChanged
<1>2. semi_material = <<>> /\ stage = "next"
  BY DEF BaseInv, ControlInv, CurrentMediaChanged, Idle
<1>3. SwitchFrame
  BY DEF CurrentMediaChanged, SwitchFrame
<1>4. PICK new \in Media \cup {NoMedia} : SwitchTo(new)
  BY DEF CurrentMediaChanged
<1> QED
  BY <1>1, <1>2, <1>3, <1>4, SwitchToBase

LEMMA SemiEndBase ==
  ASSUME BaseInv, SemiEnd
  PROVE  BaseInv' /\ LiveUnits' = LiveUnits
<1>1. SpentType
  BY DEF BaseInv, TypeOK, SpentType, SemiEnd
<1>2. semi_material = <<>> /\ stage = "next" /\ SwitchFrame
  BY DEF SemiEnd, SwitchFrame
<1>3. CASE doing = "inactive" /\ arg = media
  <2>1. PICK new \in Media \cup {NoMedia} : SwitchTo(new)
    BY <1>3 DEF SemiEnd
  <2> QED
    BY <1>1, <1>2, <2>1, SwitchToBase
<1>4. CASE ~(doing = "inactive" /\ arg = media)
  <2> USE DEF SwitchFrame, requestVars, routineVars
  <2>1. /\ doing' = "loop" /\ arg' = NoMedia
        /\ UNCHANGED <<media, semi_material, raw_material, messages, products, feedback, routineVars>>
    BY <1>4 DEF SemiEnd, Enter
  <2>2. LiveUnits' = LiveUnits /\ PlacesInv'
    BY <2>1, SamePlaces DEF BaseInv
  <2>3. TypeOK'
    BY <1>1, <1>2, <2>1 DEF BaseInv, TypeOK, ShopTypeOK, SpentType
  <2>4. ControlInv'
    BY <1>2, <2>1 DEF BaseInv, ControlInv
  <2>5. FreshInv'
    BY <1>2, <2>2 DEF BaseInv, FreshInv
  <2> QED
    BY <2>2, <2>3, <2>4, <2>5 DEF BaseInv
<1> QED
  BY <1>3, <1>4

LEMMA MediaInactiveBase ==
  ASSUME BaseInv, MediaInactive
  PROVE  BaseInv' /\ LiveUnits' = LiveUnits
<1> USE DEF requestVars, routineVars
<1>1. SpentType
  BY SpendType DEF BaseInv, MediaInactive
<1>2. semi_material = <<>> /\ stage = "next" /\ doing = "loop"
  BY DEF BaseInv, ControlInv, MediaInactive, Idle
<1>3. PICK m \in Media : Enter("inactive", m) /\ TakeAside("Vanish", m)
  BY DEF MediaInactive
<1>4. "Vanish" \in Events
  BY DEF Events
<1>5. /\ LiveUnits' = LiveUnits /\ PlacesInv'
      /\ semi_material' \in Seq(Units) /\ raw_material' \in Seq(Units)
      /\ messages' \in [Workers -> Seq(Messages)]
      /\ worker' \in [Workers -> {"message", "checked", "asleep", "take", "convey",
                                  "product", "feedback"}]
      /\ \A w \in Workers : worker'[w] \in {"convey", "product"} <=> worker[w] \in {"convey", "product"}
      /\ UNCHANGED <<products, feedback, holding, fb>>
  BY <1>2, <1>3, <1>4, TakeAsideDoes DEF BaseInv
<1>6. /\ doing' = "inactive" /\ arg' = m
      /\ UNCHANGED <<client_table, subscribed, unit, media, item, stage, requestVars>>
  BY <1>3 DEF Enter, MediaInactive
<1>7. TypeOK'
  BY <1>1, <1>5, <1>6 DEF BaseInv, TypeOK, ShopTypeOK, Messages, SpentType
<1>8. ControlInv'
  BY <1>2, <1>5, <1>6 DEF BaseInv, ControlInv
<1>9. FreshInv'
  BY <1>2, <1>5, <1>6 DEF BaseInv, FreshInv
<1> QED
  BY <1>5, <1>7, <1>8, <1>9 DEF BaseInv

\* A unit that was taken aside goes back, or is given its state and counted down.
LEMMA SemiNextBase ==
  ASSUME BaseInv, SemiNext
  PROVE  /\ BaseInv'
         /\ semi_material # <<>> /\ Head(semi_material) \in Units
         /\ Head(semi_material) \in LiveUnits
         /\ SemiState(Head(semi_material)) = "Wait" =>
              /\ LiveUnits' = LiveUnits
              /\ UNCHANGED <<unit, client_table, item, stage>>
         /\ SemiState(Head(semi_material)) # "Wait" =>
              /\ LiveUnits' = LiveUnits \ {Head(semi_material)}
              /\ \A x \in Units :
                   /\ unit'[x].tag = unit[x].tag
                   /\ unit'[x].src = unit[x].src
                   /\ unit'[x].dest = unit[x].dest
                   /\ unit'[x].state = IF x = Head(semi_material) THEN SemiState(Head(semi_material))
                                       ELSE unit[x].state
              /\ Counted(Head(semi_material))
<1> USE DEF requestVars, routineVars
<1> DEFINE u == Head(semi_material)
           s == SemiState(u)
<1>1. /\ u \in Units /\ Tail(semi_material) \in Seq(Units) /\ semi_material # <<>>
      /\ Range(semi_material) = Range(Tail(semi_material)) \cup {u}
      /\ IsInjective(Tail(semi_material)) /\ u \notin Range(Tail(semi_material))
  BY TailParts DEF BaseInv, TypeOK, PlacesInv, SemiNext
<1>2. /\ doing \in {"changed", "inactive"} /\ stage = "next"
      /\ semi_material' = Tail(semi_material)
      /\ UNCHANGED <<subscribed, products, messages, feedback, routineVars, media, doing, arg,
                     requestVars, spent>>
  BY DEF SemiNext
<1>3. CASE s = "Wait"
  <2>1. raw_material' = Append(raw_material, u) /\ UNCHANGED <<unit, client_table, item, stage>>
    BY <1>3 DEF SemiNext
  <2> HIDE DEF u, s
  <2>2. u \notin Range(raw_material) /\ u \notin Range(products) /\ u \notin Range(holding)
    BY <1>1 DEF BaseInv, PlacesInv
  <2>3. /\ raw_material' \in Seq(Units) /\ Range(raw_material') = Range(raw_material) \cup {u}
        /\ IsInjective(raw_material')
    BY <1>1, <2>1, <2>2, AppendParts DEF BaseInv, TypeOK, ShopTypeOK, PlacesInv
  <2>4. TypeOK'
    BY <1>1, <1>2, <2>1, <2>3 DEF BaseInv, TypeOK, ShopTypeOK
  <2>5. LiveUnits' = LiveUnits /\ u \in LiveUnits
    BY <1>1, <1>2, <2>3 DEF LiveUnits
  <2>6. PlacesInv'
    <3>1. Range(holding') \cap (Range(raw_material') \cup Range(semi_material') \cup Range(products')) = {}
      BY <1>1, <1>2, <2>2, <2>3 DEF BaseInv, PlacesInv
    <3>2. /\ Range(raw_material') \cap Range(semi_material') = {}
          /\ Range(products') \cap (Range(raw_material') \cup Range(semi_material')) = {}
      BY <1>1, <1>2, <2>2, <2>3 DEF BaseInv, PlacesInv
    <3> QED
      BY <1>1, <1>2, <2>3, <3>1, <3>2 DEF BaseInv, PlacesInv
  <2>7. ControlInv'
    BY <1>2, <2>1 DEF BaseInv, ControlInv
  <2>8. FreshInv'
    BY <1>2, <2>1, <2>5 DEF BaseInv, FreshInv
  <2> QED
    BY <1>1, <1>3, <2>1, <2>4, <2>5, <2>6, <2>7, <2>8 DEF BaseInv, u, s
<1>4. CASE s # "Wait"
  <2>1. unit' = [unit EXCEPT ![u].state = s] /\ ItemDone(u) /\ raw_material' = raw_material
    BY <1>4 DEF SemiNext
  <2>2. s \in States
    BY DEF SemiState, States
  <2> HIDE DEF u, s
  <2>3. Counted(u)
    BY <1>1, <2>1, ItemDoneDoes DEF BaseInv
  <2>4. unit' \in [Units -> UnitFields] /\ \A x \in Units :
          /\ unit'[x].tag = unit[x].tag
          /\ unit'[x].src = unit[x].src
          /\ unit'[x].dest = unit[x].dest
          /\ unit'[x].state = IF x = u THEN s ELSE unit[x].state
    BY <1>1, <2>1, <2>2, UnitState DEF BaseInv
  <2>5. u \in LiveUnits /\ LiveUnits' = LiveUnits \ {u} /\ PlacesInv'
    <3>1. u \notin Range(holding) /\ u \notin Range(raw_material) /\ u \notin Range(products)
      BY <1>1 DEF BaseInv, PlacesInv
    <3>2. PlacesInv'
      BY <1>1, <1>2, <2>1 DEF BaseInv, PlacesInv
    <3> QED
      BY <1>1, <1>2, <2>1, <3>1, <3>2 DEF LiveUnits
  <2>6. TypeOK'
    BY <1>1, <1>2, <2>1, <2>3, <2>4 DEF BaseInv, TypeOK, ShopTypeOK, Counted, Entries, UnitFields
  <2>7. ControlInv'
    BY <1>1, <1>2, <2>3, <2>4 DEF BaseInv, ControlInv, Counted, Registered
  <2>8. FreshInv'
    BY <1>1, <1>2, <2>3, <2>5 DEF BaseInv, FreshInv, Counted
  <2> QED
    BY <1>1, <1>4, <2>3, <2>4, <2>5, <2>6, <2>7, <2>8 DEF BaseInv, u, s
<1> QED
  BY <1>3, <1>4

LEMMA ExecuteBase ==
  ASSUME BaseInv, NEW c \in Clients, Execute(c)
  PROVE  /\ BaseInv'
         /\ \E tag \in Nat : Attached(c, UnitsOf[c], media, tag)
         /\ subscribed' = (subscribed \/ client_table = <<>>)
         /\ LiveUnits' = LiveUnits \cup UnitsOf[c] /\ LiveUnits \cap UnitsOf[c] = {}
         /\ Post("NewItem", 0)
<1> USE DEF mainVars
<1>1. UnitsOf[c] \in SUBSET Units /\ IsFiniteSet(UnitsOf[c]) /\ Cardinality(UnitsOf[c]) \in Nat
  BY ConveyAssumption, WorkshopAssumption, FS_Subset, FS_CardinalityType
<1>2. /\ state_[c] = "TS_NOT_BEGIN" /\ (doing = "loop" \/ stage = "finished") /\ media \in Media
      /\ state_' = [state_ EXCEPT ![c] = "TS_EXECUTING"]
      /\ item_num_' = [item_num_ EXCEPT ![c] = Cardinality(UnitsOf[c])]
      /\ UNCHANGED <<products, feedback, holding, fb, mainVars, result_, fail_num_, spent>>
  BY DEF Execute, BaseInv, TypeOK
<1>3. PICK src \in Media : AttachRequest(c, SetToSeq(UnitsOf[c]), src, media)
  BY DEF Execute
<1>4. /\ \E tag \in Nat : Attached(c, UnitsOf[c], media, tag)
      /\ subscribed' = (subscribed \/ client_table = <<>>)
      /\ Post("NewItem", 0)
  BY <1>1, <1>2, <1>3, AttachDoes DEF BaseInv, TypeOK
<1>5. PICK tag \in Nat : Attached(c, UnitsOf[c], media, tag)
  BY <1>4
<1>6. "NewItem" \in Events /\ 0 \in Nat
  BY DEF Events
<1>7. /\ messages' \in [Workers -> Seq(Messages)]
      /\ worker' \in [Workers -> {"message", "checked", "asleep", "take", "convey",
                                  "product", "feedback"}]
      /\ \A w \in Workers : worker'[w] \in {"convey", "product"} <=> worker[w] \in {"convey", "product"}
  BY <1>4, <1>6, PostDoes DEF BaseInv, TypeOK
<1>8. LiveUnits \cap UnitsOf[c] = {} /\ (stage # "next" => item \notin UnitsOf[c])
  BY <1>2 DEF BaseInv, FreshInv
<1>9. /\ raw_material' \in Seq(Units) /\ IsInjective(raw_material')
      /\ Range(raw_material') = Range(raw_material) \cup UnitsOf[c]
  BY <1>5, <1>8 DEF Attached, BaseInv, PlacesInv, LiveUnits
<1>10. TypeOK'
  <2>1. ShopTypeOK'
    BY <1>2, <1>4, <1>5, <1>7, <1>9 DEF BaseInv, TypeOK, ShopTypeOK, Attached, Entries, Messages
  <2> QED
    BY <1>1, <1>2, <2>1 DEF BaseInv, TypeOK
<1>11. LiveUnits' = LiveUnits \cup UnitsOf[c]
  <2>1. NoUnit \notin UnitsOf[c]
    BY <1>1, WorkshopAssumption
  <2> QED
    BY <1>2, <1>9, <2>1 DEF LiveUnits
<1>12. PlacesInv'
  <2>1. (Range(holding') \ {NoUnit})
            \cap (Range(raw_material') \cup Range(semi_material') \cup Range(products')) = {}
    BY <1>2, <1>8, <1>9 DEF BaseInv, PlacesInv, LiveUnits
  <2>2. /\ Range(raw_material') \cap Range(semi_material') = {}
        /\ Range(products') \cap (Range(raw_material') \cup Range(semi_material')) = {}
        /\ IsInjective(semi_material') /\ IsInjective(products')
        /\ \A v, w \in Workers : holding'[v] = holding'[w] => v = w \/ holding'[v] = NoUnit
    BY <1>2, <1>8, <1>9 DEF BaseInv, PlacesInv, LiveUnits
  <2> QED
    BY <1>9, <1>10, <2>1, <2>2, PlacesAgain
<1>13. ControlInv'
  <2>1. stage # "next" => unit'[item].tag \in DOMAIN client_table'
    <3> SUFFICES ASSUME stage # "next" PROVE unit'[item].tag \in DOMAIN client_table'
      OBVIOUS
    <3>1. item \in Units \ UnitsOf[c] /\ unit[item].tag \in DOMAIN client_table
      BY <1>8 DEF BaseInv, ControlInv
    <3> QED
      BY <1>5, <3>1 DEF Attached
  <2>2. doing # "cancel"
    BY <1>2 DEF BaseInv, ControlInv
  <2> QED
    BY <1>2, <1>7, <2>1, <2>2 DEF BaseInv, ControlInv
<1>14. FreshInv'
  <2>1. \A d \in Clients : state_'[d] = "TS_NOT_BEGIN" =>
          d # c /\ state_[d] = "TS_NOT_BEGIN" /\ UnitsOf[c] \cap UnitsOf[d] = {}
    BY <1>2, ConveyAssumption DEF BaseInv, TypeOK
  <2>2. stage # "callback"
    BY <1>2 DEF BaseInv, ControlInv
  <2> QED
    BY <1>2, <1>11, <2>1, <2>2 DEF BaseInv, FreshInv
<1> QED
  BY <1>4, <1>8, <1>10, <1>11, <1>12, <1>13, <1>14 DEF BaseInv

LEMMA CancelBase ==
  ASSUME BaseInv, NEW c \in Clients, Cancel(c)
  PROVE  /\ BaseInv' /\ LiveUnits' = LiveUnits
         /\ \E tag \in DOMAIN client_table :
              /\ client_table[tag].client = c
              /\ DOMAIN client_table' = DOMAIN client_table
              /\ client_table'[tag] = [client |-> NoClient, num |-> client_table[tag].num]
              /\ \A t \in DOMAIN client_table \ {tag} : client_table'[t] = client_table[t]
              /\ doing' = "cancel" /\ arg' = tag /\ TakeAside("Cancel", tag)
<1> USE DEF routineVars
<1>1. SpentType
  BY SpendType DEF BaseInv, Cancel
<1>2. semi_material = <<>> /\ stage = "next" /\ doing = "loop"
  BY DEF BaseInv, ControlInv, Cancel, Idle
<1>3. PICK tag \in DOMAIN client_table :
        /\ client_table[tag].client = c
        /\ client_table' = [client_table EXCEPT ![tag].client = NoClient]
        /\ doing' = "cancel" /\ arg' = tag
        /\ TakeAside("Cancel", tag)
  BY DEF Cancel, Enter
<1>4. /\ client_table \in Seq(Entries) /\ DOMAIN client_table = 1 .. Len(client_table)
      /\ Len(client_table) \in Nat /\ client_table[tag] \in Entries
  BY <1>3, LenProperties, TableType DEF BaseInv
<1>5. tag \in Nat /\ "Cancel" \in Events
  BY <1>4 DEF Events
<1>6. /\ client_table' \in Seq(Entries) /\ DOMAIN client_table' = DOMAIN client_table
      /\ client_table'[tag] = [client |-> NoClient, num |-> client_table[tag].num]
      /\ \A t \in DOMAIN client_table \ {tag} : client_table'[t] = client_table[t]
  <2> DEFINE entry == [client_table[tag] EXCEPT !.client = NoClient]
  <2>1. entry \in Entries /\ entry = [client |-> NoClient, num |-> client_table[tag].num]
    BY <1>4 DEF Entries
  <2>2. client_table' = [client_table EXCEPT ![tag] = entry]
    BY <1>3
  <2> HIDE DEF entry
  <2>3. tag \in 1 .. Len(client_table) /\ client_table \in Seq(Entries)
    BY <1>4
  <2>4. /\ client_table' \in Seq(Entries) /\ Len(client_table') = Len(client_table)
        /\ \A t \in 1 .. Len(client_table) :
             client_table'[t] = IF t = tag THEN entry ELSE client_table[t]
    BY <2>1, <2>2, <2>3, ExceptSeq
  <2>5. DOMAIN client_table' = 1 .. Len(client_table)
    BY <2>4, LenProperties
  <2> QED
    BY <1>4, <2>1, <2>3, <2>4, <2>5
<1>7. /\ LiveUnits' = LiveUnits /\ PlacesInv'
      /\ semi_material' \in Seq(Units) /\ raw_material' \in Seq(Units)
      /\ messages' \in [Workers -> Seq(Messages)]
      /\ worker' \in [Workers -> {"message", "checked", "asleep", "take", "convey",
                                  "product", "feedback"}]
      /\ \A w \in Workers : worker'[w] \in {"convey", "product"} <=> worker[w] \in {"convey", "product"}
      /\ UNCHANGED <<products, feedback, holding, fb>>
  BY <1>2, <1>3, <1>5, TakeAsideDoes DEF BaseInv
<1>8. /\ state_' = [state_ EXCEPT ![c] = "TS_CANCELED"]
      /\ item_num_' = [item_num_ EXCEPT ![c] = 0]
      /\ UNCHANGED <<subscribed, unit, media, item, stage, result_, fail_num_>>
  BY DEF Cancel
<1>9. TypeOK'
  BY <1>1, <1>3, <1>5, <1>6, <1>7, <1>8 DEF BaseInv, TypeOK, ShopTypeOK, Messages, Entries, SpentType
<1>10. ControlInv'
  BY <1>2, <1>3, <1>6, <1>7, <1>8 DEF BaseInv, ControlInv
<1>11. FreshInv'
  BY <1>2, <1>7, <1>8 DEF BaseInv, FreshInv, TypeOK
<1> QED
  BY <1>3, <1>6, <1>7, <1>9, <1>10, <1>11 DEF BaseInv

\* A unit of the request that is canceled is thrown away and counted down, another
\* one goes back.
LEMMA CancelNextBase ==
  ASSUME BaseInv, CancelNext
  PROVE  /\ BaseInv'
         /\ semi_material # <<>> /\ Head(semi_material) \in Units /\ arg \in DOMAIN client_table
         /\ Head(semi_material) \in LiveUnits
         /\ unit[Head(semi_material)].tag # arg =>
              LiveUnits' = LiveUnits /\ client_table' = client_table
         /\ unit[Head(semi_material)].tag = arg =>
              /\ LiveUnits' = LiveUnits \ {Head(semi_material)}
              /\ client_table' \in Seq(Entries) /\ DOMAIN client_table' = DOMAIN client_table
              /\ \A t \in DOMAIN client_table :
                   /\ client_table'[t].client = client_table[t].client
                   /\ client_table'[t].num = IF t = arg THEN client_table[t].num - 1
                                             ELSE client_table[t].num
<1> USE DEF requestVars, routineVars
<1> DEFINE u == Head(semi_material)
<1>1. /\ u \in Units /\ Tail(semi_material) \in Seq(Units) /\ semi_material # <<>>
      /\ Range(semi_material) = Range(Tail(semi_material)) \cup {u}
      /\ IsInjective(Tail(semi_material)) /\ u \notin Range(Tail(semi_material))
  BY TailParts DEF BaseInv, TypeOK, PlacesInv, CancelNext
<1>2. /\ doing = "cancel" /\ stage = "next" /\ arg \in DOMAIN client_table
      /\ semi_material' = Tail(semi_material)
      /\ UNCHANGED <<subscribed, products, messages, feedback, routineVars, unit, media, doing, arg,
                     item, stage, requestVars, spent>>
  BY DEF CancelNext, BaseInv, ControlInv
<1>3. /\ u \notin Range(raw_material) /\ u \notin Range(products) /\ u \notin Range(holding)
      /\ u \in LiveUnits
  BY <1>1 DEF BaseInv, PlacesInv, LiveUnits
<1>4. CASE unit[u].tag = arg
  <2>1. CountDown(arg) /\ raw_material' = raw_material
    BY <1>4 DEF CancelNext
  <2> HIDE DEF u
  <2>2. /\ client_table' \in Seq(Entries) /\ DOMAIN client_table' = DOMAIN client_table
        /\ \A t \in DOMAIN client_table :
             /\ client_table'[t].client = client_table[t].client
             /\ client_table'[t].num = IF t = arg THEN client_table[arg].num - 1
                                       ELSE client_table[t].num
    <3> DEFINE n == client_table[arg].num - 1
    <3>1. n \in Int /\ client_table \in Seq(Entries) /\ arg \in DOMAIN client_table
      BY <1>2, TableType DEF BaseInv
    <3>2. client_table' = [client_table EXCEPT ![arg].num = n]
      BY <2>1 DEF CountDown
    <3> HIDE DEF n
    <3>3. /\ client_table' \in Seq(Entries) /\ DOMAIN client_table' = DOMAIN client_table
          /\ \A t \in DOMAIN client_table :
               /\ client_table'[t].client = client_table[t].client
               /\ client_table'[t].num = IF t = arg THEN n ELSE client_table[t].num
      BY <3>1, <3>2, NumChanges
    <3> QED
      BY <3>3 DEF n
  <2>3. TypeOK'
    BY <1>1, <1>2, <2>1, <2>2 DEF BaseInv, TypeOK, ShopTypeOK, Entries
  <2>4. LiveUnits' = LiveUnits \ {u} /\ PlacesInv'
    <3>1. PlacesInv'
      BY <1>1, <1>2, <2>1 DEF BaseInv, PlacesInv
    <3> QED
      BY <1>1, <1>2, <1>3, <2>1, <3>1 DEF LiveUnits
  <2>5. ControlInv'
    BY <1>2, <2>2 DEF BaseInv, ControlInv
  <2>6. FreshInv'
    BY <1>2, <2>4 DEF BaseInv, FreshInv
  <2> QED
    BY <1>1, <1>2, <1>3, <1>4, <2>2, <2>3, <2>4, <2>5, <2>6 DEF BaseInv, u
<1>5. CASE unit[u].tag # arg
  <2>1. raw_material' = Append(raw_material, u) /\ client_table' = client_table
    BY <1>5 DEF CancelNext
  <2> HIDE DEF u
  <2>2. /\ raw_material' \in Seq(Units) /\ Range(raw_material') = Range(raw_material) \cup {u}
        /\ IsInjective(raw_material')
    BY <1>1, <1>3, <2>1, AppendParts DEF BaseInv, TypeOK, ShopTypeOK, PlacesInv
  <2>3. TypeOK'
    BY <1>1, <1>2, <2>1, <2>2 DEF BaseInv, TypeOK, ShopTypeOK
  <2>4. LiveUnits' = LiveUnits
    BY <1>1, <1>2, <2>2 DEF LiveUnits
  <2>5. PlacesInv'
    <3>1. Range(holding') \cap (Range(raw_material') \cup Range(semi_material') \cup Range(products')) = {}
      BY <1>1, <1>2, <1>3, <2>2 DEF BaseInv, PlacesInv
    <3>2. /\ Range(raw_material') \cap Range(semi_material') = {}
          /\ Range(products') \cap (Range(raw_material') \cup Range(semi_material')) = {}
      BY <1>1, <1>2, <1>3, <2>2 DEF BaseInv, PlacesInv
    <3> QED
      BY <1>1, <1>2, <2>2, <3>1, <3>2 DEF BaseInv, PlacesInv
  <2>6. ControlInv'
    BY <1>2, <2>1 DEF BaseInv, ControlInv
  <2>7. FreshInv'
    BY <1>2, <2>4 DEF BaseInv, FreshInv
  <2> QED
    BY <1>1, <1>2, <1>3, <1>5, <2>1, <2>3, <2>4, <2>5, <2>6, <2>7 DEF BaseInv, u
<1> QED
  BY <1>4, <1>5

LEMMA CancelEndBase ==
  ASSUME BaseInv, CancelEnd
  PROVE  BaseInv' /\ LiveUnits' = LiveUnits /\ Kept(client_table)
<1> USE DEF requestVars, routineVars
<1>1. Kept(client_table)
  <2>1. CASE Trim(client_table)
    BY <2>1, TrimKeeps, TableType DEF BaseInv
  <2>2. CASE UNCHANGED <<client_table, subscribed>>
    BY <2>2, TableType DEF BaseInv, Kept
  <2> QED
    BY <2>1, <2>2 DEF CancelEnd, TidyCanceled
<1>2. /\ stage = "next" /\ doing' = "loop" /\ arg' = NoMedia /\ semi_material = <<>>
      /\ UNCHANGED <<raw_material, products, messages, feedback, routineVars, unit, media,
                     semi_material, item, stage, requestVars, spent>>
  BY DEF CancelEnd, Enter, BaseInv, ControlInv
<1>3. TypeOK'
  BY <1>1, <1>2 DEF BaseInv, TypeOK, ShopTypeOK, Kept, Entries
<1>4. PlacesInv' /\ LiveUnits' = LiveUnits
  BY <1>2, SamePlaces DEF BaseInv
<1>5. ControlInv'
  BY <1>2 DEF BaseInv, ControlInv
<1>6. FreshInv'
  BY <1>2, <1>4 DEF BaseInv, FreshInv
<1> QED
  BY <1>1, <1>3, <1>4, <1>5, <1>6 DEF BaseInv

LEMMA ClearBase ==
  ASSUME BaseInv, Clear
  PROVE  BaseInv'
<1> USE DEF requestVars, routineVars
<1>1. SpentType
  BY SpendType DEF BaseInv, Clear
<1>2. /\ stage = "next" /\ doing = "loop" /\ doing' = "clear" /\ arg' = Cardinality(Workers)
      /\ raw_material' = <<>>
      /\ UNCHANGED <<client_table, subscribed, products, feedback, holding, fb, unit, media,
                     semi_material, item, stage, requestVars>>
  BY DEF Clear, Enter, Idle
<1>3. "Clean" \in Events /\ Post("Clean", 0) /\ Cardinality(Workers) \in Nat /\ 0 \in Nat
  BY WorkshopAssumption, FS_CardinalityType DEF Events, Clear
<1>4. /\ messages' \in [Workers -> Seq(Messages)]
      /\ worker' \in [Workers -> {"message", "checked", "asleep", "take", "convey",
                                  "product", "feedback"}]
      /\ \A w \in Workers : worker'[w] \in {"convey", "product"} <=> worker[w] \in {"convey", "product"}
  BY <1>3, PostDoes DEF BaseInv, TypeOK
<1>5. TypeOK'
  <2>1. raw_material' \in Seq(Units) /\ arg' \in Nat
    BY <1>2, <1>3
  <2>2. ShopTypeOK'
    BY <1>2, <1>4, <2>1 DEF BaseInv, TypeOK, ShopTypeOK, Messages
  <2> QED
    BY <1>1, <1>2, <2>1, <2>2 DEF BaseInv, TypeOK, SpentType
<1>6. Range(raw_material') = {} /\ IsInjective(raw_material')
  BY <1>2, EmptyParts
<1>7. PlacesInv'
  BY <1>2, <1>6 DEF BaseInv, PlacesInv
<1>8. LiveUnits' \subseteq LiveUnits
  BY <1>2, <1>6 DEF LiveUnits
<1>9. ControlInv'
  BY <1>2, <1>3, <1>4 DEF BaseInv, ControlInv
<1>10. FreshInv'
  BY <1>2, <1>8 DEF BaseInv, FreshInv
<1> QED
  BY <1>5, <1>7, <1>9, <1>10 DEF BaseInv

LEMMA ClearAnswerBase ==
  ASSUME BaseInv, ClearAnswer
  PROVE  BaseInv' /\ LiveUnits' = LiveUnits
<1> USE DEF requestVars, routineVars
<1>1. Tail(feedback) \in Seq({"ItemFinish", "WorkRoutineClean"})
  BY TailParts DEF BaseInv, TypeOK, ShopTypeOK, ClearAnswer
<1>2. arg \in Nat /\ arg > 0 /\ arg' \in Nat
  BY DEF BaseInv, ControlInv, ClearAnswer
<1>3. TypeOK'
  BY <1>1, <1>2 DEF BaseInv, TypeOK, ShopTypeOK, ClearAnswer
<1>4. PlacesInv' /\ LiveUnits' = LiveUnits
  BY SamePlaces DEF BaseInv, ClearAnswer
<1>5. ControlInv'
  BY <1>2 DEF BaseInv, ControlInv, ClearAnswer
<1>6. FreshInv'
  BY <1>4 DEF BaseInv, FreshInv, ClearAnswer
<1> QED
  BY <1>3, <1>4, <1>5, <1>6 DEF BaseInv

LEMMA ClearEndBase ==
  ASSUME BaseInv, ClearEnd
  PROVE  BaseInv' /\ LiveUnits' \subseteq LiveUnits
<1> USE DEF requestVars, routineVars
<1>1. /\ products' = <<>> /\ stage = "next"
      /\ UNCHANGED <<raw_material, messages, feedback, routineVars, unit, media, semi_material,
                     item, stage, fail_num_, spent>>
      /\ doing' \in {"loop", "crashed"} /\ arg' = NoMedia /\ doing = "clear"
  BY DEF ClearEnd, Enter, BaseInv, ControlInv
<1>2. /\ client_table' \in Seq(Entries) /\ subscribed' \in BOOLEAN
      /\ state_' \in [Clients -> {"TS_NOT_BEGIN", "TS_EXECUTING", "TS_FINISHED", "TS_CANCELED"}]
      /\ result_' \in [Clients -> {"TRANS_R_SUCCESS", "TRANS_R_FAILURE"}]
      /\ item_num_' \in [Clients -> Nat]
      /\ \A c \in Clients : state_'[c] = "TS_NOT_BEGIN" => state_[c] = "TS_NOT_BEGIN"
  <2> DEFINE called == {client_table[i].client : i \in DOMAIN client_table}
  <2>1. CASE NoClient \in called
    BY <2>1, TableType DEF ClearEnd, BaseInv, TypeOK
  <2>2. CASE NoClient \notin called
    <3>1. /\ client_table' = <<>> /\ subscribed' = FALSE
          /\ item_num_' = [c \in Clients |-> IF c \in called THEN 0 ELSE item_num_[c]]
          /\ state_' = [c \in Clients |-> IF c \in called THEN "TS_FINISHED" ELSE state_[c]]
          /\ result_' = [c \in Clients |-> IF c \in called /\ fail_num_[c] > 0
                                           THEN "TRANS_R_FAILURE" ELSE result_[c]]
      BY <2>2 DEF ClearEnd
    <3> HIDE DEF called
    <3>2. client_table' \in Seq(Entries) /\ subscribed' \in BOOLEAN
      <4>1. <<>> \in Seq(Entries)
        OBVIOUS
      <4>2. subscribed' \in BOOLEAN
        BY <3>1
      <4> QED
        BY <3>1, <4>1, <4>2
    <3>3. /\ state_' \in [Clients -> {"TS_NOT_BEGIN", "TS_EXECUTING", "TS_FINISHED", "TS_CANCELED"}]
          /\ \A c \in Clients : state_'[c] = "TS_NOT_BEGIN" => state_[c] = "TS_NOT_BEGIN"
      BY <3>1 DEF BaseInv, TypeOK
    <3>4. result_' \in [Clients -> {"TRANS_R_SUCCESS", "TRANS_R_FAILURE"}]
      BY <3>1 DEF BaseInv, TypeOK
    <3>5. item_num_' \in [Clients -> Nat]
      BY <3>1 DEF BaseInv, TypeOK
    <3> QED
      BY <3>2, <3>3, <3>4, <3>5
  <2> QED
    BY <2>1, <2>2
<1>3. TypeOK'
  <2>1. products' \in Seq(Units)
    BY <1>1
  <2>2. ShopTypeOK'
    BY <1>1, <1>2, <2>1 DEF BaseInv, TypeOK, ShopTypeOK, Entries
  <2> QED
    BY <1>1, <1>2, <2>2 DEF BaseInv, TypeOK
<1>4. Range(products') = {} /\ IsInjective(products')
  BY <1>1, EmptyParts
<1>5. PlacesInv'
  BY <1>1, <1>4 DEF BaseInv, PlacesInv
<1>6. LiveUnits' \subseteq LiveUnits
  BY <1>1, <1>4 DEF LiveUnits
<1>7. ControlInv'
  BY <1>1 DEF BaseInv, ControlInv
<1>8. FreshInv'
  BY <1>1, <1>2, <1>6 DEF BaseInv, FreshInv
<1> QED
  BY <1>3, <1>5, <1>6, <1>7, <1>8 DEF BaseInv

LEMMA InitBase ==
  ASSUME Init
  PROVE  BaseInv
<1>1. /\ raw_material = <<>> /\ semi_material = <<>> /\ products = <<>> /\ feedback = <<>>
      /\ client_table = <<>> /\ spent = <<>> /\ subscribed = FALSE
      /\ messages = [w \in Workers |-> <<>>]
      /\ worker = [w \in Workers |-> "message"]
      /\ holding = [w \in Workers |-> NoUnit]
      /\ fb = [w \in Workers |-> "ItemFinish"]
      /\ unit = [u \in Units |-> [state |-> "Wait", tag |-> NoTag, src |-> NoMedia, dest |-> NoMedia]]
      /\ media \in Media /\ doing = "loop" /\ arg = NoMedia /\ item = NoUnit /\ stage = "next"
      /\ state_ = [c \in Clients |-> "TS_NOT_BEGIN"]
      /\ result_ = [c \in Clients |-> "TRANS_R_SUCCESS"]
      /\ item_num_ = [c \in Clients |-> 0]
      /\ fail_num_ = [c \in Clients |-> 0]
  BY DEF Init, ShopInit
<1>2. <<>> \in Seq(Units) /\ <<>> \in Seq(Entries) /\ <<>> \in Seq(Messages) /\ <<>> \in Seq(Kinds)
      /\ <<>> \in Seq({"ItemFinish", "WorkRoutineClean"})
  OBVIOUS
<1>3. Len(<<>>) = 0 /\ MaxEvents \in Nat
  BY ConveyAssumption
<1>4. unit \in [Units -> UnitFields]
  BY <1>1 DEF UnitFields, States, NoTag
<1>5. ShopTypeOK
  BY <1>1, <1>2, <1>4 DEF ShopTypeOK, Entries, Messages, UnitFields
<1>6. TypeOK
  BY <1>1, <1>2, <1>3, <1>5 DEF TypeOK
<1>7. LiveUnits = {} /\ Range(holding) \subseteq {NoUnit}
  BY <1>1, EmptyParts DEF LiveUnits, Range
<1>8. PlacesInv
  BY <1>1, <1>7, EmptyParts DEF PlacesInv
<1>9. ControlInv
  BY <1>1 DEF ControlInv
<1>10. FreshInv
  BY <1>1, <1>7 DEF FreshInv
<1> QED
  BY <1>6, <1>8, <1>9, <1>10 DEF BaseInv

LEMMA StutterBase ==
  ASSUME UNCHANGED vars
  PROVE  LiveUnits' = LiveUnits /\ (BaseInv => BaseInv')
<1> USE DEF vars, shopVars, mainVars, requestVars, routineVars
<1>1. LiveUnits' = LiveUnits /\ (PlacesInv => PlacesInv')
  BY SamePlaces
<1>2. TypeOK => TypeOK'
  BY DEF TypeOK, ShopTypeOK
<1>3. ControlInv => ControlInv'
  BY DEF ControlInv
<1>4. FreshInv => FreshInv'
  BY <1>1 DEF FreshInv
<1> QED
  BY <1>1, <1>2, <1>3, <1>4 DEF BaseInv

\* Every unit is in one place, and the main thread and the routines are where their
\* data says: each step keeps this, whatever the events.
LEMMA BaseStep ==
  ASSUME BaseInv, [Next]_vars
  PROVE  BaseInv'
<1>1. CASE RoutineStep
  BY <1>1, RoutineBase DEF RoutineStep
<1>2. CASE MainStep
  BY <1>2, ProcessBase, ProcessNextBase, SemiNextBase, SemiEndBase, CancelNextBase, CancelEndBase,
     ClearAnswerBase, ClearEndBase, RequestDoneBase, ItemTidyBase, UnitOverBase, UnitAgainBase
     DEF MainStep
<1>3. CASE EventStep
  BY <1>3, ExecuteBase, CancelBase, CurrentMediaChangedBase, MediaInactiveBase, ClearBase DEF EventStep
<1>4. CASE UNCHANGED vars
  BY <1>4, StutterBase
<1> QED
  BY <1>1, <1>2, <1>3, <1>4 DEF Next

------------------------------------------------------------------------------
(* What has happened, and the messages that say so.                        *)

LEMMA SpendDoes ==
  ASSUME TypeOK, NEW kind, Spend(kind)
  PROVE  /\ HasCleared => HasCleared'
         /\ kind = "clear" => HasCleared'
         /\ FirstClear' => FirstClear
         /\ FirstClear' /\ kind = "clear" => ~HasCleared
         /\ Undisturbed' => Undisturbed /\ kind \notin {"cancel", "clear"}
<1>1. /\ Len(spent) \in Nat /\ DOMAIN spent = 1 .. Len(spent)
      /\ DOMAIN spent' = 1 .. Len(spent) + 1
      /\ \A i \in 1 .. Len(spent) : spent'[i] = spent[i]
      /\ spent'[Len(spent) + 1] = kind
  BY AppendProperties, LenProperties DEF TypeOK, Spend
<1>2. DOMAIN spent' = DOMAIN spent \cup {Len(spent) + 1} /\ Len(spent) + 1 \notin DOMAIN spent
  BY <1>1
<1>3. \A i \in DOMAIN spent : spent'[i] = spent[i]
  BY <1>1
<1> QED
  BY <1>1, <1>2, <1>3 DEF HasCleared, FirstClear, Undisturbed

\* Where no event happens.
LEMMA NothingSpent ==
  ASSUME UNCHANGED spent
  PROVE  /\ HasCleared' <=> HasCleared
         /\ FirstClear' <=> FirstClear
         /\ Undisturbed' <=> Undisturbed
BY DEF HasCleared, FirstClear, Undisturbed

\* What was in the messages of a routine after a message to all.
LEMMA PostedAfter ==
  ASSUME TypeOK, NEW event \in Events, NEW about \in Nat \cup Media \cup {NoMedia},
         Post(event, about), NEW w \in Workers
  PROVE  /\ Len(messages[w]) \in Nat /\ DOMAIN messages[w] = 1 .. Len(messages[w])
         /\ DOMAIN messages'[w] = 1 .. Len(messages[w]) + 1
         /\ Len(messages'[w]) = Len(messages[w]) + 1
         /\ \A i \in 1 .. Len(messages[w]) : messages'[w][i] = messages[w][i]
         /\ messages'[w][Len(messages[w]) + 1] = [event |-> event, arg |-> about]
         /\ \A i \in 1 .. Len(messages[w]) + 1 : i \in 1 .. Len(messages[w]) \/ i = Len(messages[w]) + 1
<1>1. /\ messages'[w] = Append(messages[w], [event |-> event, arg |-> about])
      /\ messages[w] \in Seq(Messages)
  BY PostDoes DEF TypeOK
<1>2. [event |-> event, arg |-> about] \in Messages
  BY DEF Messages
<1>3. Len(messages[w]) \in Nat /\ DOMAIN messages[w] = 1 .. Len(messages[w])
  BY <1>1, LenProperties
<1> QED
  BY <1>1, <1>2, <1>3, AppendProperties, LenProperties

LEMMA PostClean ==
  ASSUME TypeOK, NEW event \in Events, NEW about \in Nat \cup Media \cup {NoMedia},
         Post(event, about), NEW w \in Workers
  PROVE  Cleaning(w)' <=> Cleaning(w) \/ event = "Clean"
<1> DEFINE n == Len(messages[w])
<1>1. /\ DOMAIN messages[w] = 1 .. n /\ n \in Nat
      /\ DOMAIN messages'[w] = 1 .. n + 1
      /\ \A i \in 1 .. n : messages'[w][i] = messages[w][i]
      /\ messages'[w][n + 1] = [event |-> event, arg |-> about]
  BY PostedAfter
<1> HIDE DEF n
<1>2. 1 .. n + 1 = (1 .. n) \cup {n + 1}
  BY <1>1
<1> QED
  BY <1>1, <1>2 DEF Cleaning

\* Routine w reads its first message.
LEMMA ConsumeDoes ==
  ASSUME TypeOK, NEW w \in Workers, messages[w] # <<>>, Consume(w)
  PROVE  /\ \A v \in Workers \ {w} : messages'[v] = messages[v]
         /\ messages'[w] = Tail(messages[w])
         /\ Len(messages[w]) \in Nat \ {0} /\ DOMAIN messages[w] = 1 .. Len(messages[w])
         /\ Len(messages'[w]) = Len(messages[w]) - 1
         /\ DOMAIN messages'[w] = 1 .. Len(messages[w]) - 1
         /\ \A i \in 1 .. Len(messages[w]) - 1 : messages'[w][i] = messages[w][i + 1]
         /\ Head(messages[w]) = messages[w][1] /\ messages[w][1] \in Messages
<1>1. messages \in [Workers -> Seq(Messages)]
  BY DEF TypeOK, ShopTypeOK, Messages
<1>2. /\ \A v \in Workers \ {w} : messages'[v] = messages[v]
      /\ messages'[w] = Tail(messages[w]) /\ messages[w] \in Seq(Messages)
  BY <1>1 DEF Consume
<1> QED
  BY <1>2, HeadTailProperties, LenProperties, EmptySeq

LEMMA ConsumeClean ==
  ASSUME TypeOK, NEW w \in Workers, messages[w] # <<>>, Consume(w), NEW v \in Workers
  PROVE  /\ Cleaning(v)' => Cleaning(v)
         /\ Head(messages[w]).event = "Clean" => Cleaning(w)
<1>0. messages[w] \in Seq(Messages) /\ messages'[w] = Tail(messages[w])
  BY ConsumeDoes DEF TypeOK, ShopTypeOK, Messages
<1>1. ASSUME v = w
      PROVE  Cleaning(v)' => Cleaning(v)
  <2>1. \A i \in DOMAIN messages'[w] :
          i + 1 \in DOMAIN messages[w] /\ messages'[w][i] = messages[w][i + 1]
    BY <1>0, TailElements
  <2>2. (\E i \in DOMAIN messages'[w] : messages'[w][i].event = "Clean")
          => \E i \in DOMAIN messages[w] : messages[w][i].event = "Clean"
    BY <2>1
  <2> QED
    BY <1>1, <2>2 DEF Cleaning
<1>2. ASSUME v # w
      PROVE  Cleaning(v)' => Cleaning(v)
  BY <1>2, ConsumeDoes DEF Cleaning
<1>3. Head(messages[w]).event = "Clean" => Cleaning(w)
  BY <1>0, TailElements DEF Cleaning
<1> QED
  BY <1>1, <1>2, <1>3

LEMMA QuietSame ==
  ASSUME QuietInv, HasCleared' <=> HasCleared, UNCHANGED fb,
         doing' \in {doing, "loop", "process", "changed", "inactive", "cancel"},
         \A w \in Workers : Cleaning(w)' => Cleaning(w),
         feedback' = feedback \/ (feedback # <<>> /\ feedback' = Tail(feedback)),
         TypeOK
  PROVE  QuietInv'
<1>1. SUFFICES ASSUME ~HasCleared PROVE QuietInv'
  BY DEF QuietInv
<1>2. \A i \in DOMAIN feedback' : feedback'[i] = "ItemFinish"
  <2>1. CASE feedback' = feedback
    BY <1>1, <2>1 DEF QuietInv
  <2>2. CASE feedback # <<>> /\ feedback' = Tail(feedback)
    <3>1. feedback \in Seq({"ItemFinish", "WorkRoutineClean"})
      BY DEF TypeOK, ShopTypeOK
    <3>2. \A i \in DOMAIN feedback' : i + 1 \in DOMAIN feedback /\ feedback'[i] = feedback[i + 1]
      BY <2>2, <3>1, TailElements
    <3> QED
      BY <1>1, <3>2 DEF QuietInv
  <2> QED
    BY <2>1, <2>2
<1> QED
  BY <1>1, <1>2 DEF QuietInv

LEMMA RoutineQuiet ==
  ASSUME BaseInv, QuietInv, NEW w \in Workers, WorkRoutine(w), RoutineFrame
  PROVE  QuietInv'
<1> USE DEF RoutineFrame, mainVars
<1>1. HasCleared' <=> HasCleared
  BY NothingSpent
<1>2. SUFFICES ASSUME ~HasCleared PROVE QuietInv'
  BY <1>1 DEF QuietInv
<1>3. /\ doing \notin {"clear", "crashed"}
      /\ \A v \in Workers : ~Cleaning(v) /\ fb[v] = "ItemFinish"
      /\ \A i \in DOMAIN feedback : feedback[i] = "ItemFinish"
  BY <1>2 DEF QuietInv
<1>4. CASE ReadMessage(w) \/ Inspect(w)
  <2>1. messages[w] # <<>> /\ Consume(w)
    BY <1>4 DEF ReadMessage, Inspect
  <2>2. \A v \in Workers : ~Cleaning(v)'
    BY <1>3, <2>1, ConsumeClean DEF BaseInv
  <2>3. Head(messages[w]).event # "Clean" /\ Head(messages[w]) \in Messages
    BY <1>3, <2>1, ConsumeClean, ConsumeDoes DEF BaseInv
  <2>4. CASE ReadMessage(w)
    BY <1>3, <2>2, <2>3, <2>4 DEF ReadMessage, QuietInv
  <2>5. CASE Inspect(w)
    <3>1. holding[w] \in Units
      BY <2>5, HeldUnit DEF BaseInv, ControlInv, Inspect
    <3>2. StateAfter(holding[w], Head(messages[w])) # "Clean"
      BY <2>3, <3>1, StateAfterType
    <3>3. fb' = [fb EXCEPT ![w] = fb[w]] /\ feedback' = feedback
      BY <2>5, <3>2 DEF Inspect
    <3>4. \A v \in Workers : fb'[v] = fb[v]
      BY <3>3 DEF BaseInv, TypeOK, ShopTypeOK
    <3> QED
      BY <1>3, <2>2, <3>3, <3>4 DEF QuietInv
  <2> QED
    BY <1>4, <2>4, <2>5
<1>5. CASE WriteFeedback(w)
  <2>1. feedback \in Seq({"ItemFinish", "WorkRoutineClean"}) /\ feedback' = Append(feedback, "ItemFinish")
        /\ UNCHANGED <<messages, fb>>
    BY <1>3, <1>5 DEF BaseInv, TypeOK, ShopTypeOK, WriteFeedback
  <2>2. /\ DOMAIN feedback = 1 .. Len(feedback) /\ Len(feedback) \in Nat
        /\ DOMAIN feedback' = 1 .. Len(feedback) + 1
        /\ \A i \in 1 .. Len(feedback) : feedback'[i] = feedback[i]
        /\ feedback'[Len(feedback) + 1] = "ItemFinish"
    BY <2>1, AppendProperties, LenProperties
  <2>3. \A i \in DOMAIN feedback' : feedback'[i] = "ItemFinish"
    BY <1>3, <2>2
  <2> QED
    BY <1>3, <2>1, <2>3 DEF QuietInv, Cleaning
<1>6. CASE FindNoMessage(w) \/ FallAsleep(w) \/ TakeMaterial(w) \/ Convey(w) \/ PushProduct(w)
  <2>1. UNCHANGED <<messages, fb, feedback>>
    BY <1>6 DEF FindNoMessage, FallAsleep, TakeMaterial, Convey, PushProduct
  <2> QED
    BY <1>3, <2>1 DEF QuietInv, Cleaning
<1> QED
  BY <1>4, <1>5, <1>6 DEF WorkRoutine

\* The raw material is taken aside with a message that is not that of clear().
LEMMA AsideQuiet ==
  ASSUME BaseInv, QuietInv, HasCleared' <=> HasCleared, semi_material = <<>>,
         NEW event \in {"Vanish", "CommonDestChange", "Cancel"},
         NEW about \in Nat \cup Media \cup {NoMedia}, TakeAside(event, about),
         doing' \in {"changed", "inactive", "cancel"}
  PROVE  QuietInv'
<1>1. Post(event, about) /\ UNCHANGED <<feedback, fb>> /\ event \in Events /\ event # "Clean"
  BY DEF TakeAside, Events
<1>2. \A w \in Workers : Cleaning(w)' => Cleaning(w)
  BY <1>1, PostClean DEF BaseInv
<1> QED
  BY <1>1, <1>2, QuietSame DEF BaseInv

LEMMA SwitchQuiet ==
  ASSUME BaseInv, QuietInv, HasCleared' <=> HasCleared, semi_material = <<>>,
         NEW new \in Media \cup {NoMedia}, SwitchTo(new)
  PROVE  QuietInv'
<1>1. CASE subscribed /\ new # NoMedia
  BY <1>1, AsideQuiet DEF SwitchTo, Enter
<1>2. CASE ~(subscribed /\ new # NoMedia)
  <2>1. UNCHANGED <<messages, feedback, fb>> /\ doing' = "loop"
    BY <1>2 DEF SwitchTo, Enter, routineVars
  <2>2. \A w \in Workers : Cleaning(w)' => Cleaning(w)
    BY <2>1 DEF Cleaning
  <2> QED
    BY <2>1, <2>2, QuietSame DEF BaseInv
<1> QED
  BY <1>1, <1>2

\* Until the first clear() there is nothing of it anywhere.
LEMMA QuietStep ==
  ASSUME BaseInv, QuietInv, [Next]_vars
  PROVE  QuietInv'
<1> USE DEF mainVars, requestVars, routineVars, shopVars
<1>1. CASE RoutineStep
  <2>1. PICK w \in Workers : WorkRoutine(w)
    BY <1>1 DEF RoutineStep
  <2>2. RoutineFrame
    BY <1>1, <2>1, RoutineBase DEF RoutineStep, RoutineEffect
  <2> QED
    BY <2>1, <2>2, RoutineQuiet
<1>2. CASE Process \/ ProcessNext \/ SemiNext \/ CancelNext \/ CancelEnd \/ RequestDone \/ ItemTidy
  <2>1. /\ UNCHANGED <<messages, fb, spent>>
        /\ feedback' = feedback \/ (feedback # <<>> /\ feedback' = Tail(feedback))
        /\ doing' \in {doing, "loop", "process"}
    BY <1>2 DEF Process, ProcessNext, SemiNext, CancelNext, CancelEnd, Enter, RequestDone, ItemTidy
  <2>2. \A w \in Workers : Cleaning(w)' => Cleaning(w)
    BY <2>1 DEF Cleaning
  <2> QED
    BY <2>1, <2>2, NothingSpent, QuietSame DEF BaseInv
<1>3. CASE \E c \in Clients : UnitOver(c) \/ UnitAgain(c) \/ Execute(c)
  <2>1. PICK c \in Clients : UnitOver(c) \/ UnitAgain(c) \/ Execute(c)
    BY <1>3
  <2>2. CASE UnitOver(c) \/ (UnitAgain(c) /\ GivesUp(c))
    <3>1. UNCHANGED <<messages, fb, spent, feedback, doing>>
      BY <2>2 DEF UnitOver, GivesUp
    <3>2. \A w \in Workers : Cleaning(w)' => Cleaning(w)
      BY <3>1 DEF Cleaning
    <3> QED
      BY <3>1, <3>2, NothingSpent, QuietSame DEF BaseInv
  <2>3. CASE (UnitAgain(c) /\ StartsAgain) \/ Execute(c)
    <3>1. UNCHANGED <<fb, spent, feedback, doing>> /\ Post("NewItem", 0)
      BY <2>3, ExecuteBase DEF StartsAgain, Execute
    <3>2. "NewItem" \in Events /\ 0 \in Nat /\ "NewItem" # "Clean"
      BY DEF Events
    <3>3. \A w \in Workers : Cleaning(w)' => Cleaning(w)
      BY <3>1, <3>2, PostClean DEF BaseInv
    <3> QED
      BY <3>1, <3>3, NothingSpent, QuietSame DEF BaseInv
  <2> QED
    BY <2>1, <2>2, <2>3, UnitAgainBase
<1>4. CASE SemiEnd
  <2>1. spent' = spent
    BY <1>4 DEF SemiEnd
  <2>2. CASE \E new \in Media \cup {NoMedia} : SwitchTo(new)
    BY <1>4, <2>1, <2>2, NothingSpent, SwitchQuiet DEF SemiEnd, BaseInv
  <2>3. CASE UNCHANGED <<messages, feedback, routineVars>> /\ doing' = "loop"
    <3>1. \A w \in Workers : Cleaning(w)' => Cleaning(w)
      BY <2>3 DEF Cleaning
    <3> QED
      BY <2>1, <2>3, <3>1, NothingSpent, QuietSame DEF BaseInv
  <2> QED
    BY <1>4, <2>2, <2>3 DEF SemiEnd, Enter
<1>5. CASE CurrentMediaChanged \/ MediaInactive \/ \E c \in Clients : Cancel(c)
  <2>1. HasCleared => HasCleared'
    BY <1>5, SpendDoes DEF BaseInv, CurrentMediaChanged, MediaInactive, Cancel
  <2>2. semi_material = <<>>
    BY <1>5 DEF BaseInv, ControlInv, CurrentMediaChanged, MediaInactive, Cancel, Idle
  <2>3. SUFFICES ASSUME HasCleared' <=> HasCleared
                 PROVE  QuietInv'
    BY <2>1 DEF QuietInv
  <2>4. CASE CurrentMediaChanged
    BY <2>2, <2>3, <2>4, SwitchQuiet DEF CurrentMediaChanged
  <2>5. CASE MediaInactive
    <3>1. PICK m \in Media : Enter("inactive", m) /\ TakeAside("Vanish", m)
      BY <2>5 DEF MediaInactive
    <3> QED
      BY <2>2, <2>3, <3>1, AsideQuiet DEF Enter
  <2>6. CASE \E c \in Clients : Cancel(c)
    <3>1. PICK c \in Clients, tag \in DOMAIN client_table : doing' = "cancel" /\ TakeAside("Cancel", tag)
      BY <2>6, CancelBase
    <3>2. tag \in Nat
      BY <3>1, TableType, LenProperties DEF BaseInv
    <3> QED
      BY <2>2, <2>3, <3>1, <3>2, AsideQuiet
  <2> QED
    BY <1>5, <2>4, <2>5, <2>6
<1>6. CASE Clear
  <2>1. HasCleared'
    BY <1>6, SpendDoes DEF BaseInv, Clear
  <2> QED
    BY <2>1 DEF QuietInv
<1>7. CASE ClearAnswer \/ ClearEnd
  <2>1. HasCleared'
    BY <1>7, NothingSpent DEF QuietInv, ClearAnswer, ClearEnd
  <2> QED
    BY <2>1 DEF QuietInv
<1>8. CASE UNCHANGED vars
  BY <1>8 DEF vars, QuietInv, HasCleared, Cleaning
<1> QED
  BY <1>1, <1>2, <1>3, <1>4, <1>5, <1>6, <1>7, <1>8 DEF Next, MainStep, EventStep

------------------------------------------------------------------------------
(* The client table counts the units that are under way.                   *)

LEMMA TaggedUnits ==
  ASSUME TypeOK, NEW t
  PROVE  /\ IsFiniteSet(WithTag(t)) /\ Cardinality(WithTag(t)) \in Nat
         /\ Cardinality(WithTag(t)) = 0 <=> WithTag(t) = {}
<1>1. WithTag(t) \subseteq Units
  BY QueuesAreUnits DEF WithTag
<1>2. IsFiniteSet(WithTag(t))
  BY <1>1, WorkshopAssumption, FS_Subset
<1> QED
  BY <1>2, FS_CardinalityType, FS_EmptySet

\* No unit is taken or added; entries without units may go.
LEMMA CountsStay ==
  ASSUME BaseInv, CountInv, doing \notin {"clear", "crashed"}, LiveUnits' = LiveUnits,
         \A u \in Units : unit'[u].tag = unit[u].tag,
         DOMAIN client_table' \subseteq DOMAIN client_table,
         \A t \in DOMAIN client_table' :
           /\ client_table'[t].num = client_table[t].num
           /\ client_table'[t].client \in {client_table[t].client, NoClient},
         \A t \in DOMAIN client_table \ DOMAIN client_table' : client_table[t].num = 0
  PROVE  CountInv'
<1>1. /\ \A t \in DOMAIN client_table : client_table[t].num = Cardinality(WithTag(t))
      /\ \A u \in LiveUnits : Ours(u)
      /\ LiveUnits \subseteq Units /\ NoClient \notin Clients
  BY QueuesAreUnits, WorkshopAssumption DEF CountInv, BaseInv
<1>2. ASSUME NEW t
      PROVE  {u \in LiveUnits' : unit'[u].tag = t} = WithTag(t)
  BY <1>1 DEF WithTag
<1>3. \A t \in DOMAIN client_table' : client_table'[t].num = Cardinality({u \in LiveUnits' : unit'[u].tag = t})
  BY <1>1, <1>2
<1>4. ASSUME NEW u \in LiveUnits'
      PROVE  /\ unit'[u].tag \in DOMAIN client_table'
             /\ \A c \in Clients : client_table'[unit'[u].tag].client = c => u \in UnitsOf[c]
  <2> DEFINE t == unit[u].tag
  <2>1. u \in LiveUnits /\ unit'[u].tag = t /\ t \in DOMAIN client_table /\ u \in WithTag(t)
    BY <1>1, <1>4 DEF Ours, WithTag
  <2>2. client_table[t].num # 0
    BY <1>1, <2>1, TaggedUnits DEF BaseInv
  <2>3. t \in DOMAIN client_table'
    BY <2>1, <2>2
  <2>4. client_table'[t].client \in {client_table[t].client, NoClient}
    BY <2>3
  <2> QED
    BY <1>1, <2>1, <2>3, <2>4 DEF Ours
<1> QED
  BY <1>3, <1>4 DEF CountInv, WithTag, Ours

\* Unit u is taken, and counted down.
LEMMA CountsDown ==
  ASSUME BaseInv, CountInv, doing \notin {"clear", "crashed"}, NEW u \in LiveUnits,
         LiveUnits' = LiveUnits \ {u},
         \A x \in Units : unit'[x].tag = unit[x].tag,
         DOMAIN client_table' = DOMAIN client_table,
         \A t \in DOMAIN client_table :
           /\ client_table'[t].client = client_table[t].client
           /\ client_table'[t].num = IF t = unit[u].tag THEN client_table[t].num - 1
                                     ELSE client_table[t].num
  PROVE  CountInv'
<1>1. /\ \A t \in DOMAIN client_table : client_table[t].num = Cardinality(WithTag(t))
      /\ \A x \in LiveUnits : Ours(x)
      /\ LiveUnits \subseteq Units
  BY QueuesAreUnits DEF CountInv, BaseInv
<1>2. ASSUME NEW t \in DOMAIN client_table
      PROVE  client_table'[t].num = Cardinality({x \in LiveUnits' : unit'[x].tag = t})
  <2>1. CASE t = unit[u].tag
    <3>1. {x \in LiveUnits' : unit'[x].tag = t} = WithTag(t) \ {u} /\ u \in WithTag(t)
      BY <1>1, <2>1 DEF WithTag
    <3>2. Cardinality(WithTag(t) \ {u}) = Cardinality(WithTag(t)) - 1
      BY <3>1, TaggedUnits, FS_RemoveElement DEF BaseInv
    <3> QED
      BY <1>1, <2>1, <3>1, <3>2
  <2>2. CASE t # unit[u].tag
    <3>1. {x \in LiveUnits' : unit'[x].tag = t} = WithTag(t)
      BY <1>1, <2>2 DEF WithTag
    <3> QED
      BY <1>1, <2>2, <3>1
  <2> QED
    BY <2>1, <2>2
<1>3. ASSUME NEW x \in LiveUnits'
      PROVE  /\ unit'[x].tag \in DOMAIN client_table'
             /\ \A c \in Clients : client_table'[unit'[x].tag].client = c => x \in UnitsOf[c]
  BY <1>1, <1>3 DEF Ours
<1> QED
  BY <1>2, <1>3 DEF CountInv, WithTag, Ours

\* Unit u of one of its own request's entries is added, and counted.
LEMMA CountsUp ==
  ASSUME BaseInv, CountInv, doing \notin {"clear", "crashed"}, NEW u \in Units, u \notin LiveUnits,
         Ours(u), LiveUnits' = LiveUnits \cup {u},
         \A x \in Units : unit'[x].tag = unit[x].tag,
         DOMAIN client_table' = DOMAIN client_table,
         \A t \in DOMAIN client_table :
           /\ client_table'[t].client = client_table[t].client
           /\ client_table'[t].num = IF t = unit[u].tag THEN client_table[t].num + 1
                                     ELSE client_table[t].num
  PROVE  CountInv'
<1>1. /\ \A t \in DOMAIN client_table : client_table[t].num = Cardinality(WithTag(t))
      /\ \A x \in LiveUnits : Ours(x)
      /\ LiveUnits \subseteq Units
  BY QueuesAreUnits DEF CountInv, BaseInv
<1>2. ASSUME NEW t \in DOMAIN client_table
      PROVE  client_table'[t].num = Cardinality({x \in LiveUnits' : unit'[x].tag = t})
  <2>1. CASE t = unit[u].tag
    <3>1. {x \in LiveUnits' : unit'[x].tag = t} = WithTag(t) \cup {u} /\ u \notin WithTag(t)
      BY <1>1, <2>1 DEF WithTag
    <3>2. Cardinality(WithTag(t) \cup {u}) = Cardinality(WithTag(t)) + 1
      BY <3>1, TaggedUnits, FS_AddElement DEF BaseInv
    <3> QED
      BY <1>1, <2>1, <3>1, <3>2
  <2>2. CASE t # unit[u].tag
    <3>1. {x \in LiveUnits' : unit'[x].tag = t} = WithTag(t)
      BY <1>1, <2>2 DEF WithTag
    <3> QED
      BY <1>1, <2>2, <3>1
  <2> QED
    BY <2>1, <2>2
<1>3. ASSUME NEW x \in LiveUnits'
      PROVE  /\ unit'[x].tag \in DOMAIN client_table'
             /\ \A c \in Clients : client_table'[unit'[x].tag].client = c => x \in UnitsOf[c]
  BY <1>1, <1>3 DEF Ours
<1> QED
  BY <1>2, <1>3 DEF CountInv, WithTag, Ours

\* A unit that is taken is counted, so that it is not skipped.
LEMMA LiveIsRegistered ==
  ASSUME BaseInv, CountInv, doing \notin {"clear", "crashed"}, NEW u \in LiveUnits
  PROVE  Registered(u) /\ Ours(u) /\ unit[u].tag \in DOMAIN client_table
<1>1. Ours(u) /\ unit[u].tag \in DOMAIN client_table /\ u \in WithTag(unit[u].tag)
  BY DEF CountInv, Ours, WithTag
<1>2. client_table[unit[u].tag].num = Cardinality(WithTag(unit[u].tag))
  BY <1>1 DEF CountInv
<1>3. client_table[unit[u].tag].num # 0
  BY <1>1, <1>2, TaggedUnits DEF BaseInv
<1> QED
  BY <1>1, <1>3 DEF Registered

LEMMA LiveGrows ==
  ASSUME BaseInv, item \in Units, StartsAgain
  PROVE  LiveUnits' = LiveUnits \cup {item}
<1>1. /\ raw_material' = Append(raw_material, item)
      /\ UNCHANGED <<products, holding, semi_material>>
  BY DEF StartsAgain
<1>2. Range(raw_material') = Range(raw_material) \cup {item}
  BY <1>1, AppendParts DEF BaseInv, TypeOK, ShopTypeOK
<1>3. item # NoUnit
  BY WorkshopAssumption
<1> QED
  BY <1>1, <1>2, <1>3 DEF LiveUnits

\* The entry of a new request has no units before.
LEMMA CountsExecute ==
  ASSUME BaseInv, CountInv, NEW c \in Clients, Execute(c)
  PROVE  CountInv'
<1>1. /\ LiveUnits' = LiveUnits \cup UnitsOf[c] /\ LiveUnits \cap UnitsOf[c] = {}
      /\ doing \notin {"clear", "crashed"}
      /\ LiveUnits \subseteq Units /\ UnitsOf[c] \subseteq Units
  BY ExecuteBase, QueuesAreUnits, ConveyAssumption DEF Execute, BaseInv, ControlInv
<1>2. PICK tag \in Nat : Attached(c, UnitsOf[c], media, tag)
  BY ExecuteBase
<1>3. /\ \A t \in DOMAIN client_table : client_table[t].num = Cardinality(WithTag(t))
      /\ \A u \in LiveUnits : Ours(u)
  BY <1>1 DEF CountInv
<1>4. \A u \in LiveUnits : unit[u].tag # tag
  <2> SUFFICES ASSUME NEW u \in LiveUnits, unit[u].tag = tag
               PROVE  FALSE
    OBVIOUS
  <2>1. tag \in DOMAIN client_table /\ u \in WithTag(tag)
    BY <1>3 DEF Ours, WithTag
  <2>2. client_table[tag].num = 0
    BY <1>2, <2>1 DEF Attached
  <2>3. Cardinality(WithTag(tag)) = 0
    BY <1>3, <2>1, <2>2
  <2> QED
    BY <2>1, <2>3, TaggedUnits DEF BaseInv
<1>5. ASSUME NEW t \in DOMAIN client_table'
      PROVE  client_table'[t].num = Cardinality({u \in LiveUnits' : unit'[u].tag = t})
  <2>1. CASE t = tag
    <3>1. {u \in LiveUnits' : unit'[u].tag = t} = UnitsOf[c]
      BY <1>1, <1>2, <1>4, <2>1 DEF Attached
    <3>2. client_table'[tag] = [client |-> c, num |-> Cardinality(UnitsOf[c])]
      BY <1>2 DEF Attached
    <3>3. client_table'[tag].num = Cardinality(UnitsOf[c])
      BY <3>2
    <3> QED
      BY <2>1, <3>1, <3>3
  <2>2. CASE t # tag
    <3>1. {u \in LiveUnits' : unit'[u].tag = t} = WithTag(t)
      BY <1>1, <1>2, <2>2 DEF Attached, WithTag
    <3>2. t \in DOMAIN client_table /\ client_table'[t] = client_table[t]
      BY <1>2, <2>2 DEF Attached
    <3> QED
      BY <1>3, <3>1, <3>2
  <2> QED
    BY <2>1, <2>2
<1>6. ASSUME NEW u \in LiveUnits'
      PROVE  /\ unit'[u].tag \in DOMAIN client_table'
             /\ \A d \in Clients : client_table'[unit'[u].tag].client = d => u \in UnitsOf[d]
  <2>1. CASE u \in UnitsOf[c]
    BY <1>2, <2>1 DEF Attached
  <2>2. CASE u \notin UnitsOf[c]
    <3>1. u \in LiveUnits /\ u \in Units \ UnitsOf[c]
      BY <1>1, <2>2
    <3>2. Ours(u) /\ unit[u].tag # tag /\ unit'[u] = unit[u]
      BY <1>2, <1>3, <1>4, <3>1 DEF Attached
    <3>3. client_table'[unit[u].tag] = client_table[unit[u].tag] /\ unit[u].tag \in DOMAIN client_table'
      BY <1>2, <3>2 DEF Attached, Ours
    <3> QED
      BY <3>2, <3>3 DEF Ours
  <2> QED
    BY <2>1, <2>2
<1> QED
  BY <1>5, <1>6 DEF CountInv, WithTag, Ours

\* Where every routine has answered clear() no unit is left.
LEMMA ClearedUnits ==
  ASSUME BaseInv, AnswerInv, ClearEnd
  PROVE  LiveUnits' = {} /\ semi_material = <<>> /\ raw_material = <<>>
         /\ \A w \in Workers : ~Cleaning(w) /\ holding[w] = NoUnit
<1>1. /\ doing = "clear" /\ arg = 0 /\ products' = <<>>
      /\ UNCHANGED <<raw_material, semi_material, holding>>
  BY DEF ClearEnd, routineVars
<1>2. raw_material = <<>> /\ semi_material = <<>>
  BY <1>1 DEF AnswerInv, BaseInv, ControlInv
<1> DEFINE C == {w \in Workers : Cleaning(w)}
           H == {w \in Workers : Handing(w)}
<1>3. Cardinality(C) \in Nat /\ Cardinality(H) \in Nat /\ IsFiniteSet(C) /\ IsFiniteSet(H)
      /\ Count(feedback, "WorkRoutineClean") \in Nat
  <2>1. IsFiniteSet(C) /\ IsFiniteSet(H)
    BY WorkshopAssumption, FS_Subset
  <2>2. feedback \in Seq({"ItemFinish", "WorkRoutineClean"})
    BY DEF BaseInv, TypeOK, ShopTypeOK
  <2>3. DOMAIN feedback = 1 .. Len(feedback) /\ Len(feedback) \in Nat
    BY <2>2, LenProperties
  <2>4. IsFiniteSet({i \in DOMAIN feedback : feedback[i] = "WorkRoutineClean"})
    <3>1. IsFiniteSet(1 .. Len(feedback))
      BY <2>3, FS_Interval
    <3>2. {i \in DOMAIN feedback : feedback[i] = "WorkRoutineClean"} \subseteq 1 .. Len(feedback)
      BY <2>3
    <3> QED
      BY <3>1, <3>2, FS_Subset
  <2> QED
    BY <2>1, <2>4, FS_CardinalityType DEF Count
<1>4. 0 = Cardinality(C) + Cardinality(H) + Count(feedback, "WorkRoutineClean")
  BY <1>1 DEF AnswerInv, AnswersDue
<1>5. Cardinality(C) = 0 /\ Cardinality(H) = 0
  BY <1>3, <1>4
<1>6. C = {} /\ H = {}
  BY <1>3, <1>5, FS_EmptySet
<1>7. ASSUME NEW w \in Workers
      PROVE  ~Cleaning(w) /\ holding[w] = NoUnit
  <2>1. ~Cleaning(w) /\ ~Handing(w)
    BY <1>6
  <2>2. worker[w] \notin {"convey", "product"}
    BY <1>1, <2>1 DEF AnswerInv, Answers, Handing
  <2> QED
    BY <2>1, <2>2 DEF BaseInv, ControlInv
<1>8. Range(holding') \ {NoUnit} = {}
  BY <1>1, <1>7 DEF BaseInv, TypeOK, ShopTypeOK, Range
<1> QED
  BY <1>1, <1>2, <1>7, <1>8, EmptyParts DEF LiveUnits

\* num_request of every entry counts the units with its tag that are under way, and
\* each unit under way has an entry, that of its own request unless it was canceled.
LEMMA CountStep ==
  ASSUME BaseInv, CountInv, RequestInv, AnswerInv, [Next]_vars
  PROVE  CountInv'
<1> USE DEF mainVars, requestVars, routineVars, shopVars
<1>1. CASE RoutineStep
  <2>1. RoutineEffect
    BY <1>1, RoutineBase DEF RoutineStep
  <2> QED
    BY <2>1, CountsStay DEF RoutineEffect, RoutineFrame, CountInv
<1>2. CASE Process \/ RequestDone \/ SemiEnd \/ CurrentMediaChanged \/ MediaInactive
           \/ \E c \in Clients : UnitOver(c) \/ (UnitAgain(c) /\ GivesUp(c))
  <2>1. UNCHANGED <<client_table, unit>> /\ doing \notin {"clear", "crashed"}
    BY <1>2 DEF Process, RequestDone, SemiEnd, CurrentMediaChanged, MediaInactive, Idle, UnitOver,
                GivesUp, BaseInv, ControlInv, UnitAgain
  <2>2. LiveUnits' = LiveUnits
    BY <1>2, ProcessBase, RequestDoneBase, SemiEndBase, CurrentMediaChangedBase, MediaInactiveBase,
       UnitOverBase, SamePlaces DEF GivesUp
  <2> QED
    BY <2>1, <2>2, CountsStay
<1>3. CASE ProcessNext
  <2>1. doing = "process" /\ unit' = unit
    BY <1>3 DEF ProcessNext
  <2>2. CASE products = <<>>
    BY <1>3, <2>1, <2>2, ProcessNextBase, CountsStay DEF ProcessNext
  <2>3. CASE products # <<>>
    <3> DEFINE u == Head(products)
    <3>1. u \in LiveUnits /\ LiveUnits' = LiveUnits \ {u} /\ Counted(u)
      BY <1>3, <2>3, ProcessNextBase
    <3> HIDE DEF u
    <3>2. Registered(u)
      BY <2>1, <3>1, LiveIsRegistered
    <3> QED
      BY <2>1, <3>1, <3>2, CountsDown DEF Counted
  <2> QED
    BY <2>2, <2>3
<1>4. CASE SemiNext
  <2> DEFINE u == Head(semi_material)
  <2>1. doing \in {"changed", "inactive"}
    BY <1>4 DEF SemiNext
  <2>2. CASE SemiState(u) = "Wait"
    BY <1>4, <2>1, <2>2, SemiNextBase, CountsStay
  <2>3. CASE SemiState(u) # "Wait"
    <3>1. /\ u \in LiveUnits /\ LiveUnits' = LiveUnits \ {u} /\ Counted(u)
          /\ \A x \in Units : unit'[x].tag = unit[x].tag
      BY <1>4, <2>3, SemiNextBase
    <3> HIDE DEF u
    <3>2. Registered(u)
      BY <2>1, <3>1, LiveIsRegistered
    <3> QED
      BY <2>1, <3>1, <3>2, CountsDown DEF Counted
  <2> QED
    BY <2>2, <2>3
<1>5. CASE CancelNext
  <2> DEFINE u == Head(semi_material)
  <2>1. doing = "cancel" /\ unit' = unit
    BY <1>5 DEF CancelNext
  <2>2. CASE unit[u].tag # arg
    BY <1>5, <2>1, <2>2, CancelNextBase, CountsStay
  <2>3. CASE unit[u].tag = arg
    <3>1. /\ u \in LiveUnits /\ LiveUnits' = LiveUnits \ {u}
          /\ DOMAIN client_table' = DOMAIN client_table
          /\ \A t \in DOMAIN client_table :
               /\ client_table'[t].client = client_table[t].client
               /\ client_table'[t].num = IF t = unit[u].tag THEN client_table[t].num - 1
                                         ELSE client_table[t].num
      BY <1>5, <2>3, CancelNextBase
    <3> HIDE DEF u
    <3> QED
      BY <2>1, <3>1, CountsDown
  <2> QED
    BY <2>2, <2>3
<1>6. CASE CancelEnd
  <2>1. unit' = unit /\ doing = "cancel"
    BY <1>6 DEF CancelEnd
  <2> QED
    BY <1>6, <2>1, CancelEndBase, CountsStay DEF Kept
<1>7. CASE ItemTidy
  <2>1. unit' = unit /\ doing \in {"process", "changed", "inactive"}
    BY <1>7 DEF ItemTidy, BaseInv, ControlInv
  <2>2. Tidied(unit[item].tag) /\ LiveUnits' = LiveUnits
    BY <1>7, ItemTidyBase
  <2>3. \A t \in DOMAIN client_table' : client_table'[t].client \in {client_table[t].client, NoClient}
    BY <2>2 DEF Tidied
  <2> QED
    BY <2>1, <2>2, <2>3, CountsStay DEF Tidied
<1>8. CASE \E c \in Clients : UnitAgain(c) /\ StartsAgain
  <2>1. /\ item \in Units /\ item \notin LiveUnits
        /\ doing \in {"process", "changed", "inactive"} /\ stage = "callback"
    BY <1>8 DEF BaseInv, ControlInv, FreshInv, UnitAgain
  <2>2. Ours(item)
    BY <2>1 DEF RequestInv
  <2>3. LiveUnits' = LiveUnits \cup {item}
    BY <1>8, <2>1, UnitAgainBase, LiveGrows
  <2> QED
    BY <1>8, <2>1, <2>2, <2>3, CountsUp DEF StartsAgain
<1>9. CASE \E c \in Clients : Execute(c)
  BY <1>9, CountsExecute
<1>10. CASE \E c \in Clients : Cancel(c)
  <2>1. PICK c \in Clients : Cancel(c)
    BY <1>10
  <2>2. PICK tag \in DOMAIN client_table :
          /\ DOMAIN client_table' = DOMAIN client_table
          /\ client_table'[tag] = [client |-> NoClient, num |-> client_table[tag].num]
          /\ \A t \in DOMAIN client_table \ {tag} : client_table'[t] = client_table[t]
    BY <2>1, CancelBase
  <2>3. unit' = unit /\ doing = "loop" /\ LiveUnits' = LiveUnits
    BY <2>1, CancelBase DEF Cancel, Idle
  <2>4. \A t \in DOMAIN client_table' :
           /\ client_table'[t].num = client_table[t].num
           /\ client_table'[t].client \in {client_table[t].client, NoClient}
    BY <2>2
  <2> QED
    BY <2>2, <2>3, <2>4, CountsStay
<1>11. CASE Clear \/ ClearAnswer
  BY <1>11 DEF Clear, ClearAnswer, Enter, CountInv
<1>12. CASE ClearEnd
  <2>1. CASE doing' = "crashed"
    BY <2>1 DEF CountInv
  <2>2. CASE doing' # "crashed"
    <3>1. client_table' = <<>>
      BY <1>12, <2>2 DEF ClearEnd, Enter
    <3>2. LiveUnits' = {}
      BY <1>12, ClearedUnits
    <3> QED
      BY <3>1, <3>2 DEF CountInv
  <2> QED
    BY <2>1, <2>2
<1>13. CASE UNCHANGED vars
  BY <1>13, StutterBase, CountsStay DEF vars, CountInv
<1> QED
  BY <1>1, <1>2, <1>3, <1>4, <1>5, <1>6, <1>7, <1>8, <1>9, <1>10, <1>11, <1>12, <1>13,
     UnitAgainDoes DEF Next, MainStep, EventStep

------------------------------------------------------------------------------
(* Each request waits for as many units as its entry counts.               *)

LEMMA RequestsStay ==
  ASSUME BaseInv, RequestInv, doing # "crashed", UNCHANGED <<client_table, item, stage, state_, item_num_>>,
         \A u \in Units : unit'[u].tag = unit[u].tag
  PROVE  RequestInv'
<1>1. stage # "next" => item \in Units /\ unit'[item].tag = unit[item].tag
  BY DEF BaseInv, ControlInv
<1>2. \A t \in DOMAIN client_table : client_table[t].client # NoClient =>
        \/ /\ state_'[client_table'[t].client] = "TS_EXECUTING"
           /\ item_num_'[client_table'[t].client] =
                client_table'[t].num + (IF stage' = "callback" /\ unit'[item'].tag = t THEN 1 ELSE 0)
        \/ /\ stage' \in {"finished", "tidy"}
           /\ unit'[item'].tag = t
           /\ client_table'[t].num = 0
           /\ state_'[client_table'[t].client] = "TS_FINISHED"
  BY <1>1 DEF RequestInv, Awaits, Answered
<1> QED
  BY <1>1, <1>2 DEF RequestInv, Awaits, Answered, Ours

\* A unit that was in a queue is taken, and its request, if it has one, is told.
LEMMA RequestsCounted ==
  ASSUME BaseInv, CountInv, RequestInv, doing \notin {"clear", "crashed"}, stage = "next",
         NEW u \in LiveUnits, Counted(u), UNCHANGED <<state_, item_num_>>,
         \A x \in Units : unit'[x].tag = unit[x].tag
  PROVE  RequestInv'
<1> DEFINE k == unit[u].tag
<1>1. /\ Registered(u) /\ Ours(u) /\ k \in DOMAIN client_table /\ u \in Units /\ unit'[u].tag = k
  BY LiveIsRegistered, QueuesAreUnits DEF BaseInv
<1>2. /\ item' = u /\ stage' = IF client_table[k].client # NoClient THEN "callback" ELSE "tidy"
      /\ DOMAIN client_table' = DOMAIN client_table
      /\ \A t \in DOMAIN client_table :
           /\ client_table'[t].client = client_table[t].client
           /\ client_table'[t].num = IF t = k THEN client_table[t].num - 1 ELSE client_table[t].num
           /\ client_table[t].num \in Int
  BY <1>1, TableType DEF Counted, BaseInv
<1>3. \A t \in DOMAIN client_table : client_table[t].client # NoClient =>
        /\ state_[client_table[t].client] = "TS_EXECUTING"
        /\ item_num_[client_table[t].client] = client_table[t].num
  <2> SUFFICES ASSUME NEW t \in DOMAIN client_table, client_table[t].client # NoClient
               PROVE  /\ state_[client_table[t].client] = "TS_EXECUTING"
                      /\ item_num_[client_table[t].client] = client_table[t].num
    OBVIOUS
  <2>1. Awaits(t)
    BY DEF RequestInv, Answered
  <2>2. item_num_[client_table[t].client] = client_table[t].num + 0
    BY <2>1 DEF Awaits
  <2> QED
    BY <1>2, <2>1, <2>2 DEF Awaits
<1> HIDE DEF k
<1>4. \A t \in DOMAIN client_table' : client_table'[t].client # NoClient =>
        /\ state_'[client_table'[t].client] = "TS_EXECUTING"
        /\ item_num_'[client_table'[t].client] =
             client_table'[t].num + (IF stage' = "callback" /\ unit'[item'].tag = t THEN 1 ELSE 0)
  <2> SUFFICES ASSUME NEW t \in DOMAIN client_table, client_table[t].client # NoClient
               PROVE  /\ state_'[client_table'[t].client] = "TS_EXECUTING"
                      /\ item_num_'[client_table'[t].client] =
                           client_table'[t].num + (IF stage' = "callback" /\ unit'[item'].tag = t THEN 1 ELSE 0)
    BY <1>2
  <2>1. CASE t = k
    BY <1>1, <1>2, <1>3, <2>1
  <2>2. CASE t # k
    BY <1>1, <1>2, <1>3, <2>2
  <2> QED
    BY <2>1, <2>2
<1>5. stage' = "callback" =>
        /\ unit'[item'].tag \in DOMAIN client_table'
        /\ \A c \in Clients : client_table'[unit'[item'].tag].client = c => item' \in UnitsOf[c]
        /\ client_table'[unit'[item'].tag].client # NoClient
  BY <1>1, <1>2 DEF Ours, k
<1>6. /\ \A s, t \in DOMAIN client_table' :
           client_table'[s].client = client_table'[t].client => s = t \/ client_table'[s].client = NoClient
      /\ \A c \in Clients : state_'[c] = "TS_EXECUTING" =>
           item_num_'[c] > 0 /\ \E t \in DOMAIN client_table' : client_table'[t].client = c
  BY <1>2 DEF RequestInv
<1> QED
  BY <1>4, <1>5, <1>6 DEF RequestInv, Awaits, Ours

\* The request that is told counts down too, and ends with its last unit.
LEMMA RequestsEnd ==
  ASSUME BaseInv, RequestInv, stage = "callback", NEW c \in Clients, NEW failing \in BOOLEAN,
         c = client_table[unit[item].tag].client, Ends(c, failing),
         UNCHANGED <<client_table, unit, item>>
  PROVE  RequestInv'
<1> DEFINE k == unit[item].tag
<1>1. /\ doing # "crashed" /\ k \in DOMAIN client_table /\ item_num_ \in [Clients -> Nat]
      /\ NoClient \notin Clients
      /\ \A t \in DOMAIN client_table :
           client_table[t].num \in Int /\ client_table[t].client \in Clients \cup {NoClient}
  BY TableType, WorkshopAssumption DEF BaseInv, ControlInv, TypeOK
<1>2. /\ state_[c] = "TS_EXECUTING" /\ item_num_[c] = client_table[k].num + 1
  BY <1>1 DEF RequestInv, Awaits, Answered
<1>3. /\ \A d \in Clients : item_num_'[d] = IF d = c THEN item_num_[d] - 1 ELSE item_num_[d]
      /\ \A d \in Clients : state_'[d] = IF d = c /\ item_num_[c] = 1 THEN "TS_FINISHED" ELSE state_[d]
      /\ stage' = IF item_num_[c] = 1 THEN "finished" ELSE "tidy"
  BY DEF Ends
<1>4. ASSUME NEW t \in DOMAIN client_table, client_table[t].client # NoClient
      PROVE  Awaits(t)' \/ Answered(t)'
  <2>1. CASE t = k
    <3>1. CASE item_num_[c] = 1
      <4>0. client_table[k].num = 0
        BY <1>1, <1>2, <3>1
      <4>1. /\ stage' = "finished" /\ unit'[item'].tag = t /\ client_table'[t].num = 0
            /\ state_'[client_table'[t].client] = "TS_FINISHED"
        BY <1>3, <2>1, <3>1, <4>0
      <4> QED
        BY <4>1 DEF Answered
    <3>2. CASE item_num_[c] # 1
      <4>1. /\ stage' = "tidy" /\ item_num_'[client_table'[t].client] = client_table'[t].num + 0
            /\ state_'[client_table'[t].client] = "TS_EXECUTING"
        BY <1>1, <1>2, <1>3, <2>1, <3>2
      <4> QED
        BY <4>1 DEF Awaits
    <3> QED
      BY <3>1, <3>2
  <2>2. CASE t # k
    <3> DEFINE d == client_table[t].client
    <3>1. d \in Clients /\ d # c
      BY <1>1, <1>4, <2>2 DEF RequestInv
    <3>2. state_[d] = "TS_EXECUTING" /\ item_num_[d] = client_table[t].num + 0
      BY <1>1, <1>4, <2>2 DEF RequestInv, Awaits, Answered
    <3>3. /\ state_'[client_table'[t].client] = "TS_EXECUTING"
          /\ item_num_'[client_table'[t].client] = client_table'[t].num + 0
          /\ stage' # "callback"
      BY <1>3, <3>1, <3>2
    <3> QED
      BY <3>3 DEF Awaits
  <2> QED
    BY <2>1, <2>2
<1>5. \A d \in Clients : state_'[d] = "TS_EXECUTING" =>
        item_num_'[d] > 0 /\ \E t \in DOMAIN client_table' : client_table'[t].client = d
  <2> SUFFICES ASSUME NEW d \in Clients, state_'[d] = "TS_EXECUTING"
               PROVE  item_num_'[d] > 0 /\ \E t \in DOMAIN client_table' : client_table'[t].client = d
    OBVIOUS
  <2>1. state_[d] = "TS_EXECUTING" /\ (d = c => item_num_[c] # 1)
    BY <1>2, <1>3
  <2>2. item_num_[d] > 0 /\ \E t \in DOMAIN client_table : client_table[t].client = d
    BY <1>1, <2>1 DEF RequestInv
  <2> QED
    BY <1>1, <1>3, <2>1, <2>2
<1>6. \A s, t \in DOMAIN client_table' :
        client_table'[s].client = client_table'[t].client => s = t \/ client_table'[s].client = NoClient
  BY <1>1 DEF RequestInv
<1>7. stage' # "callback"
  BY <1>3
<1>8. \A t \in DOMAIN client_table' : client_table'[t].client # NoClient => (Awaits(t) \/ Answered(t))'
  BY <1>4
<1> QED
  BY <1>5, <1>6, <1>7, <1>8 DEF RequestInv, Ours, Awaits, Answered

\* ... or not, when the unit starts again.
LEMMA RequestsAgain ==
  ASSUME BaseInv, RequestInv, stage = "callback", StartsAgain
  PROVE  RequestInv'
<1> DEFINE k == unit[item].tag
<1>1. /\ doing # "crashed" /\ k \in DOMAIN client_table /\ item \in Units
      /\ \A t \in DOMAIN client_table : client_table[t].num \in Int
  BY TableType DEF BaseInv, ControlInv
<1>2. /\ DOMAIN client_table' = DOMAIN client_table
      /\ \A t \in DOMAIN client_table :
           /\ client_table'[t].client = client_table[t].client
           /\ client_table'[t].num = IF t = k THEN client_table[t].num + 1 ELSE client_table[t].num
      /\ unit'[item].tag = k /\ stage' = "tidy"
      /\ UNCHANGED <<item, doing, state_, item_num_>>
  BY <1>1 DEF StartsAgain, requestVars
<1>3. ASSUME NEW t \in DOMAIN client_table', client_table'[t].client # NoClient
      PROVE  /\ state_'[client_table'[t].client] = "TS_EXECUTING"
             /\ item_num_'[client_table'[t].client] = client_table'[t].num + 0
  <2>1. /\ state_[client_table[t].client] = "TS_EXECUTING"
        /\ item_num_[client_table[t].client] = client_table[t].num + (IF k = t THEN 1 ELSE 0)
    BY <1>1, <1>2, <1>3 DEF RequestInv, Awaits, Answered
  <2> QED
    BY <1>1, <1>2, <1>3, <2>1
<1>4. /\ \A s, t \in DOMAIN client_table' :
           client_table'[s].client = client_table'[t].client => s = t \/ client_table'[s].client = NoClient
      /\ \A c \in Clients : state_'[c] = "TS_EXECUTING" =>
           item_num_'[c] > 0 /\ \E t \in DOMAIN client_table' : client_table'[t].client = c
  BY <1>1, <1>2 DEF RequestInv
<1> QED
  BY <1>2, <1>3, <1>4 DEF RequestInv, Awaits, Answered

\* A new request gets an entry of its own.
LEMMA RequestsExecute ==
  ASSUME BaseInv, RequestInv, NEW c \in Clients, Execute(c)
  PROVE  RequestInv'
<1>1. /\ state_[c] = "TS_NOT_BEGIN" /\ doing # "crashed" /\ stage # "callback"
      /\ (doing = "loop" \/ stage = "finished")
      /\ \A d \in Clients : state_'[d] = IF d = c THEN "TS_EXECUTING" ELSE state_[d]
      /\ \A d \in Clients : item_num_'[d] = IF d = c THEN Cardinality(UnitsOf[c]) ELSE item_num_[d]
      /\ UNCHANGED <<item, stage, doing>>
  BY DEF Execute, mainVars, BaseInv, ControlInv, TypeOK
<1>2. PICK tag \in Nat : Attached(c, UnitsOf[c], media, tag)
  BY ExecuteBase
<1>3. /\ DOMAIN client_table' = DOMAIN client_table \cup {tag}
      /\ \A t \in DOMAIN client_table \ {tag} : client_table'[t] = client_table[t]
      /\ client_table'[tag] = [client |-> c, num |-> Cardinality(UnitsOf[c])]
      /\ tag \in DOMAIN client_table => client_table[tag].num = 0
      /\ \A u \in Units \ UnitsOf[c] : unit'[u] = unit[u]
  BY <1>2 DEF Attached
<1>4. client_table'[tag].client = c /\ client_table'[tag].num = Cardinality(UnitsOf[c])
  BY <1>3
<1>5. Cardinality(UnitsOf[c]) \in Nat /\ Cardinality(UnitsOf[c]) > 0
  <2>1. IsFiniteSet(UnitsOf[c]) /\ UnitsOf[c] # {}
    BY ConveyAssumption, WorkshopAssumption, FS_Subset
  <2>2. Cardinality(UnitsOf[c]) \in Nat /\ Cardinality(UnitsOf[c]) # 0
    BY <2>1, FS_CardinalityType, FS_EmptySet
  <2> QED
    BY <2>2
<1>6. stage # "next" => unit'[item'].tag = unit[item].tag
  BY <1>1, <1>3 DEF BaseInv, FreshInv, ControlInv
<1>7. \A t \in DOMAIN client_table : /\ client_table[t].num \in Int
                                     /\ client_table[t].client \in Clients \cup {NoClient}
                                     /\ client_table[t].client # c
  <2>1. \A t \in DOMAIN client_table : client_table[t].client # c
    BY <1>1, WorkshopAssumption DEF RequestInv, Awaits, Answered
  <2> QED
    BY <2>1, TableType DEF BaseInv
<1>8. ASSUME NEW t \in DOMAIN client_table', client_table'[t].client # NoClient
      PROVE  (Awaits(t) \/ Answered(t))'
  <2>1. CASE t = tag
    <3>1. /\ state_'[client_table'[t].client] = "TS_EXECUTING"
          /\ item_num_'[client_table'[t].client] = client_table'[t].num + 0
          /\ stage' # "callback"
      BY <1>1, <1>4, <1>5, <2>1
    <3> QED
      BY <3>1 DEF Awaits
  <2>2. CASE t # tag
    <3>1. t \in DOMAIN client_table /\ client_table'[t] = client_table[t]
      BY <1>3, <2>2
    <3> DEFINE d == client_table[t].client
    <3>2. d \in Clients /\ d # c /\ state_'[d] = state_[d] /\ item_num_'[d] = item_num_[d]
      BY <1>1, <1>7, <1>8, <3>1
    <3>3. CASE Awaits(t)
      <4>1. state_[d] = "TS_EXECUTING" /\ item_num_[d] = client_table[t].num + 0
        BY <1>1, <3>3 DEF Awaits
      <4>2. /\ state_'[client_table'[t].client] = "TS_EXECUTING"
            /\ item_num_'[client_table'[t].client] = client_table'[t].num + 0
            /\ stage' # "callback"
        BY <1>1, <3>1, <3>2, <4>1
      <4> QED
        BY <4>2 DEF Awaits
    <3>4. CASE Answered(t)
      BY <1>1, <1>6, <3>1, <3>2, <3>4 DEF Answered
    <3> QED
      BY <1>1, <1>8, <3>1, <3>3, <3>4 DEF RequestInv
  <2> QED
    BY <2>1, <2>2
<1>9. \A s, t \in DOMAIN client_table' :
        client_table'[s].client = client_table'[t].client => s = t \/ client_table'[s].client = NoClient
  <2> SUFFICES ASSUME NEW s \in DOMAIN client_table', NEW t \in DOMAIN client_table',
                      client_table'[s].client = client_table'[t].client, s # t
               PROVE  client_table'[s].client = NoClient
    OBVIOUS
  <2>1. CASE s # tag /\ t # tag
    BY <1>1, <1>3, <2>1 DEF RequestInv
  <2>2. CASE s = tag \/ t = tag
    BY <1>3, <1>4, <1>7, <2>2
  <2> QED
    BY <2>1, <2>2
<1>10. ASSUME NEW d \in Clients, state_'[d] = "TS_EXECUTING"
       PROVE  item_num_'[d] > 0 /\ \E t \in DOMAIN client_table' : client_table'[t].client = d
  <2>1. CASE d = c
    BY <1>1, <1>3, <1>4, <1>5, <2>1
  <2>2. CASE d # c
    <3>1. state_[d] = "TS_EXECUTING" /\ item_num_'[d] = item_num_[d]
      BY <1>1, <1>10, <2>2
    <3>2. item_num_[d] > 0 /\ \E t \in DOMAIN client_table : client_table[t].client = d
      BY <1>1, <3>1 DEF RequestInv
    <3>3. PICK t \in DOMAIN client_table : client_table[t].client = d
      BY <3>2
    <3>4. Awaits(t)
      BY <1>1, <3>1, <3>3, WorkshopAssumption DEF RequestInv, Answered
    <3>5. item_num_[d] = client_table[t].num + 0
      BY <1>1, <3>3, <3>4 DEF Awaits
    <3>6. client_table[t].num # 0
      BY <1>7, <3>2, <3>3, <3>5
    <3>7. t # tag
      BY <1>3, <3>3, <3>6
    <3>8. t \in DOMAIN client_table' /\ client_table'[t].client = d
      BY <1>3, <3>3, <3>7
    <3> QED
      BY <3>1, <3>2, <3>8
  <2> QED
    BY <2>1, <2>2
<1> QED
  BY <1>1, <1>8, <1>9, <1>10 DEF RequestInv, Awaits, Answered, Ours

\* Entries whose units are all done lose their client, and may go.
LEMMA RequestsTidied ==
  ASSUME BaseInv, RequestInv, doing # "crashed", NEW tag, Tidied(tag),
         stage # "callback", stage # "next" => unit[item].tag = tag,
         stage' = "next", UNCHANGED <<state_, item_num_>>
  PROVE  RequestInv'
<1>1. \A t \in DOMAIN client_table : /\ client_table[t].num \in Int
                                     /\ client_table[t].client \in Clients \cup {NoClient}
  BY TableType DEF BaseInv
<1>2. /\ DOMAIN client_table' \subseteq DOMAIN client_table
      /\ \A t \in DOMAIN client_table' :
           /\ client_table'[t].num = client_table[t].num
           /\ client_table'[t].client = IF t = tag /\ client_table[t].num = 0 THEN NoClient
                                        ELSE client_table[t].client
      /\ \A t \in DOMAIN client_table \ DOMAIN client_table' : client_table[t].num = 0
  BY DEF Tidied
<1>3. ASSUME NEW t \in DOMAIN client_table', client_table'[t].client # NoClient
      PROVE  Awaits(t)'
  <2>1. t \in DOMAIN client_table /\ client_table'[t].client = client_table[t].client
    BY <1>2, <1>3
  <2>2. ~Answered(t)
    BY <1>2, <1>3, <2>1 DEF Answered
  <2>3. Awaits(t)
    BY <1>3, <2>1, <2>2 DEF RequestInv
  <2>4. /\ state_'[client_table'[t].client] = "TS_EXECUTING"
        /\ item_num_'[client_table'[t].client] = client_table'[t].num + 0
    BY <1>2, <2>1, <2>3 DEF Awaits
  <2> QED
    BY <2>4 DEF Awaits
<1>4. \A s, t \in DOMAIN client_table' :
        client_table'[s].client = client_table'[t].client => s = t \/ client_table'[s].client = NoClient
  BY <1>2 DEF RequestInv
<1>5. ASSUME NEW d \in Clients, state_'[d] = "TS_EXECUTING"
      PROVE  item_num_'[d] > 0 /\ \E t \in DOMAIN client_table' : client_table'[t].client = d
  <2>1. state_[d] = "TS_EXECUTING" /\ d # NoClient
    BY <1>5, WorkshopAssumption
  <2>2. item_num_[d] > 0 /\ \E t \in DOMAIN client_table : client_table[t].client = d
    BY <2>1 DEF RequestInv
  <2>3. PICK t \in DOMAIN client_table : client_table[t].client = d
    BY <2>2
  <2>4. Awaits(t)
    BY <2>1, <2>3 DEF RequestInv, Answered
  <2>5. item_num_[d] = client_table[t].num + 0
    BY <2>3, <2>4 DEF Awaits
  <2>6. client_table[t].num # 0
    BY <1>1, <2>2, <2>3, <2>5
  <2>7. t \in DOMAIN client_table' /\ client_table'[t].client = d
    BY <1>2, <2>3, <2>6
  <2> QED
    BY <2>2, <2>7
<1>6. \A t \in DOMAIN client_table' : client_table'[t].client # NoClient => (Awaits(t) \/ Answered(t))'
  BY <1>3
<1> QED
  BY <1>4, <1>5, <1>6 DEF RequestInv, Awaits, Answered

\* The entry of request c has no client any more, and c does not execute.
LEMMA RequestsCancel ==
  ASSUME BaseInv, RequestInv, NEW c \in Clients, Cancel(c)
  PROVE  RequestInv'
<1>1. /\ doing = "loop" /\ stage = "next"
      /\ \A d \in Clients : state_'[d] = IF d = c THEN "TS_CANCELED" ELSE state_[d]
      /\ \A d \in Clients : item_num_'[d] = IF d = c THEN 0 ELSE item_num_[d]
      /\ UNCHANGED <<item, stage>>
  BY DEF Cancel, Idle, BaseInv, TypeOK
<1>2. PICK tag \in DOMAIN client_table :
        /\ client_table[tag].client = c
        /\ DOMAIN client_table' = DOMAIN client_table
        /\ client_table'[tag] = [client |-> NoClient, num |-> client_table[tag].num]
        /\ \A t \in DOMAIN client_table \ {tag} : client_table'[t] = client_table[t]
  BY CancelBase
<1>3. client_table'[tag].client = NoClient
  BY <1>2
<1>4. \A t \in DOMAIN client_table \ {tag} : client_table[t].client # c
  BY <1>1, <1>2, WorkshopAssumption DEF RequestInv
<1>5. ASSUME NEW t \in DOMAIN client_table', client_table'[t].client # NoClient
      PROVE  Awaits(t)'
  <2>1. t # tag /\ t \in DOMAIN client_table /\ client_table'[t] = client_table[t]
        /\ client_table[t].client \in Clients /\ client_table[t].client # c
    BY <1>2, <1>3, <1>4, <1>5, TableType DEF BaseInv
  <2>2. Awaits(t)
    BY <1>1, <1>5, <2>1 DEF RequestInv, Answered
  <2>3. /\ state_'[client_table'[t].client] = "TS_EXECUTING"
        /\ item_num_'[client_table'[t].client] = client_table'[t].num + 0
    BY <1>1, <2>1, <2>2 DEF Awaits
  <2> QED
    BY <1>1, <2>3 DEF Awaits
<1>6. \A s, t \in DOMAIN client_table' :
        client_table'[s].client = client_table'[t].client => s = t \/ client_table'[s].client = NoClient
  BY <1>1, <1>2, <1>3 DEF RequestInv
<1>7. ASSUME NEW d \in Clients, state_'[d] = "TS_EXECUTING"
      PROVE  item_num_'[d] > 0 /\ \E t \in DOMAIN client_table' : client_table'[t].client = d
  <2>1. state_[d] = "TS_EXECUTING" /\ d # c /\ item_num_'[d] = item_num_[d]
    BY <1>1, <1>7
  <2>2. item_num_[d] > 0 /\ \E t \in DOMAIN client_table : client_table[t].client = d
    BY <1>1, <2>1 DEF RequestInv
  <2> QED
    BY <1>2, <2>1, <2>2
<1>8. \A t \in DOMAIN client_table' : client_table'[t].client # NoClient => (Awaits(t) \/ Answered(t))'
  BY <1>5
<1> QED
  BY <1>1, <1>6, <1>7, <1>8 DEF RequestInv, Awaits, Answered

\* A canceled request waits for nothing: its units are counted down without it.
LEMMA RequestsCancelNext ==
  ASSUME BaseInv, RequestInv, CancelNext
  PROVE  RequestInv'
<1>1. /\ doing = "cancel" /\ stage = "next" /\ client_table[arg].client = NoClient
      /\ UNCHANGED <<unit, item, stage, state_, item_num_>>
  BY DEF CancelNext, BaseInv, ControlInv, requestVars
<1>2. CASE client_table' = client_table
  BY <1>1, <1>2, RequestsStay
<1>3. CASE client_table' # client_table
  <2>1. /\ DOMAIN client_table' = DOMAIN client_table
        /\ \A t \in DOMAIN client_table :
             /\ client_table'[t].client = client_table[t].client
             /\ client_table'[t].num = IF t = arg THEN client_table[t].num - 1
                                       ELSE client_table[t].num
    BY <1>3, CancelNextBase
  <2>2. ASSUME NEW t \in DOMAIN client_table', client_table'[t].client # NoClient
        PROVE  Awaits(t)'
    <3>1. t # arg /\ t \in DOMAIN client_table
      BY <1>1, <2>1, <2>2
    <3>2. Awaits(t)
      BY <1>1, <2>1, <2>2, <3>1 DEF RequestInv, Answered
    <3> QED
      BY <1>1, <2>1, <3>1, <3>2 DEF Awaits
  <2>3. \A t \in DOMAIN client_table' : client_table'[t].client # NoClient => (Awaits(t) \/ Answered(t))'
    BY <2>2
  <2>4. /\ \A s, t \in DOMAIN client_table' :
             client_table'[s].client = client_table'[t].client => s = t \/ client_table'[s].client = NoClient
        /\ \A c \in Clients : state_'[c] = "TS_EXECUTING" =>
             item_num_'[c] > 0 /\ \E t \in DOMAIN client_table' : client_table'[t].client = c
    BY <1>1, <2>1 DEF RequestInv
  <2> QED
    BY <1>1, <2>3, <2>4 DEF RequestInv, Awaits, Answered
<1> QED
  BY <1>2, <1>3

\* Every request in the table ends with clear().
LEMMA RequestsCleared ==
  ASSUME BaseInv, RequestInv, ClearEnd
  PROVE  RequestInv'
<1> DEFINE called == {client_table[i].client : i \in DOMAIN client_table}
<1>1. CASE NoClient \in called
  BY <1>1 DEF ClearEnd, Enter, RequestInv
<1>2. CASE NoClient \notin called
  <2>1. /\ client_table' = <<>> /\ doing = "clear" /\ stage' = stage
        /\ state_' = [c \in Clients |-> IF c \in called THEN "TS_FINISHED" ELSE state_[c]]
    BY <1>2 DEF ClearEnd
  <2>2. stage = "next"
    BY <2>1 DEF BaseInv, ControlInv
  <2>3. ASSUME NEW c \in Clients, state_'[c] = "TS_EXECUTING"
        PROVE  FALSE
    <3>1. c \notin called /\ state_[c] = "TS_EXECUTING"
      BY <2>1, <2>3
    <3>2. \E t \in DOMAIN client_table : client_table[t].client = c
      BY <2>1, <3>1 DEF RequestInv
    <3> QED
      BY <3>1, <3>2
  <2>4. DOMAIN client_table' = {}
    BY <2>1
  <2> QED
    BY <2>1, <2>2, <2>3, <2>4 DEF RequestInv
<1> QED
  BY <1>1, <1>2

LEMMA RequestStep ==
  ASSUME BaseInv, CountInv, RequestInv, [Next]_vars
  PROVE  RequestInv'
<1> USE DEF mainVars, requestVars, routineVars, shopVars
<1>1. CASE RoutineStep
  <2>1. RoutineEffect
    BY <1>1, RoutineBase DEF RoutineStep
  <2>2. UNCHANGED <<client_table, item, stage, state_, item_num_, doing>>
    BY <2>1 DEF RoutineEffect, RoutineFrame
  <2>3. CASE doing # "crashed"
    BY <2>1, <2>2, <2>3, RequestsStay DEF RoutineEffect
  <2>4. CASE doing = "crashed"
    BY <2>2, <2>4 DEF RequestInv
  <2> QED
    BY <2>3, <2>4
<1>2. CASE Process \/ SemiEnd \/ CurrentMediaChanged \/ MediaInactive \/ Clear \/ ClearAnswer
  <2>1. UNCHANGED <<client_table, item, stage, state_, item_num_, unit>> /\ doing # "crashed"
    BY <1>2 DEF Process, SemiEnd, CurrentMediaChanged, MediaInactive, Clear, ClearAnswer, Idle
  <2> QED
    BY <2>1, RequestsStay
<1>3. CASE ProcessNext
  <2>1. doing = "process" /\ stage = "next" /\ unit' = unit /\ UNCHANGED <<state_, item_num_>>
    BY <1>3 DEF ProcessNext
  <2>2. CASE products = <<>>
    BY <1>3, <2>1, <2>2, RequestsStay DEF ProcessNext
  <2>3. CASE products # <<>>
    BY <1>3, <2>1, <2>3, ProcessNextBase, RequestsCounted
  <2> QED
    BY <2>2, <2>3
<1>4. CASE SemiNext
  <2>1. doing \in {"changed", "inactive"} /\ stage = "next" /\ UNCHANGED <<state_, item_num_>>
    BY <1>4 DEF SemiNext
  <2>2. CASE SemiState(Head(semi_material)) = "Wait"
    BY <1>4, <2>1, <2>2, SemiNextBase, RequestsStay
  <2>3. CASE SemiState(Head(semi_material)) # "Wait"
    BY <1>4, <2>1, <2>3, SemiNextBase, RequestsCounted
  <2> QED
    BY <2>2, <2>3
<1>5. CASE CancelNext
  BY <1>5, RequestsCancelNext
<1>6. CASE CancelEnd
  <2>1. Kept(client_table) /\ doing = "cancel" /\ stage = "next" /\ stage' = "next"
        /\ UNCHANGED <<state_, item_num_>>
    BY <1>6, CancelEndBase DEF CancelEnd, BaseInv, ControlInv
  <2>2. Tidied(0)
    <3>1. 0 \notin DOMAIN client_table
      BY TableType, LenProperties DEF BaseInv
    <3> QED
      BY <2>1, <3>1 DEF Kept, Tidied
  <2> QED
    BY <2>1, <2>2, RequestsTidied
<1>7. CASE ItemTidy
  <2>1. /\ stage = "tidy" /\ stage' = "next" /\ UNCHANGED <<state_, item_num_>>
        /\ doing # "crashed"
    BY <1>7 DEF ItemTidy, BaseInv, ControlInv
  <2> QED
    BY <1>7, <2>1, ItemTidyBase, RequestsTidied
<1>8. CASE RequestDone
  <2>1. /\ stage = "finished" /\ stage' = "tidy" /\ UNCHANGED <<client_table, unit, item, state_, item_num_>>
        /\ doing' = doing
    BY <1>8 DEF RequestDone
  <2> QED
    BY <2>1 DEF RequestInv, Awaits, Answered
<1>9. CASE \E c \in Clients : UnitOver(c)
  <2>1. PICK c \in Clients : UnitOver(c)
    BY <1>9
  <2>2. /\ stage = "callback" /\ c = client_table[unit[item].tag].client
        /\ UNCHANGED <<client_table, unit, item>>
    BY <2>1 DEF UnitOver
  <2> DEFINE failing == unit[item].state \in FailedStates
  <2>3. Ends(c, failing)
    BY <2>1, UnitOverBase
  <2>4. failing \in BOOLEAN
    OBVIOUS
  <2> HIDE DEF failing
  <2> QED
    BY <2>2, <2>3, <2>4, RequestsEnd
<1>10. CASE \E c \in Clients : UnitAgain(c)
  <2>1. PICK c \in Clients : UnitAgain(c)
    BY <1>10
  <2>2. stage = "callback" /\ c = client_table[unit[item].tag].client
    BY <2>1 DEF UnitAgain
  <2>3. CASE StartsAgain
    BY <2>2, <2>3, RequestsAgain
  <2>4. CASE GivesUp(c)
    BY <2>2, <2>4, RequestsEnd DEF GivesUp
  <2> QED
    BY <2>1, <2>3, <2>4, UnitAgainDoes
<1>11. CASE \E c \in Clients : Execute(c) \/ Cancel(c)
  BY <1>11, RequestsExecute, RequestsCancel
<1>12. CASE ClearEnd
  BY <1>12, RequestsCleared
<1>13. CASE UNCHANGED vars
  BY <1>13 DEF vars, RequestInv, Awaits, Answered, Ours
<1> QED
  BY <1>1, <1>2, <1>3, <1>4, <1>5, <1>6, <1>7, <1>8, <1>9, <1>10, <1>11, <1>12, <1>13
     DEF Next, MainStep, EventStep

------------------------------------------------------------------------------
(* The answers to clear().                                                 *)

LEMMA CountAppend ==
  ASSUME NEW S, NEW q \in Seq(S), NEW x \in S, NEW y
  PROVE  /\ Count(q, y) \in Nat
         /\ Count(Append(q, x), y) = IF x = y THEN Count(q, y) + 1 ELSE Count(q, y)
<1> DEFINE n == Len(q)
           r == Append(q, x)
           At == {i \in DOMAIN q : q[i] = y}
<1>1. /\ n \in Nat /\ DOMAIN q = 1 .. n
      /\ DOMAIN r = 1 .. n + 1
      /\ \A i \in 1 .. n : r[i] = q[i]
      /\ r[n + 1] = x
  BY AppendProperties, LenProperties
<1> HIDE DEF n, r
<1>2. 1 .. n + 1 = (1 .. n) \cup {n + 1} /\ n + 1 \notin 1 .. n
  BY <1>1
<1>3. IsFiniteSet(At) /\ Cardinality(At) \in Nat /\ n + 1 \notin At
  <2>1. IsFiniteSet(1 .. n) /\ At \subseteq 1 .. n
    BY <1>1, FS_Interval
  <2> QED
    BY <1>2, <2>1, FS_Subset, FS_CardinalityType
<1>4. {i \in DOMAIN r : r[i] = y} = IF x = y THEN At \cup {n + 1} ELSE At
  BY <1>1, <1>2
<1>5. Cardinality(At \cup {n + 1}) = Cardinality(At) + 1
  BY <1>3, FS_AddElement
<1> QED
  BY <1>3, <1>4, <1>5 DEF Count, r

LEMMA CountTail ==
  ASSUME NEW S, NEW q \in Seq(S), q # <<>>, NEW y
  PROVE  Count(q, y) = IF Head(q) = y THEN Count(Tail(q), y) + 1 ELSE Count(Tail(q), y)
<1> DEFINE t == Tail(q)
           A == {i \in DOMAIN t : t[i] = y}
           B == {i \in DOMAIN q : q[i] = y}
           C == B \ {1}
           f == [i \in A |-> i + 1]
<1>1. /\ \A i \in DOMAIN t : i + 1 \in DOMAIN q /\ t[i] = q[i + 1]
      /\ \A i \in DOMAIN q : i = 1 \/ (i - 1 \in DOMAIN t /\ t[i - 1] = q[i])
      /\ 1 \in DOMAIN q /\ Head(q) = q[1]
  BY TailElements
<1>2. /\ Len(q) \in Nat \ {0} /\ DOMAIN q = 1 .. Len(q)
      /\ DOMAIN t = 1 .. Len(q) - 1
  BY HeadTailProperties, LenProperties, EmptySeq
<1> HIDE DEF t
<1>3. /\ \A i \in A : f[i] \in C
      /\ \A i, j \in A : f[i] = f[j] => i = j
      /\ \A j \in C : \E i \in A : f[i] = j
  <2>1. \A i \in A : i \in Nat /\ i >= 1 /\ i + 1 # 1 /\ i + 1 \in B
    BY <1>1, <1>2
  <2>2. ASSUME NEW j \in C
        PROVE  \E i \in A : f[i] = j
    <3>1. j \in Nat /\ j - 1 \in A /\ (j - 1) + 1 = j
      BY <1>1, <1>2
    <3> HIDE DEF A
    <3>2. f[j - 1] = j
      BY <3>1
    <3> QED
      BY <3>1, <3>2
  <2>3. \A i, j \in A : f[i] = f[j] => i = j
    BY <2>1
  <2> QED
    BY <2>1, <2>2, <2>3
<1>4. IsFiniteSet(A) /\ IsFiniteSet(B) /\ IsFiniteSet(C)
  <2>1. IsFiniteSet(1 .. Len(q)) /\ IsFiniteSet(1 .. Len(q) - 1)
    BY <1>2, FS_Interval
  <2>2. A \subseteq 1 .. Len(q) - 1 /\ B \subseteq 1 .. Len(q) /\ C \subseteq 1 .. Len(q)
    BY <1>2
  <2> QED
    BY <2>1, <2>2, FS_Subset
<1>5. f \in Bijection(A, C)
  <2>1. f \in [A -> C]
    BY <1>3
  <2>2. IsInjective(f) /\ f \in Surjection(A, C)
    BY <1>3, <2>1 DEF IsInjective, Surjection
  <2> QED
    BY <2>1, <2>2 DEF Bijection, Injection
<1>6. Cardinality(A) = Cardinality(C)
  <2>1. ExistsBijection(A, C)
    BY <1>5 DEF ExistsBijection
  <2> HIDE DEF A, C
  <2> QED
    BY <1>4, <2>1, FS_Bijection
<1>7. Cardinality(B) = IF q[1] = y THEN Cardinality(C) + 1 ELSE Cardinality(C)
  <2>1. CASE q[1] = y
    <3>1. 1 \in B
      BY <1>1, <2>1
    <3>2. Cardinality(C) = Cardinality(B) - 1 /\ Cardinality(B) \in Nat
      BY <1>4, <3>1, FS_RemoveElement, FS_CardinalityType
    <3> QED
      BY <2>1, <3>2
  <2>2. CASE q[1] # y
    <3>1. C = B
      BY <2>2
    <3> QED
      BY <2>2, <3>1
  <2> QED
    BY <2>1, <2>2
<1> QED
  BY <1>1, <1>6, <1>7 DEF Count, t

\* The routines that do not step.
LEMMA OthersAnswer ==
  ASSUME NEW v \in Workers, messages'[v] = messages[v], worker'[v] = worker[v], fb'[v] = fb[v]
  PROVE  /\ Cleaning(v)' <=> Cleaning(v)
         /\ Handing(v)' <=> Handing(v)
         /\ Answers(v) => Answers(v)'
<1>1. Cleaning(v)' <=> Cleaning(v)
  BY DEF Cleaning
<1>2. Handing(v)' <=> Handing(v)
  BY DEF Handing
<1>3. Answers(v) => Answers(v)'
  BY DEF Answers, Cleaning
<1> QED
  BY <1>1, <1>2, <1>3

\* A routine that reads: its last message is that of clear().
LEMMA ReadsAnswer ==
  ASSUME TypeOK, NEW w \in Workers, Answers(w), messages[w] # <<>>, Consume(w)
  PROVE  /\ Cleaning(w)
         /\ Head(messages[w]).event = "Clean" => messages'[w] = <<>> /\ ~Cleaning(w)'
         /\ Head(messages[w]).event # "Clean" =>
              /\ Cleaning(w)'
              /\ \A i \in DOMAIN messages'[w] : messages'[w][i].event = "Clean" <=> i = Len(messages'[w])
<1> DEFINE m == messages[w]
           n == Len(m)
<1>1. /\ n \in Nat \ {0} /\ DOMAIN m = 1 .. n
      /\ Len(messages'[w]) = n - 1
      /\ DOMAIN messages'[w] = 1 .. n - 1
      /\ \A i \in 1 .. n - 1 : messages'[w][i] = m[i + 1]
      /\ Head(m) = m[1]
      /\ messages'[w] = Tail(m) /\ m \in Seq(Messages)
  BY ConsumeDoes DEF TypeOK, ShopTypeOK, Messages
<1>2. Cleaning(w) /\ \A i \in 1 .. n : m[i].event = "Clean" <=> i = n
  BY <1>1 DEF Answers
<1>3. Tail(m) \in Seq(Messages)
  BY <1>1, TailParts
<1> HIDE DEF m, n
<1>4. ASSUME Head(m).event = "Clean"
      PROVE  messages'[w] = <<>> /\ ~Cleaning(w)'
  <2>1. n = 1
    BY <1>1, <1>2, <1>4
  <2>2. Len(Tail(m)) = 0
    BY <1>1, <2>1
  <2>3. messages'[w] = <<>>
    BY <1>1, <1>3, <2>2, EmptySeq
  <2> QED
    BY <2>3 DEF Cleaning
<1>5. ASSUME Head(m).event # "Clean"
      PROVE  /\ Cleaning(w)'
             /\ \A i \in DOMAIN messages'[w] : messages'[w][i].event = "Clean" <=> i = Len(messages'[w])
  <2>1. n # 1
    BY <1>1, <1>2, <1>5
  <2>2. n - 1 \in 1 .. n - 1 /\ (n - 1) + 1 = n
    BY <1>1, <2>1
  <2>3. \A i \in 1 .. n - 1 : i + 1 \in 1 .. n /\ (i + 1 = n <=> i = n - 1)
    BY <1>1
  <2>4. \A i \in 1 .. n - 1 : messages'[w][i].event = "Clean" <=> i = n - 1
    BY <1>1, <1>2, <2>3
  <2> QED
    BY <1>1, <2>2, <2>4 DEF Cleaning
<1> QED
  BY <1>2, <1>4, <1>5 DEF m

\* What a step of routine w does to the answers that are still to come.
LEMMA AnswersBalance ==
  ASSUME BaseInv, NEW w \in Workers,
         \A v \in Workers \ {w} : messages'[v] = messages[v] /\ worker'[v] = worker[v] /\ fb'[v] = fb[v],
         \/ /\ Cleaning(w)' <=> Cleaning(w)
            /\ Handing(w)' <=> Handing(w)
            /\ Count(feedback, "WorkRoutineClean")' = Count(feedback, "WorkRoutineClean")
         \/ /\ Cleaning(w) /\ ~Cleaning(w)' /\ ~Handing(w) /\ ~Handing(w)'
            /\ Count(feedback, "WorkRoutineClean")' = Count(feedback, "WorkRoutineClean") + 1
         \/ /\ Cleaning(w) /\ ~Cleaning(w)' /\ ~Handing(w) /\ Handing(w)'
            /\ Count(feedback, "WorkRoutineClean")' = Count(feedback, "WorkRoutineClean")
         \/ /\ ~Cleaning(w) /\ ~Cleaning(w)' /\ Handing(w) /\ ~Handing(w)'
            /\ Count(feedback, "WorkRoutineClean")' = Count(feedback, "WorkRoutineClean") + 1
  PROVE  AnswersDue' = AnswersDue
<1> DEFINE C == {v \in Workers : Cleaning(v)}
           H == {v \in Workers : Handing(v)}
           n == Count(feedback, "WorkRoutineClean")
<1>1. /\ IsFiniteSet(C) /\ IsFiniteSet(H) /\ Cardinality(C) \in Nat /\ Cardinality(H) \in Nat
      /\ Cardinality(C \ {w}) = (IF w \in C THEN Cardinality(C) - 1 ELSE Cardinality(C))
      /\ Cardinality(H \ {w}) = (IF w \in H THEN Cardinality(H) - 1 ELSE Cardinality(H))
      /\ Cardinality(H \cup {w}) = (IF w \in H THEN Cardinality(H) ELSE Cardinality(H) + 1)
  <2>1. IsFiniteSet(C) /\ IsFiniteSet(H)
    BY WorkshopAssumption, FS_Subset
  <2> HIDE DEF C, H
  <2> QED
    BY <2>1, FS_CardinalityType, FS_RemoveElement, FS_AddElement
<1>2. n \in Nat
  BY CountAppend DEF BaseInv, TypeOK, ShopTypeOK
<1>3. \A v \in Workers \ {w} : (Cleaning(v)' <=> Cleaning(v)) /\ (Handing(v)' <=> Handing(v))
  BY OthersAnswer
<1>4. C' = (IF Cleaning(w)' THEN C \cup {w} ELSE C \ {w})
  <2>1. \A v \in Workers : v \in C' <=> (IF v = w THEN Cleaning(w)' ELSE v \in C)
    BY <1>3 DEF Cleaning
  <2> QED
    BY <2>1
<1>5. H' = (IF Handing(w)' THEN H \cup {w} ELSE H \ {w})
  <2>1. \A v \in Workers : v \in H' <=> (IF v = w THEN Handing(w)' ELSE v \in H)
    BY <1>3 DEF Handing
  <2> QED
    BY <2>1
<1>6. (w \in C <=> Cleaning(w)) /\ (w \in H <=> Handing(w))
  OBVIOUS
<1>7. Cardinality(C') + Cardinality(H') + n' = Cardinality(C) + Cardinality(H) + n
  <2>1. CASE (Cleaning(w)' <=> Cleaning(w)) /\ (Handing(w)' <=> Handing(w)) /\ n' = n
    <3>1. C' = C /\ H' = H
      BY <1>4, <1>5, <1>6, <2>1
    <3> QED
      BY <2>1, <3>1
  <2>2. CASE Cleaning(w) /\ ~Cleaning(w)' /\ ~Handing(w) /\ ~Handing(w)' /\ n' = n + 1
    <3>1. C' = C \ {w} /\ H' = H /\ w \in C
      BY <1>4, <1>5, <1>6, <2>2
    <3> HIDE DEF C, H, n
    <3> QED
      BY <1>1, <1>2, <2>2, <3>1
  <2>3. CASE Cleaning(w) /\ ~Cleaning(w)' /\ ~Handing(w) /\ Handing(w)' /\ n' = n
    <3>1. C' = C \ {w} /\ H' = H \cup {w} /\ w \in C /\ w \notin H
      BY <1>4, <1>5, <1>6, <2>3
    <3> HIDE DEF C, H, n
    <3> QED
      BY <1>1, <1>2, <2>3, <3>1
  <2>4. CASE ~Cleaning(w) /\ ~Cleaning(w)' /\ Handing(w) /\ ~Handing(w)' /\ n' = n + 1
    <3>1. C' = C /\ H' = H \ {w} /\ w \in H
      BY <1>4, <1>5, <1>6, <2>4
    <3> HIDE DEF C, H, n
    <3> QED
      BY <1>1, <1>2, <2>4, <3>1
  <2> HIDE DEF C, H
  <2> QED
    BY <2>1, <2>2, <2>3, <2>4
<1> QED
  BY <1>7 DEF AnswersDue

\* A step of a routine while clear() waits.
LEMMA RoutineAnswers ==
  ASSUME BaseInv, AnswerInv, doing = "clear", NEW w \in Workers, WorkRoutine(w), RoutineFrame
  PROVE  AnswerInv'
<1> USE DEF RoutineFrame, mainVars
<1> DEFINE n == Count(feedback, "WorkRoutineClean")
<1>1. /\ raw_material = <<>> /\ Answers(w) /\ arg = AnswersDue
      /\ \A v \in Workers : Answers(v)
  BY DEF AnswerInv
<1>2. SUFFICES ASSUME TRUE
               PROVE  /\ raw_material' = <<>>
                      /\ \A v \in Workers \ {w} : messages'[v] = messages[v] /\ worker'[v] = worker[v] /\ fb'[v] = fb[v]
                      /\ Answers(w)'
                      /\ AnswersDue' = AnswersDue
  <2>1. \A v \in Workers \ {w} : Answers(v)'
    BY <1>1, <1>2, OthersAnswer
  <2>2. \A v \in Workers : Answers(v)'
    BY <1>2, <2>1 DEF Answers, Cleaning
  <2> QED
    BY <1>1, <1>2, <2>2 DEF AnswerInv
<1>3. /\ worker \in [Workers -> {"message", "checked", "asleep", "take", "convey", "product", "feedback"}]
      /\ fb \in [Workers -> {"ItemFinish", "WorkRoutineClean"}]
      /\ messages \in [Workers -> Seq(Messages)]
      /\ feedback \in Seq({"ItemFinish", "WorkRoutineClean"})
  BY DEF BaseInv, TypeOK, ShopTypeOK, Messages
<1>4. CASE ReadMessage(w)
  <2>1. worker[w] = "message" /\ messages[w] # <<>> /\ Consume(w) /\ raw_material' = raw_material
    BY <1>4 DEF ReadMessage
  <2>2. \A v \in Workers \ {w} : messages'[v] = messages[v] /\ worker'[v] = worker[v] /\ fb'[v] = fb[v]
    BY <1>3, <1>4 DEF ReadMessage, Consume
  <2>3. Cleaning(w) /\ fb[w] = "ItemFinish"
    BY <1>1, <2>1, ReadsAnswer DEF BaseInv, Answers
  <2>4. CASE Head(messages[w]).event = "Clean"
    <3>1. messages'[w] = <<>> /\ ~Cleaning(w)'
      BY <1>1, <2>1, <2>4, ReadsAnswer DEF BaseInv
    <3>2. /\ worker'[w] = "message" /\ feedback' = Append(feedback, "WorkRoutineClean")
      BY <1>3, <1>4, <2>1, <2>4 DEF ReadMessage
    <3>3. n' = n + 1
      BY <1>3, <3>2, CountAppend
    <3>4. ~Handing(w) /\ ~Handing(w)'
      BY <2>1, <3>2 DEF Handing
    <3>5. AnswersDue' = AnswersDue
      BY <2>2, <2>3, <3>1, <3>3, <3>4, AnswersBalance
    <3>6. Answers(w)'
      BY <3>1, <3>2 DEF Answers
    <3> QED
      BY <1>1, <2>1, <2>2, <3>5, <3>6
  <2>5. CASE Head(messages[w]).event # "Clean"
    <3>1. /\ Cleaning(w)'
          /\ \A i \in DOMAIN messages'[w] : messages'[w][i].event = "Clean" <=> i = Len(messages'[w])
      BY <1>1, <2>1, <2>5, ReadsAnswer DEF BaseInv
    <3>2. /\ worker'[w] \in {"message", "take"} /\ feedback' = feedback /\ fb' = fb
      BY <1>3, <1>4, <2>1, <2>5 DEF ReadMessage
    <3>3. ~Handing(w) /\ ~Handing(w)' /\ n' = n
      BY <2>1, <3>2 DEF Handing
    <3>5. AnswersDue' = AnswersDue
      BY <2>2, <2>3, <3>1, <3>3, AnswersBalance
    <3>6. Answers(w)'
      BY <2>3, <3>1, <3>2 DEF Answers
    <3> QED
      BY <1>1, <2>1, <2>2, <3>5, <3>6
  <2> QED
    BY <2>4, <2>5
<1>5. CASE Inspect(w)
  <2>1. worker[w] = "convey" /\ messages[w] # <<>> /\ Consume(w) /\ UNCHANGED <<raw_material, feedback>>
    BY <1>5 DEF Inspect
  <2>2. \A v \in Workers \ {w} : messages'[v] = messages[v] /\ worker'[v] = worker[v] /\ fb'[v] = fb[v]
    BY <1>3, <1>5 DEF Inspect, Consume
  <2>3. Cleaning(w) /\ fb[w] = "ItemFinish"
    BY <1>1, <2>1, ReadsAnswer DEF BaseInv, Answers
  <2>4. holding[w] \in Units /\ Head(messages[w]) \in Messages
    BY <2>1, HeldUnit, ConsumeDoes DEF BaseInv, ControlInv
  <2> DEFINE s == StateAfter(holding[w], Head(messages[w]))
  <2>5. s = "Clean" <=> Head(messages[w]).event = "Clean"
    BY <2>4, StateAfterType
  <2>6. /\ worker'[w] = (IF s = "OnGoing" THEN "convey" ELSE "product")
        /\ fb'[w] = (IF s = "Clean" THEN "WorkRoutineClean" ELSE "ItemFinish")
    BY <1>3, <1>5, <2>1, <2>3 DEF Inspect
  <2> HIDE DEF s
  <2>7. CASE s = "Clean"
    <3>1. messages'[w] = <<>> /\ ~Cleaning(w)'
      BY <1>1, <2>1, <2>5, <2>7, ReadsAnswer DEF BaseInv
    <3>2. worker'[w] = "product" /\ fb'[w] = "WorkRoutineClean"
      BY <2>6, <2>7
    <3>3. ~Handing(w) /\ Handing(w)' /\ n' = n
      BY <2>1, <3>2 DEF Handing
    <3>4. AnswersDue' = AnswersDue
      BY <2>2, <2>3, <3>1, <3>3, AnswersBalance
    <3>5. Answers(w)'
      BY <3>1, <3>2 DEF Answers
    <3> QED
      BY <1>1, <2>1, <2>2, <3>4, <3>5
  <2>8. CASE s # "Clean"
    <3>1. /\ Cleaning(w)'
          /\ \A i \in DOMAIN messages'[w] : messages'[w][i].event = "Clean" <=> i = Len(messages'[w])
      BY <1>1, <2>1, <2>5, <2>8, ReadsAnswer DEF BaseInv
    <3>2. fb'[w] = "ItemFinish"
      BY <2>6, <2>8
    <3>3. ~Handing(w) /\ ~Handing(w)' /\ n' = n
      BY <2>1, <3>2 DEF Handing
    <3>4. AnswersDue' = AnswersDue
      BY <2>2, <2>3, <3>1, <3>3, AnswersBalance
    <3>5. Answers(w)'
      BY <3>1, <3>2 DEF Answers
    <3> QED
      BY <1>1, <2>1, <2>2, <3>4, <3>5
  <2> QED
    BY <2>7, <2>8
<1>6. CASE WriteFeedback(w)
  <2>1. /\ worker[w] = "feedback" /\ worker'[w] = "take" /\ UNCHANGED <<messages, fb, raw_material>>
        /\ feedback' = Append(feedback, fb[w]) /\ fb[w] \in {"ItemFinish", "WorkRoutineClean"}
    BY <1>3, <1>6 DEF WriteFeedback
  <2>2. \A v \in Workers \ {w} : messages'[v] = messages[v] /\ worker'[v] = worker[v] /\ fb'[v] = fb[v]
    BY <1>3, <1>6 DEF WriteFeedback
  <2>3. n' = IF fb[w] = "WorkRoutineClean" THEN n + 1 ELSE n
    <3> DEFINE byte == fb[w]
    <3>1. byte \in {"ItemFinish", "WorkRoutineClean"} /\ feedback' = Append(feedback, byte)
      BY <2>1
    <3> DEFINE Bytes == {"ItemFinish", "WorkRoutineClean"}
    <3>4. byte \in Bytes /\ feedback \in Seq(Bytes)
      BY <1>3, <3>1
    <3> HIDE DEF byte, Bytes
    <3>2. Count(Append(feedback, byte), "WorkRoutineClean") = IF byte = "WorkRoutineClean" THEN n + 1 ELSE n
      BY <3>4, CountAppend
    <3>3. n' = Count(Append(feedback, byte), "WorkRoutineClean")
      BY <3>1 DEF Count
    <3> QED
      BY <3>2, <3>3 DEF byte
  <2>4. /\ Cleaning(w)' <=> Cleaning(w)
        /\ Handing(w) <=> fb[w] = "WorkRoutineClean"
        /\ ~Handing(w)'
        /\ Cleaning(w) <=> fb[w] = "ItemFinish"
    <3>1. Cleaning(w)' <=> Cleaning(w)
      BY <2>1 DEF Cleaning
    <3> QED
      BY <1>1, <2>1, <3>1 DEF Handing, Answers
  <2>5. AnswersDue' = AnswersDue
    <3>1. CASE fb[w] = "ItemFinish"
      BY <2>2, <2>3, <2>4, <3>1, AnswersBalance
    <3>2. CASE fb[w] = "WorkRoutineClean"
      BY <2>2, <2>3, <2>4, <3>2, AnswersBalance
    <3> QED
      BY <2>1, <3>1, <3>2
  <2>6. Answers(w)'
    BY <1>1, <2>1 DEF Answers, Cleaning
  <2> QED
    BY <1>1, <2>1, <2>2, <2>5, <2>6
<1>7. CASE FindNoMessage(w) \/ FallAsleep(w) \/ TakeMaterial(w)
  <2>1. /\ UNCHANGED <<messages, fb, feedback, raw_material>>
        /\ worker[w] \in {"message", "checked", "take"} /\ worker'[w] \in {"message", "checked", "asleep"}
        /\ \A v \in Workers \ {w} : messages'[v] = messages[v] /\ worker'[v] = worker[v] /\ fb'[v] = fb[v]
    BY <1>1, <1>3, <1>7 DEF FindNoMessage, FallAsleep, TakeMaterial
  <2>2. (Cleaning(w)' <=> Cleaning(w)) /\ (Handing(w)' <=> Handing(w)) /\ n' = n
    BY <2>1 DEF Cleaning, Handing
  <2>3. AnswersDue' = AnswersDue
    BY <2>1, <2>2, AnswersBalance
  <2>4. Answers(w)'
    BY <1>1, <2>1 DEF Answers, Cleaning
  <2> QED
    BY <1>1, <2>1, <2>3, <2>4
<1>8. CASE Convey(w) \/ PushProduct(w)
  <2>1. /\ UNCHANGED <<messages, fb, feedback, raw_material>>
        /\ (worker[w] = "convey" /\ worker'[w] = "product") \/ (worker[w] = "product" /\ worker'[w] = "feedback")
        /\ \A v \in Workers \ {w} : messages'[v] = messages[v] /\ worker'[v] = worker[v] /\ fb'[v] = fb[v]
    BY <1>3, <1>8 DEF Convey, PushProduct
  <2>2. (Cleaning(w)' <=> Cleaning(w)) /\ n' = n
    BY <2>1 DEF Cleaning
  <2>3. Handing(w)' <=> Handing(w)
    BY <1>1, <2>1 DEF Handing, Answers
  <2>4. AnswersDue' = AnswersDue
    BY <2>1, <2>2, <2>3, AnswersBalance
  <2>5. Answers(w)'
    BY <1>1, <2>1 DEF Answers, Cleaning
  <2> QED
    BY <1>1, <2>1, <2>4, <2>5
<1> QED
  BY <1>4, <1>5, <1>6, <1>7, <1>8 DEF WorkRoutine

\* The first clear() asks every routine, none of which has ever been asked.
LEMMA ClearAsks ==
  ASSUME BaseInv, QuietInv, ~HasCleared, Clear
  PROVE  AnswerInv'
<1>1. /\ raw_material' = <<>> /\ arg' = Cardinality(Workers) /\ UNCHANGED <<fb, feedback>>
      /\ Post("Clean", 0) /\ "Clean" \in Events /\ 0 \in Nat
  BY DEF Clear, Enter, Events
<1>2. /\ \A w \in Workers : ~Cleaning(w) /\ fb[w] = "ItemFinish"
      /\ \A i \in DOMAIN feedback : feedback[i] = "ItemFinish"
  BY DEF QuietInv
<1>3. ASSUME NEW w \in Workers
      PROVE  /\ Cleaning(w)' /\ fb'[w] = "ItemFinish"
             /\ \A i \in DOMAIN messages'[w] : messages'[w][i].event = "Clean" <=> i = Len(messages'[w])
  <2> DEFINE n == Len(messages[w])
  <2>1. /\ n \in Nat /\ DOMAIN messages[w] = 1 .. n
        /\ DOMAIN messages'[w] = 1 .. n + 1
        /\ Len(messages'[w]) = n + 1
        /\ \A i \in 1 .. n : messages'[w][i] = messages[w][i]
        /\ messages'[w][n + 1] = [event |-> "Clean", arg |-> 0]
        /\ \A i \in 1 .. n + 1 : i \in 1 .. n \/ i = n + 1
    BY <1>1, PostedAfter DEF BaseInv
  <2> HIDE DEF n
  <2>2. messages'[w][n + 1].event = "Clean"
    BY <2>1
  <2>3. \A i \in 1 .. n : messages'[w][i].event # "Clean" /\ i # n + 1
    BY <1>2, <2>1 DEF Cleaning
  <2>4. n + 1 \in DOMAIN messages'[w]
    BY <2>1
  <2>5. Cleaning(w)'
    BY <2>2, <2>4 DEF Cleaning
  <2> QED
    BY <1>1, <1>2, <2>1, <2>2, <2>3, <2>5
<1>4. \A w \in Workers : Answers(w)'
  BY <1>3 DEF Answers
<1>5. AnswersDue' = Cardinality(Workers)
  <2> DEFINE C == {w \in Workers : Cleaning(w)}'
             H == {w \in Workers : Handing(w)}'
             F == {i \in DOMAIN feedback' : feedback'[i] = "WorkRoutineClean"}
  <2>1. C = Workers
    BY <1>3 DEF Cleaning
  <2>2. H = {}
    BY <1>3 DEF Handing
  <2>3. F = {}
    BY <1>1, <1>2
  <2>4. Cardinality({}) = 0 /\ Cardinality(Workers) \in Nat
    BY WorkshopAssumption, FS_EmptySet, FS_CardinalityType
  <2>5. AnswersDue' = Cardinality(C) + Cardinality(H) + Cardinality(F)
    BY DEF AnswersDue, Count
  <2> HIDE DEF C, H, F
  <2>6. AnswersDue' = Cardinality(Workers) + 0 + 0
    BY <2>1, <2>2, <2>3, <2>4, <2>5
  <2> QED
    BY <2>4, <2>6
<1> QED
  BY <1>1, <1>4, <1>5 DEF AnswerInv

\* The main thread counts down with each answer it reads.
LEMMA ClearAnswered ==
  ASSUME BaseInv, AnswerInv, ClearAnswer
  PROVE  AnswerInv'
<1>1. /\ doing = "clear" /\ arg \in Nat /\ feedback # <<>> /\ feedback' = Tail(feedback)
      /\ arg' = (IF Head(feedback) = "WorkRoutineClean" THEN arg - 1 ELSE arg)
      /\ UNCHANGED <<raw_material, messages, worker, fb>>
  BY DEF ClearAnswer, routineVars, BaseInv, ControlInv
<1> DEFINE n == Count(feedback, "WorkRoutineClean")
           C == {w \in Workers : Cleaning(w)}
           H == {w \in Workers : Handing(w)}
<1>2. feedback \in Seq({"ItemFinish", "WorkRoutineClean"})
  BY DEF BaseInv, TypeOK, ShopTypeOK
<1>3. n = IF Head(feedback) = "WorkRoutineClean" THEN n' + 1 ELSE n'
  BY <1>1, <1>2, CountTail
<1>4. Tail(feedback) \in Seq({"ItemFinish", "WorkRoutineClean"})
  BY <1>1, <1>2, TailParts
<1>5. n' \in Nat
  <2>1. Count(Tail(feedback), "WorkRoutineClean") \in Nat
    BY <1>4, CountAppend
  <2> QED
    BY <1>1, <2>1 DEF Count
<1>6. C' = C /\ H' = H
  BY <1>1 DEF Cleaning, Handing
<1>7. Cardinality(C) \in Nat /\ Cardinality(H) \in Nat
  <2>1. IsFiniteSet(C) /\ IsFiniteSet(H)
    BY WorkshopAssumption, FS_Subset
  <2> QED
    BY <2>1, FS_CardinalityType
<1>8. arg = Cardinality(C) + Cardinality(H) + n
  BY <1>1 DEF AnswerInv, AnswersDue
<1>9. AnswersDue' = Cardinality(C') + Cardinality(H') + n'
  BY DEF AnswersDue
<1>10. arg' = AnswersDue'
  <2> HIDE DEF C, H, n
  <2> QED
    BY <1>1, <1>3, <1>5, <1>6, <1>7, <1>8, <1>9
<1>11. \A w \in Workers : Answers(w)'
  BY <1>1 DEF AnswerInv, Answers, Cleaning
<1> QED
  BY <1>1, <1>10, <1>11 DEF AnswerInv

\* As long as clear() is called at most once, each routine answers it once.
LEMMA AnswerStep ==
  ASSUME BaseInv, QuietInv, AnswerInv, FirstClear', [Next]_vars
  PROVE  AnswerInv'
<1> USE DEF mainVars, requestVars, routineVars, shopVars
<1>1. CASE RoutineStep
  <2>1. PICK w \in Workers : WorkRoutine(w)
    BY <1>1 DEF RoutineStep
  <2>2. RoutineFrame
    BY <1>1, <2>1, RoutineBase DEF RoutineStep, RoutineEffect
  <2>3. doing' = doing
    BY <2>2 DEF RoutineFrame
  <2> QED
    BY <2>1, <2>2, <2>3, RoutineAnswers DEF AnswerInv
<1>2. CASE Process \/ ProcessNext \/ SemiNext \/ CancelNext \/ CancelEnd \/ ClearEnd
           \/ MediaInactive \/ RequestDone \/ ItemTidy
  BY <1>2 DEF Process, ProcessNext, SemiNext, CancelNext, CancelEnd, ClearEnd, MediaInactive,
              RequestDone, ItemTidy, Enter, Idle, AnswerInv, BaseInv, ControlInv
<1>3. CASE SemiEnd \/ CurrentMediaChanged
  BY <1>3 DEF SemiEnd, CurrentMediaChanged, SwitchTo, Enter, AnswerInv
<1>4. CASE \E c \in Clients : UnitOver(c) \/ UnitAgain(c) \/ Execute(c) \/ Cancel(c)
  BY <1>4 DEF UnitOver, UnitAgain, Execute, Cancel, Enter, AnswerInv, BaseInv, ControlInv
<1>5. CASE Clear
  <2>1. ~HasCleared
    BY <1>5, SpendDoes DEF Clear, BaseInv
  <2> QED
    BY <1>5, <2>1, ClearAsks
<1>6. CASE ClearAnswer
  BY <1>6, ClearAnswered
<1>7. CASE UNCHANGED vars
  BY <1>7 DEF vars, AnswerInv, Answers, AnswersDue, Cleaning, Handing, Count
<1> QED
  BY <1>1, <1>2, <1>3, <1>4, <1>5, <1>6, <1>7 DEF Next, MainStep, EventStep

------------------------------------------------------------------------------
(* The units follow the current medium.                                    *)

\* The message m stops a unit f that goes to the current medium.
Halts(f, m) ==
  \/ m.event = "Clean"
  \/ m.event = "Cancel" /\ m.arg = f.tag
  \/ m.event = "Vanish" /\ m.arg \in {f.src, f.dest}
  \/ m.event = "CommonDestChange" /\ m.arg # f.dest

LEMMA StopsMeans ==
  ASSUME NEW w \in Workers
  PROVE  /\ Stops(w) <=>
              (worker[w] = "convey" /\ holding[w] \notin Fixed /\ unit[holding[w]].dest # media =>
                 \E i \in DOMAIN messages[w] : Halts(unit[holding[w]], messages[w][i]))
         /\ Stops(w)' <=>
              (worker'[w] = "convey" /\ holding'[w] \notin Fixed /\ unit'[holding'[w]].dest # media' =>
                 \E i \in DOMAIN messages'[w] : Halts(unit'[holding'[w]], messages'[w][i]))
<1>1. Stops(w) <=>
        (worker[w] = "convey" /\ holding[w] \notin Fixed /\ unit[holding[w]].dest # media =>
           \E i \in DOMAIN messages[w] : Halts(unit[holding[w]], messages[w][i]))
  BY DEF Stops, StateAfter, Halts
<1>2. Stops(w)' <=>
        (worker'[w] = "convey" /\ holding'[w] \notin Fixed /\ unit'[holding'[w]].dest # media' =>
           \E i \in DOMAIN messages'[w] : Halts(unit'[holding'[w]], messages'[w][i]))
  BY DEF Stops, StateAfter, Halts
<1> QED
  BY <1>1, <1>2

\* A routine that conveys goes on with the same unit, and has all its messages.
StillConveys(w) ==
  worker'[w] = "convey" =>
    /\ worker[w] = "convey"
    /\ holding'[w] = holding[w]
    /\ \A i \in DOMAIN messages[w] : i \in DOMAIN messages'[w] /\ messages'[w][i] = messages[w][i]

SameUnit(u) ==
  unit'[u].tag = unit[u].tag /\ unit'[u].src = unit[u].src /\ unit'[u].dest = unit[u].dest

LEMMA StillStops ==
  ASSUME BaseInv, NEW w \in Workers, StillConveys(w), Stops(w), media' = media,
         \A u \in LiveUnits : SameUnit(u)
  PROVE  Stops(w)'
<1>1. SUFFICES ASSUME worker'[w] = "convey", holding'[w] \notin Fixed,
                      unit'[holding'[w]].dest # media'
               PROVE  \E i \in DOMAIN messages'[w] : Halts(unit'[holding'[w]], messages'[w][i])
  BY StopsMeans
<1>2. /\ worker[w] = "convey" /\ holding'[w] = holding[w]
      /\ \A i \in DOMAIN messages[w] : i \in DOMAIN messages'[w] /\ messages'[w][i] = messages[w][i]
  BY <1>1 DEF StillConveys
<1>3. SameUnit(holding[w])
  BY <1>2, HeldUnit DEF BaseInv, ControlInv
<1>4. PICK i \in DOMAIN messages[w] : Halts(unit[holding[w]], messages[w][i])
  BY <1>1, <1>2, <1>3, StopsMeans DEF SameUnit
<1> QED
  BY <1>2, <1>3, <1>4 DEF Halts, SameUnit

\* What an operation may do that leaves the current medium alone.
LEMMA MediumKept ==
  ASSUME BaseInv, MediumInv, subscribed' => subscribed, media' = media,
         \A w \in Workers : StillConveys(w),
         \A u \in LiveUnits : SameUnit(u),
         \A u \in Range(raw_material') :
           \/ u \in Range(raw_material)
           \/ u \in Fixed
           \/ unit'[u].dest = media
           \/ doing \in {"inactive", "cancel"} /\ u \in Range(semi_material),
         doing' \in {"inactive", "cancel"} =>
           \A u \in Range(semi_material') :
             \/ u \in Range(raw_material)
             \/ doing \in {"inactive", "cancel"} /\ u \in Range(semi_material)
  PROVE  MediumInv'
<1>1. SUFFICES ASSUME subscribed, media # NoMedia
               PROVE  /\ Current(raw_material)'
                      /\ doing' \in {"inactive", "cancel"} => Current(semi_material)'
                      /\ \A w \in Workers : Stops(w)'
  BY DEF MediumInv
<1>2. /\ Current(raw_material)
      /\ doing \in {"inactive", "cancel"} => Current(semi_material)
      /\ \A w \in Workers : Stops(w)
  BY <1>1 DEF MediumInv
<1>3. Range(raw_material) \subseteq LiveUnits /\ Range(semi_material) \subseteq LiveUnits
  BY DEF LiveUnits
<1>4. \A w \in Workers : Stops(w)'
  BY <1>2, StillStops
<1>5. Current(raw_material)'
  <2>1. SUFFICES ASSUME NEW u \in Range(raw_material'), u \notin Fixed
                 PROVE  unit'[u].dest = media'
    BY DEF Current
  <2> QED
    BY <1>2, <1>3, <2>1 DEF Current, SameUnit
<1>6. ASSUME doing' \in {"inactive", "cancel"}
      PROVE  Current(semi_material)'
  <2>1. SUFFICES ASSUME NEW u \in Range(semi_material'), u \notin Fixed
                 PROVE  unit'[u].dest = media'
    BY DEF Current
  <2> QED
    BY <1>2, <1>3, <1>6, <2>1 DEF Current, SameUnit
<1> QED
  BY <1>4, <1>5, <1>6

LEMMA PostStillConveys ==
  ASSUME TypeOK, NEW event \in Events, NEW about \in Nat \cup Media \cup {NoMedia},
         Post(event, about), holding' = holding
  PROVE  \A w \in Workers : StillConveys(w)
<1> SUFFICES ASSUME NEW w \in Workers
             PROVE  StillConveys(w)
  OBVIOUS
<1> DEFINE n == Len(messages[w])
<1>1. worker'[w] = "convey" <=> worker[w] = "convey"
  BY PostDoes DEF TypeOK
<1>2. /\ n \in Nat /\ DOMAIN messages[w] = 1 .. n /\ DOMAIN messages'[w] = 1 .. n + 1
      /\ \A i \in 1 .. n : messages'[w][i] = messages[w][i]
  BY PostedAfter
<1> HIDE DEF n
<1>3. \A i \in 1 .. n : i \in 1 .. n + 1
  BY <1>2
<1> QED
  BY <1>1, <1>2, <1>3 DEF StillConveys

LEMMA RoutineMedium ==
  ASSUME BaseInv, MediumInv, NEW w \in Workers, WorkRoutine(w), RoutineEffect
  PROVE  MediumInv'
<1>1. UNCHANGED <<subscribed, media, semi_material, doing>>
  BY DEF RoutineEffect, RoutineFrame, mainVars
<1>2. \A u \in LiveUnits : SameUnit(u)
  BY QueuesAreUnits DEF RoutineEffect, SameUnit, BaseInv
<1>3. /\ worker \in [Workers -> {"message", "checked", "asleep", "take", "convey", "product", "feedback"}]
      /\ messages \in [Workers -> Seq(Messages)]
      /\ holding \in [Workers -> Units \cup {NoUnit}]
  BY DEF BaseInv, TypeOK, ShopTypeOK, Messages
<1>4. \A v \in Workers \ {w} : StillConveys(v)
  BY <1>3 DEF WorkRoutine, ReadMessage, FindNoMessage, FallAsleep, TakeMaterial, Inspect, Convey,
              PushProduct, WriteFeedback, StillConveys, Consume
<1>5. Range(raw_material') \subseteq Range(raw_material)
  <2>1. raw_material' = raw_material \/ (raw_material # <<>> /\ raw_material' = Tail(raw_material))
    BY DEF WorkRoutine, ReadMessage, FindNoMessage, FallAsleep, TakeMaterial, Inspect, Convey,
           PushProduct, WriteFeedback
  <2>2. raw_material \in Seq(Units)
    BY DEF BaseInv, TypeOK, ShopTypeOK
  <2> QED
    BY <2>1, <2>2, TailParts
<1>6. ASSUME subscribed, media # NoMedia
      PROVE  Stops(w)'
  <2>1. Current(raw_material) /\ Stops(w)
    BY <1>6 DEF MediumInv
  <2>2. CASE TakeMaterial(w)
    <3>1. CASE raw_material = <<>>
      BY <1>3, <2>2, <3>1, StopsMeans DEF TakeMaterial
    <3>2. CASE raw_material # <<>>
      <4>1. holding'[w] = Head(raw_material)
        BY <1>3, <2>2, <3>2 DEF TakeMaterial
      <4>2. Head(raw_material) \in Range(raw_material) /\ Head(raw_material) \in Units
        BY <3>2, TailParts DEF BaseInv, TypeOK, ShopTypeOK
      <4>3. Head(raw_material) \in LiveUnits
        BY <4>2 DEF LiveUnits
      <4> DEFINE u == Head(raw_material)
      <4>4. u \in Fixed \/ unit'[u].dest = media'
        BY <1>1, <1>2, <2>1, <4>2, <4>3 DEF Current, SameUnit
      <4> HIDE DEF u
      <4>5. holding'[w] = u
        BY <4>1 DEF u
      <4> QED
        BY <4>4, <4>5, StopsMeans
    <3> QED
      BY <3>1, <3>2
  <2>3. CASE Inspect(w)
    <3>1. SUFFICES ASSUME worker'[w] = "convey", holding'[w] \notin Fixed,
                          unit'[holding'[w]].dest # media'
                   PROVE  \E i \in DOMAIN messages'[w] : Halts(unit'[holding'[w]], messages'[w][i])
      BY StopsMeans
    <3>2. worker[w] = "convey" /\ messages[w] # <<>> /\ Consume(w) /\ holding' = holding
      BY <2>3 DEF Inspect
    <3>3. SameUnit(holding[w])
      BY <1>2, <3>2, HeldUnit DEF BaseInv, ControlInv
    <3>4. PICK i \in DOMAIN messages[w] : Halts(unit[holding[w]], messages[w][i])
      BY <1>1, <2>1, <3>1, <3>2, <3>3, StopsMeans DEF SameUnit
    <3>5. ~Halts(unit[holding[w]], Head(messages[w]))
      <4>1. StateAfter(holding[w], Head(messages[w])) = "OnGoing"
        BY <1>3, <2>3, <3>1 DEF Inspect
      <4>2. holding[w] \notin Fixed
        BY <3>1, <3>2
      <4> QED
        BY <4>1, <4>2 DEF StateAfter, Halts
    <3>6. /\ DOMAIN messages[w] = 1 .. Len(messages[w]) /\ Len(messages[w]) \in Nat \ {0}
          /\ DOMAIN messages'[w] = 1 .. Len(messages[w]) - 1
          /\ \A k \in 1 .. Len(messages[w]) - 1 : messages'[w][k] = messages[w][k + 1]
          /\ Head(messages[w]) = messages[w][1]
      BY <3>2, ConsumeDoes DEF BaseInv
    <3>7. i # 1
      BY <3>4, <3>5, <3>6
    <3>8. i - 1 \in DOMAIN messages'[w] /\ (i - 1) + 1 = i
      BY <3>6, <3>7
    <3>9. messages'[w][i - 1] = messages[w][i]
      BY <3>6, <3>8
    <3>10. Halts(unit'[holding'[w]], messages'[w][i - 1])
      BY <3>2, <3>3, <3>4, <3>9 DEF Halts, SameUnit
    <3> QED
      BY <3>8, <3>10
  <2>4. CASE ReadMessage(w) \/ FindNoMessage(w) \/ FallAsleep(w) \/ Convey(w) \/ PushProduct(w)
             \/ WriteFeedback(w)
    <3>1. worker'[w] # "convey"
      BY <1>3, <2>4 DEF ReadMessage, FindNoMessage, FallAsleep, Convey, PushProduct, WriteFeedback
    <3> QED
      BY <3>1, StopsMeans
  <2> QED
    BY <2>2, <2>3, <2>4 DEF WorkRoutine
<1>7. SUFFICES ASSUME subscribed, media # NoMedia
               PROVE  /\ Current(raw_material)'
                      /\ doing' \in {"inactive", "cancel"} => Current(semi_material)'
                      /\ \A v \in Workers : Stops(v)'
  BY <1>1 DEF MediumInv
<1>8. /\ Current(raw_material)
      /\ doing \in {"inactive", "cancel"} => Current(semi_material)
      /\ \A v \in Workers : Stops(v)
  BY <1>7 DEF MediumInv
<1>9. Range(raw_material) \subseteq LiveUnits /\ Range(semi_material) \subseteq LiveUnits
  BY DEF LiveUnits
<1>10. Current(raw_material)' /\ (doing' \in {"inactive", "cancel"} => Current(semi_material)')
  BY <1>1, <1>2, <1>5, <1>8, <1>9 DEF Current, SameUnit
<1>11. \A v \in Workers \ {w} : Stops(v)'
  BY <1>1, <1>2, <1>4, <1>8, StillStops
<1> QED
  BY <1>6, <1>7, <1>10, <1>11

\* The current medium changes: the raw material is taken aside, and every routine
\* that conveys to another medium gets a message that stops it.
LEMMA SwitchMedium ==
  ASSUME BaseInv, NEW new \in (Media \cup {NoMedia}) \ {media}, SwitchTo(new), subscribed' = subscribed,
         unit' = unit
  PROVE  MediumInv'
<1>1. SUFFICES ASSUME subscribed, new # NoMedia
               PROVE  MediumInv'
  BY DEF SwitchTo, MediumInv
<1>2. /\ media' = new /\ doing' = "changed" /\ raw_material' = <<>>
      /\ Post("CommonDestChange", new) /\ holding' = holding
  BY <1>1 DEF SwitchTo, Enter, TakeAside
<1>3. "CommonDestChange" \in Events /\ new \in Nat \cup Media \cup {NoMedia}
  BY DEF Events
<1>4. ASSUME NEW w \in Workers, unit'[holding'[w]].dest # media'
      PROVE  \E i \in DOMAIN messages'[w] : Halts(unit'[holding'[w]], messages'[w][i])
  <2> DEFINE n == Len(messages[w]) + 1
  <2>1. /\ n \in Nat /\ n >= 1 /\ DOMAIN messages'[w] = 1 .. n
        /\ messages'[w][n] = [event |-> "CommonDestChange", arg |-> new]
    <3>1. TypeOK
      BY DEF BaseInv
    <3>2. /\ Len(messages[w]) \in Nat
          /\ DOMAIN messages'[w] = 1 .. Len(messages[w]) + 1
          /\ messages'[w][Len(messages[w]) + 1] = [event |-> "CommonDestChange", arg |-> new]
      BY <1>2, <1>3, <3>1, PostedAfter
    <3> QED
      BY <3>2
  <2> HIDE DEF n
  <2>2. messages'[w][n].event = "CommonDestChange" /\ messages'[w][n].arg = new
    BY <2>1
  <2>3. n \in DOMAIN messages'[w]
    BY <2>1
  <2> QED
    BY <1>2, <1>4, <2>2, <2>3 DEF Halts
<1>5. \A w \in Workers : Stops(w)'
  BY <1>4, StopsMeans
<1>6. Current(raw_material)'
  BY <1>2, EmptyParts DEF Current
<1> QED
  BY <1>2, <1>5, <1>6 DEF MediumInv

\* A request gets its units for the current medium; the workshop is told of changes
\* of the media since the first one.
LEMMA ExecuteMedium ==
  ASSUME BaseInv, CountInv, MediumInv, NEW c \in Clients, Execute(c)
  PROVE  MediumInv'
<1> USE DEF mainVars
<1>1. /\ UNCHANGED <<media, semi_material, doing, holding>>
      /\ Post("NewItem", 0) /\ "NewItem" \in Events /\ 0 \in Nat
      /\ subscribed' = (subscribed \/ client_table = <<>>)
      /\ LiveUnits \cap UnitsOf[c] = {} /\ UnitsOf[c] \subseteq Units
  BY ExecuteBase, ConveyAssumption DEF Execute, Events
<1>2. PICK tag \in Nat : Attached(c, UnitsOf[c], media, tag)
  BY ExecuteBase
<1>3. /\ \A u \in UnitsOf[c] : unit'[u].dest = media
      /\ \A u \in Units \ UnitsOf[c] : unit'[u] = unit[u]
      /\ Range(raw_material') = Range(raw_material) \cup UnitsOf[c]
  BY <1>2 DEF Attached
<1>4. \A w \in Workers : StillConveys(w)
  BY <1>1, PostStillConveys DEF BaseInv
<1>5. \A u \in LiveUnits : SameUnit(u)
  BY <1>1, <1>3, QueuesAreUnits DEF BaseInv, SameUnit
<1>6. CASE subscribed
  BY <1>1, <1>3, <1>4, <1>5, <1>6, MediumKept
<1>7. CASE ~subscribed /\ client_table = <<>>
  <2>1. doing = "loop"
    BY <1>7 DEF Execute, BaseInv, ControlInv
  <2>2. LiveUnits = {}
    BY <1>7, <2>1 DEF CountInv, Ours
  <2>3. \A w \in Workers : worker[w] # "convey"
    BY <2>2, HeldUnit DEF BaseInv, ControlInv
  <2>4. \A w \in Workers : Stops(w)'
    BY <1>4, <2>3, StopsMeans DEF StillConveys
  <2>5. Range(raw_material') = UnitsOf[c]
    BY <1>3, <2>2 DEF LiveUnits
  <2>6. Current(raw_material)'
    BY <1>1, <1>3, <2>5 DEF Current
  <2> QED
    BY <1>1, <2>1, <2>4, <2>6 DEF MediumInv
<1>8. CASE ~subscribed /\ client_table # <<>>
  BY <1>1, <1>8 DEF MediumInv
<1> QED
  BY <1>6, <1>7, <1>8

\* A unit that starts again goes to the current medium.
LEMMA AgainMedium ==
  ASSUME BaseInv, MediumInv, StartsAgain, item \in Units, item \notin LiveUnits
  PROVE  MediumInv'
<1>1. /\ UNCHANGED <<subscribed, media, semi_material, doing, holding>>
      /\ Post("NewItem", 0) /\ "NewItem" \in Events /\ 0 \in Nat
      /\ raw_material' = Append(raw_material, item) /\ raw_material \in Seq(Units)
      /\ unit'[item].dest = media
  BY DEF StartsAgain, Events, BaseInv, TypeOK, ShopTypeOK
<1>2. Range(raw_material') = Range(raw_material) \cup {item}
  BY <1>1, AppendParts
<1>3. \A w \in Workers : StillConveys(w)
  BY <1>1, PostStillConveys DEF BaseInv
<1>4. \A u \in LiveUnits : SameUnit(u)
  BY QueuesAreUnits DEF BaseInv, SameUnit, StartsAgain
<1> QED
  BY <1>1, <1>2, <1>3, <1>4, MediumKept

\* An operation goes through the units it has taken aside.
LEMMA SemiMedium ==
  ASSUME BaseInv, MediumInv, SemiNext \/ CancelNext
  PROVE  MediumInv'
<1> USE DEF routineVars, mainVars
<1> DEFINE u == Head(semi_material)
<1>1. /\ UNCHANGED <<subscribed, media, messages, worker, holding, doing>>
      /\ semi_material # <<>> /\ semi_material' = Tail(semi_material)
  BY DEF SemiNext, CancelNext
<1>2. semi_material \in Seq(Units) /\ raw_material \in Seq(Units)
  BY DEF BaseInv, TypeOK, ShopTypeOK
<1>3. /\ u \in Range(semi_material) /\ u \in Units
      /\ Range(semi_material') \subseteq Range(semi_material)
  BY <1>1, <1>2, TailParts
<1>4. \A x \in LiveUnits : SameUnit(x)
  <2>1. CASE SemiNext
    BY <2>1, SemiNextBase, QueuesAreUnits DEF SameUnit, BaseInv
  <2>2. CASE CancelNext
    BY <2>2 DEF SameUnit, CancelNext
  <2> QED
    BY <2>1, <2>2
<1>5. \A w \in Workers : StillConveys(w)
  BY <1>1 DEF StillConveys
<1>6. \/ raw_material' = raw_material
      \/ raw_material' = Append(raw_material, u) /\ (doing \in {"inactive", "cancel"} \/ u \in Fixed)
  BY DEF SemiNext, CancelNext, SemiState
<1> HIDE DEF u
<1>7. Range(Append(raw_material, u)) = Range(raw_material) \cup {u}
  BY <1>2, <1>3, AppendParts
<1>8. ASSUME NEW x \in Range(raw_material')
      PROVE  \/ x \in Range(raw_material)
             \/ x \in Fixed
             \/ doing \in {"inactive", "cancel"} /\ x \in Range(semi_material)
  BY <1>3, <1>6, <1>7
<1> QED
  BY <1>1, <1>3, <1>4, <1>5, <1>8, MediumKept

\* An operation takes the raw material aside, and leaves the current medium alone.
LEMMA AsideMedium ==
  ASSUME BaseInv, MediumInv, NEW event \in Events, NEW about \in Nat \cup Media \cup {NoMedia},
         \/ TakeAside(event, about)
         \/ raw_material' = <<>> /\ Post(event, about) /\ holding' = holding
            /\ doing' \notin {"inactive", "cancel"},
         UNCHANGED <<subscribed, unit, media>>
  PROVE  MediumInv'
<1>1. /\ Post(event, about) /\ holding' = holding /\ raw_material' = <<>>
      /\ semi_material' = raw_material \/ doing' \notin {"inactive", "cancel"}
  BY DEF TakeAside
<1>2. \A w \in Workers : StillConveys(w)
  BY <1>1, PostStillConveys DEF BaseInv
<1>3. \A u \in LiveUnits : SameUnit(u)
  BY DEF SameUnit
<1> QED
  BY <1>1, <1>2, <1>3, EmptyParts, MediumKept

LEMMA MediumStep ==
  ASSUME BaseInv, CountInv, MediumInv, [Next]_vars
  PROVE  MediumInv'
<1> USE DEF mainVars, requestVars, routineVars, shopVars
<1>1. CASE RoutineStep
  <2>1. PICK w \in Workers : WorkRoutine(w) /\ RoutineEffect
    BY <1>1, RoutineBase DEF RoutineStep
  <2> QED
    BY <2>1, RoutineMedium
<1>2. CASE \/ Process \/ ProcessNext \/ RequestDone \/ ItemTidy \/ CancelEnd \/ ClearAnswer \/ ClearEnd
           \/ (SemiEnd /\ media' = media)
           \/ \E c \in Clients : UnitOver(c) \/ (UnitAgain(c) /\ GivesUp(c))
  <2>1. /\ UNCHANGED <<media, messages, worker, holding, unit, raw_material, semi_material>>
        /\ doing' = doing \/ doing' \in {"loop", "process", "crashed"}
    BY <1>2 DEF Process, ProcessNext, RequestDone, ItemTidy, CancelEnd, ClearAnswer, ClearEnd, SemiEnd,
                SwitchTo, UnitOver, GivesUp, Enter
  <2>2. subscribed' => subscribed
    <3>1. CASE Process \/ ProcessNext \/ RequestDone \/ ClearAnswer \/ ClearEnd \/ SemiEnd
               \/ \E c \in Clients : UnitOver(c) \/ (UnitAgain(c) /\ GivesUp(c))
      BY <3>1 DEF Process, ProcessNext, RequestDone, ClearAnswer, ClearEnd, SemiEnd, UnitOver, GivesUp
    <3> QED
      BY <1>2, <3>1, ItemTidyBase, CancelEndBase DEF Tidied, Kept
  <2>3. (\A w \in Workers : StillConveys(w)) /\ \A u \in LiveUnits : SameUnit(u)
    BY <2>1 DEF StillConveys, SameUnit
  <2> QED
    BY <2>1, <2>2, <2>3, MediumKept
<1>3. CASE SemiNext \/ CancelNext
  BY <1>3, SemiMedium
<1>4. CASE CurrentMediaChanged \/ (SemiEnd /\ media' # media)
  <2>1. UNCHANGED <<subscribed, unit>>
    BY <1>4 DEF CurrentMediaChanged, SemiEnd
  <2>2. \E new \in (Media \cup {NoMedia}) \ {media} : SwitchTo(new)
    BY <1>4 DEF CurrentMediaChanged, SemiEnd
  <2> QED
    BY <2>1, <2>2, SwitchMedium
<1>5. CASE MediaInactive
  BY <1>5, AsideMedium DEF MediaInactive, Events
<1>6. CASE \E c \in Clients : Cancel(c)
  <2>1. PICK c \in Clients : Cancel(c)
    BY <1>6
  <2>2. PICK tag \in DOMAIN client_table : TakeAside("Cancel", tag)
    BY <2>1, CancelBase
  <2>3. tag \in Nat /\ "Cancel" \in Events
    BY <2>2, TableType, LenProperties DEF BaseInv, Events
  <2> QED
    BY <2>1, <2>2, <2>3, AsideMedium DEF Cancel
<1>7. CASE Clear
  BY <1>7, AsideMedium DEF Clear, Enter, Events
<1>8. CASE \E c \in Clients : UnitAgain(c) /\ StartsAgain
  <2>1. item \in Units /\ item \notin LiveUnits
    BY <1>8 DEF UnitAgain, BaseInv, ControlInv, FreshInv
  <2> QED
    BY <1>8, <2>1, AgainMedium
<1>9. CASE \E c \in Clients : Execute(c)
  BY <1>9, ExecuteMedium
<1>10. CASE UNCHANGED vars
  <2>1. (\A w \in Workers : StillConveys(w)) /\ \A u \in LiveUnits : SameUnit(u)
    BY <1>10 DEF StillConveys, SameUnit, vars
  <2> QED
    BY <1>10, <2>1, MediumKept DEF vars
<1> QED
  BY <1>1, <1>2, <1>3, <1>4, <1>5, <1>6, <1>7, <1>8, <1>9, <1>10, UnitAgainDoes
     DEF Next, MainStep, EventStep

------------------------------------------------------------------------------
(* A request that succeeds has all its units conveyed.                     *)

\* Messages: they are read, and added to by operations other than cancel and clear.
LEMMA CalmStays ==
  ASSUME BaseInv, Calm, doing' \notin {"cancel", "clear", "crashed"},
         \/ messages' = messages
         \/ \E w \in Workers : messages[w] # <<>> /\ Consume(w)
         \/ \E event \in Events \ {"Clean", "Cancel"}, about \in Nat \cup Media \cup {NoMedia} :
              Post(event, about)
  PROVE  Calm'
<1> SUFFICES ASSUME NEW w \in Workers, NEW i \in DOMAIN messages'[w]
             PROVE  messages'[w][i].event \notin {"Clean", "Cancel"}
  BY DEF Calm
<1>1. \A k \in DOMAIN messages[w] : messages[w][k].event \notin {"Clean", "Cancel"}
  BY DEF Calm
<1>2. CASE messages' = messages
  BY <1>1, <1>2
<1>3. CASE \E v \in Workers : messages[v] # <<>> /\ Consume(v)
  <2>1. PICK v \in Workers : messages[v] # <<>> /\ Consume(v)
    BY <1>3
  <2>2. CASE v = w
    <3> DEFINE n == Len(messages[w])
    <3>1. /\ n \in Nat \ {0} /\ DOMAIN messages[w] = 1 .. n
          /\ DOMAIN messages'[w] = 1 .. n - 1
          /\ \A k \in 1 .. n - 1 : messages'[w][k] = messages[w][k + 1]
      BY <2>1, <2>2, ConsumeDoes DEF BaseInv
    <3> HIDE DEF n
    <3>2. i \in 1 .. n - 1 /\ i + 1 \in 1 .. n
      BY <3>1
    <3> QED
      BY <1>1, <3>1, <3>2
  <2>3. CASE v # w
    BY <1>1, <2>1, <2>3, ConsumeDoes DEF BaseInv
  <2> QED
    BY <2>2, <2>3
<1>4. CASE \E event \in Events \ {"Clean", "Cancel"}, about \in Nat \cup Media \cup {NoMedia} :
             Post(event, about)
  <2>1. PICK event \in Events \ {"Clean", "Cancel"}, about \in Nat \cup Media \cup {NoMedia} :
           Post(event, about)
    BY <1>4
  <2> DEFINE n == Len(messages[w])
  <2>2. /\ DOMAIN messages[w] = 1 .. n
        /\ DOMAIN messages'[w] = 1 .. n + 1
        /\ \A k \in 1 .. n : messages'[w][k] = messages[w][k]
        /\ messages'[w][n + 1] = [event |-> event, arg |-> about]
        /\ \A k \in 1 .. n + 1 : k \in 1 .. n \/ k = n + 1
    BY <2>1, PostedAfter DEF BaseInv
  <2> HIDE DEF n
  <2>3. messages'[w][n + 1].event = event
    BY <2>2
  <2> QED
    BY <1>1, <2>1, <2>2, <2>3
<1> QED
  BY <1>2, <1>3, <1>4

LEMMA EndedStays ==
  ASSUME EndedInv, UNCHANGED <<state_, result_, fail_num_>>, Pending' = Pending,
         \A u \in Units \ Pending : unit'[u].state = unit[u].state
  PROVE  EndedInv'
<1>1. ASSUME NEW c \in Clients, state_'[c] = "TS_EXECUTING", NEW u \in UnitsOf[c]
      PROVE  u \in Pending' \/ fail_num_'[c] > 0 \/ unit'[u].state = "Done"
  BY <1>1, ConveyAssumption DEF EndedInv
<1>2. ASSUME NEW c \in Clients, state_'[c] = "TS_FINISHED", result_'[c] = "TRANS_R_SUCCESS",
             NEW u \in UnitsOf[c]
      PROVE  unit'[u].state = "Done" /\ u \notin Pending'
  BY <1>2, ConveyAssumption DEF EndedInv
<1> QED
  BY <1>1, <1>2 DEF EndedInv

\* Units that are not yet conveyed change their state.
LEMMA OverStays ==
  ASSUME BaseInv, OverInv, Range(products') \subseteq Range(products),
         \A w \in Workers : worker'[w] = "product" => worker[w] = "product" /\ holding'[w] = holding[w],
         \A u \in LiveUnits :
           u \in Range(raw_material) \cup Range(semi_material) \/ unit'[u].state = unit[u].state,
         stage' = "callback" => unit'[item'].state \in OverStates
  PROVE  OverInv'
<1>1. ASSUME NEW u \in Range(products')
      PROVE  unit'[u].state \in OverStates
  BY <1>1 DEF OverInv, BaseInv, PlacesInv, LiveUnits
<1>2. ASSUME NEW w \in Workers, worker'[w] = "product"
      PROVE  unit'[holding'[w]].state \in OverStates
  <2>1. worker[w] = "product" /\ holding'[w] = holding[w]
    BY <1>2
  <2>2. holding[w] \in Held /\ holding[w] \in LiveUnits
    BY <2>1, HeldUnit DEF BaseInv, ControlInv
  <2>3. holding[w] \notin Range(raw_material) \cup Range(semi_material)
    BY <2>2 DEF BaseInv, PlacesInv, Held
  <2> QED
    BY <2>1, <2>2, <2>3 DEF OverInv
<1> QED
  BY <1>1, <1>2 DEF OverInv

LEMMA RoutineOver ==
  ASSUME BaseInv, Calm, OverInv, NEW w \in Workers, WorkRoutine(w), RoutineFrame
  PROVE  /\ OverInv'
         /\ \A u \in Units \ LiveUnits : unit'[u].state = unit[u].state
<1> USE DEF RoutineFrame, mainVars
<1>0. /\ worker \in [Workers -> {"message", "checked", "asleep", "take", "convey", "product", "feedback"}]
      /\ messages \in [Workers -> Seq(Messages)]
      /\ holding \in [Workers -> Units \cup {NoUnit}]
      /\ raw_material \in Seq(Units) /\ products \in Seq(Units)
  BY DEF BaseInv, TypeOK, ShopTypeOK, Messages
<1>1. stage = "callback" => item \in Units \ LiveUnits
  BY DEF BaseInv, ControlInv, FreshInv
<1>2. CASE ReadMessage(w) \/ FindNoMessage(w) \/ FallAsleep(w) \/ WriteFeedback(w)
           \/ (TakeMaterial(w) /\ raw_material = <<>>)
  <2>1. /\ UNCHANGED <<unit, products, holding>>
        /\ \A v \in Workers : worker'[v] = "product" => worker[v] = "product"
    BY <1>0, <1>2 DEF ReadMessage, FindNoMessage, FallAsleep, WriteFeedback, TakeMaterial
  <2> QED
    BY <2>1, OverStays DEF OverInv
<1>3. CASE TakeMaterial(w) /\ raw_material # <<>>
  <2> DEFINE h == Head(raw_material)
  <2>1. h \in Range(raw_material) /\ h \in Units /\ h \in LiveUnits
    BY <1>0, <1>3, TailParts DEF LiveUnits
  <2>2. /\ products' = products /\ unit' = [unit EXCEPT ![h].state = "OnGoing"]
        /\ \A v \in Workers : worker'[v] = "product" => worker[v] = "product" /\ holding'[v] = holding[v]
    BY <1>0, <1>3 DEF TakeMaterial
  <2> HIDE DEF h
  <2>3. \A u \in Units : u # h => unit'[u].state = unit[u].state
    BY <2>1, <2>2, UnitState DEF BaseInv, States
  <2>4. \A u \in LiveUnits : u \in Range(raw_material) \/ unit'[u].state = unit[u].state
    BY <2>1, <2>3, QueuesAreUnits DEF BaseInv
  <2>5. stage' = "callback" => unit'[item'].state \in OverStates
    BY <1>1, <2>1, <2>3 DEF OverInv
  <2> QED
    BY <2>1, <2>2, <2>3, <2>4, <2>5, OverStays
<1>4. CASE Inspect(w) \/ Convey(w)
  <2> DEFINE h == holding[w]
  <2>1. /\ worker[w] = "convey" /\ h \in Held /\ h \in Units /\ h \in LiveUnits
        /\ UNCHANGED <<products, holding>>
        /\ \A v \in Workers \ {w} : worker'[v] = worker[v]
    BY <1>0, <1>4, HeldUnit DEF Inspect, Convey, BaseInv, ControlInv
  <2>2. \E s \in States : /\ unit' = [unit EXCEPT ![h].state = s]
                          /\ worker'[w] = "product" => s \in OverStates
    <3>1. CASE Convey(w)
      BY <3>1 DEF Convey, States, OverStates
    <3>2. CASE Inspect(w)
      <4> DEFINE m == Head(messages[w])
                 s == StateAfter(h, m)
      <4>1. messages[w] # <<>>
        BY <3>2 DEF Inspect
      <4>2. m \in Messages /\ m = messages[w][1] /\ 1 \in DOMAIN messages[w]
        BY <1>0, <4>1, TailParts, TailElements
      <4>3. m.event \notin {"Clean", "Cancel"}
        BY <4>2 DEF Calm
      <4>4. s \in OverStates \cup {"OnGoing"}
        BY <2>1, <4>2, <4>3, StateAfterType DEF OverStates
      <4>5. unit' = [unit EXCEPT ![h].state = s] /\ worker'[w] = (IF s = "OnGoing" THEN worker[w] ELSE "product")
        BY <1>0, <3>2 DEF Inspect
      <4> HIDE DEF s, h
      <4> QED
        BY <2>1, <4>4, <4>5 DEF States, OverStates
    <3> QED
      BY <1>4, <3>1, <3>2
  <2>3. PICK s \in States : /\ unit' = [unit EXCEPT ![h].state = s]
                            /\ worker'[w] = "product" => s \in OverStates
    BY <2>2
  <2> HIDE DEF h
  <2>4. \A u \in Units : unit'[u].state = IF u = h THEN s ELSE unit[u].state
    BY <2>1, <2>3, UnitState DEF BaseInv
  <2>5. \A u \in Range(products') : unit'[u].state \in OverStates
    BY <2>1, <2>4, QueuesAreUnits DEF OverInv, BaseInv, PlacesInv, Held
  <2>6. ASSUME NEW v \in Workers, worker'[v] = "product"
        PROVE  unit'[holding'[v]].state \in OverStates
    <3>1. CASE v = w
      BY <2>1, <2>3, <2>4, <2>6, <3>1 DEF h
    <3>2. CASE v # w
      <4>1. worker[v] = "product"
        BY <2>1, <2>6, <3>2
      <4>2. holding[v] \in Units /\ holding[v] # NoUnit
        BY <4>1, HeldUnit DEF BaseInv, ControlInv
      <4>3. holding[v] # h
        BY <3>2, <4>2 DEF BaseInv, PlacesInv, h
      <4> QED
        BY <2>1, <2>4, <4>1, <4>2, <4>3 DEF OverInv
    <3> QED
      BY <3>1, <3>2
  <2>7. stage' = "callback" => unit'[item'].state \in OverStates
    BY <1>1, <2>1, <2>4 DEF OverInv
  <2> QED
    BY <2>1, <2>4, <2>5, <2>6, <2>7 DEF OverInv
<1>5. CASE PushProduct(w)
  <2> DEFINE h == holding[w]
  <2>1. /\ worker[w] = "product" /\ h \in Units /\ unit' = unit
        /\ products' = Append(products, h)
        /\ \A v \in Workers : worker'[v] = "product" => worker[v] = "product" /\ holding'[v] = holding[v]
    BY <1>0, <1>5, HeldUnit DEF PushProduct, BaseInv, ControlInv
  <2>2. Range(products') = Range(products) \cup {h}
    BY <1>0, <2>1, AppendParts
  <2>3. unit[h].state \in OverStates
    BY <2>1 DEF OverInv
  <2> QED
    BY <2>1, <2>2, <2>3 DEF OverInv
<1> QED
  BY <1>2, <1>3, <1>4, <1>5 DEF WorkRoutine

LEMMA RoutineDone ==
  ASSUME BaseInv, Calm, OverInv, OrphanInv, EndedInv, NEW w \in Workers, WorkRoutine(w), RoutineEffect
  PROVE  Calm' /\ OverInv' /\ OrphanInv' /\ EndedInv'
<1> USE DEF RoutineFrame, mainVars, requestVars
<1>1. /\ RoutineFrame /\ LiveUnits' = LiveUnits
      /\ UNCHANGED <<client_table, doing, stage, item, state_, result_, fail_num_>>
  BY DEF RoutineEffect
<1>2. OverInv' /\ \A u \in Units \ LiveUnits : unit'[u].state = unit[u].state
  BY <1>1, RoutineOver
<1>3. messages' = messages \/ (messages[w] # <<>> /\ Consume(w))
  BY DEF WorkRoutine, ReadMessage, FindNoMessage, FallAsleep, TakeMaterial, Inspect, Convey,
         PushProduct, WriteFeedback
<1>4. Calm'
  BY <1>1, <1>3, CalmStays DEF Calm
<1>5. Pending' = Pending
  BY <1>1 DEF Pending
<1>6. EndedInv'
  BY <1>1, <1>2, <1>5, EndedStays DEF Pending
<1> QED
  BY <1>1, <1>2, <1>4, <1>6 DEF OrphanInv

\* A unit that is taken has a client, which is called.
LEMMA TakenPending ==
  ASSUME BaseInv, CountInv, OrphanInv, NEW u \in LiveUnits, Counted(u), stage = "next",
         doing \notin {"clear", "crashed"}, LiveUnits' = LiveUnits \ {u}
  PROVE  stage' = "callback" /\ item' = u /\ Pending' = Pending /\ OrphanInv'
<1>1. Registered(u) /\ unit[u].tag \in DOMAIN client_table
  BY LiveIsRegistered
<1>2. client_table[unit[u].tag].client # NoClient
  <2>1. client_table[unit[u].tag].num # 0
    BY <1>1 DEF Registered
  <2> QED
    BY <1>1, <2>1 DEF OrphanInv
<1>3. stage' = "callback" /\ item' = u
  BY <1>1, <1>2 DEF Counted
<1>4. u \in Units /\ LiveUnits \subseteq Units
  BY QueuesAreUnits DEF BaseInv
<1>5. Pending' = LiveUnits' \cup {x \in Units : stage' = "callback" /\ x = item'}
  BY DEF Pending
<1>6. Pending' = Pending
  BY <1>3, <1>4, <1>5 DEF Pending
<1>7. OrphanInv'
  BY <1>1, <1>2 DEF Counted, OrphanInv
<1> QED
  BY <1>3, <1>6, <1>7

LEMMA ProcessDone ==
  ASSUME BaseInv, CountInv, Calm, OverInv, OrphanInv, EndedInv, ProcessNext
  PROVE  Calm' /\ OverInv' /\ OrphanInv' /\ EndedInv'
<1> USE DEF routineVars, mainVars, requestVars
<1>1. /\ doing = "process" /\ stage = "next" /\ doing' \in {"process", "loop"}
      /\ UNCHANGED <<messages, unit, worker, holding, state_, result_, fail_num_>>
  BY DEF ProcessNext
<1>2. Calm'
  BY <1>1, CalmStays
<1>3. CASE products = <<>>
  <2>1. UNCHANGED <<products, client_table, item, stage>> /\ LiveUnits' = LiveUnits
    BY <1>3, ProcessNextBase DEF ProcessNext
  <2>2. OverInv' /\ OrphanInv' /\ Pending' = Pending
    BY <1>1, <2>1 DEF OverInv, OrphanInv, Pending
  <2> QED
    BY <1>1, <1>2, <2>2, EndedStays
<1>4. CASE products # <<>>
  <2> DEFINE u == Head(products)
  <2>1. u \in LiveUnits /\ LiveUnits' = LiveUnits \ {u} /\ Counted(u) /\ products' = Tail(products)
    BY <1>4, ProcessNextBase DEF ProcessNext
  <2>2. u \in Range(products) /\ Range(products') \subseteq Range(products)
    BY <1>4, <2>1, TailParts DEF BaseInv, TypeOK, ShopTypeOK
  <2> HIDE DEF u
  <2>3. stage' = "callback" /\ item' = u /\ Pending' = Pending /\ OrphanInv'
    BY <1>1, <2>1, TakenPending
  <2>4. OverInv'
    BY <1>1, <2>2, <2>3, OverStays DEF OverInv
  <2> QED
    BY <1>1, <1>2, <2>3, <2>4, EndedStays
<1> QED
  BY <1>3, <1>4

LEMMA SemiDone ==
  ASSUME BaseInv, CountInv, Calm, OverInv, OrphanInv, EndedInv, SemiNext
  PROVE  Calm' /\ OverInv' /\ OrphanInv' /\ EndedInv'
<1> USE DEF routineVars, mainVars, requestVars
<1> DEFINE u == Head(semi_material)
<1>1. /\ doing \in {"changed", "inactive"} /\ stage = "next" /\ doing' = doing
      /\ UNCHANGED <<messages, worker, holding, products, state_, result_, fail_num_>>
  BY DEF SemiNext
<1>2. Calm'
  BY <1>1, CalmStays
<1>3. u \in Range(semi_material) /\ u \in LiveUnits /\ u \in Units
  <2>1. semi_material # <<>> /\ u \in LiveUnits /\ u \in Units
    BY SemiNextBase
  <2>2. semi_material \in Seq(Units)
    BY DEF BaseInv, TypeOK, ShopTypeOK
  <2>3. Range(semi_material) = Range(Tail(semi_material)) \cup {u}
    BY <2>1, <2>2, TailParts
  <2> QED
    BY <2>1, <2>3
<1>4. CASE SemiState(u) = "Wait"
  <2>1. UNCHANGED <<unit, client_table, item, stage>> /\ LiveUnits' = LiveUnits
    BY <1>4, SemiNextBase
  <2>2. OverInv' /\ OrphanInv' /\ Pending' = Pending
    BY <1>1, <2>1 DEF OverInv, OrphanInv, Pending
  <2> QED
    BY <1>1, <1>2, <2>1, <2>2, EndedStays
<1>5. CASE SemiState(u) # "Wait"
  <2>1. LiveUnits' = LiveUnits \ {u} /\ Counted(u)
    BY <1>5, SemiNextBase
  <2>2. \A x \in Units : unit'[x].state = IF x = u THEN SemiState(u) ELSE unit[x].state
    BY <1>5, SemiNextBase
  <2>3. SemiState(u) \in OverStates
    BY <1>5 DEF SemiState, OverStates
  <2> HIDE DEF u
  <2>4. stage' = "callback" /\ item' = u /\ Pending' = Pending /\ OrphanInv'
    BY <1>1, <1>3, <2>1, TakenPending
  <2>5. OverInv'
    BY <1>1, <1>3, <2>2, <2>3, <2>4, QueuesAreUnits, OverStays DEF BaseInv
  <2>6. \A x \in Units \ Pending : unit'[x].state = unit[x].state
    BY <1>3, <2>2 DEF Pending
  <2> QED
    BY <1>1, <1>2, <2>4, <2>5, <2>6, EndedStays
<1> QED
  BY <1>4, <1>5

\* The request that is told of its last unit has no other.
LEMMA NoneLeft ==
  ASSUME BaseInv, CountInv, RequestInv, OrphanInv, stage = "callback", NEW c \in Clients,
         c = client_table[unit[item].tag].client, item_num_[c] = 1
  PROVE  LiveUnits \cap UnitsOf[c] = {}
<1> SUFFICES ASSUME NEW u \in LiveUnits, u \in UnitsOf[c]
             PROVE  FALSE
  OBVIOUS
<1> DEFINE k == unit[item].tag
           t == unit[u].tag
<1>1. /\ doing \notin {"clear", "crashed"} /\ k \in DOMAIN client_table
      /\ NoClient \notin Clients /\ LiveUnits \subseteq Units
  BY QueuesAreUnits, WorkshopAssumption DEF BaseInv, ControlInv
<1>2. Ours(u) /\ t \in DOMAIN client_table
  BY <1>1 DEF CountInv, Ours
<1>3. client_table[t].client \in Clients \cup {NoClient} /\ client_table[k].num \in Int
  BY <1>1, <1>2, TableType DEF BaseInv
<1>4. client_table[t].num # 0
  <2>1. client_table[t].num = Cardinality(WithTag(t))
    BY <1>1, <1>2 DEF CountInv
  <2>2. u \in WithTag(t)
    BY DEF WithTag
  <2> QED
    BY <2>1, <2>2, TaggedUnits DEF BaseInv
<1>5. client_table[t].client # NoClient
  BY <1>2, <1>4 DEF OrphanInv
<1>6. client_table[t].client = c
  BY <1>2, <1>3, <1>5, ConveyAssumption DEF Ours
<1>7. t = k
  BY <1>1, <1>2, <1>5, <1>6 DEF RequestInv
<1>8. client_table[k].num = 0
  BY <1>1, <1>3 DEF RequestInv, Awaits, Answered
<1> QED
  BY <1>4, <1>7, <1>8

\* A unit is over: it is conveyed, or the request has failed.
LEMMA EndDone ==
  ASSUME BaseInv, CountInv, RequestInv, Calm, OverInv, OrphanInv, EndedInv, stage = "callback",
         NEW c \in Clients, c = client_table[unit[item].tag].client,
         NEW failing \in BOOLEAN, Ends(c, failing), failing \/ unit[item].state = "Done",
         UNCHANGED <<shopVars, semi_material, doing, item>>
  PROVE  Calm' /\ OverInv' /\ OrphanInv' /\ EndedInv'
<1> USE DEF routineVars, shopVars
<1>1. /\ item \in Units /\ item \notin LiveUnits /\ LiveUnits' = LiveUnits
      /\ stage' \in {"finished", "tidy"}
  BY SamePlaces DEF BaseInv, ControlInv, FreshInv, Ends
<1>2. Calm'
  BY CalmStays DEF Calm
<1>3. OverInv'
  BY <1>1 DEF OverInv
<1>4. OrphanInv'
  BY DEF OrphanInv
<1>5. Pending = LiveUnits \cup {item} /\ Pending' = LiveUnits
  BY <1>1 DEF Pending
<1>6. fail_num_ \in [Clients -> Nat] /\ item_num_ \in [Clients -> Nat]
  BY DEF BaseInv, TypeOK
<1>7. /\ \A d \in Clients : fail_num_'[d] = IF d = c /\ failing THEN fail_num_[d] + 1 ELSE fail_num_[d]
      /\ \A d \in Clients : state_'[d] = IF d = c /\ item_num_[c] = 1 THEN "TS_FINISHED" ELSE state_[d]
      /\ \A d \in Clients : result_'[d] = IF d = c /\ item_num_[c] = 1 /\ fail_num_'[c] > 0 THEN "TRANS_R_FAILURE"
                                          ELSE result_[d]
  BY DEF Ends
<1>8. state_[c] = "TS_EXECUTING" /\ item \in UnitsOf[c]
  BY <1>1 DEF RequestInv, Awaits, Answered, Ours, Calm
<1>9. \A d \in Clients \ {c} : item \notin UnitsOf[d]
  BY <1>8, ConveyAssumption
<1>10. ASSUME NEW d \in Clients, state_'[d] = "TS_EXECUTING", NEW u \in UnitsOf[d]
       PROVE  u \in Pending' \/ fail_num_'[d] > 0 \/ unit'[u].state = "Done"
  <2>1. state_[d] = "TS_EXECUTING"
    BY <1>7, <1>10
  <2>2. u \in Pending \/ fail_num_[d] > 0 \/ unit[u].state = "Done"
    BY <2>1 DEF EndedInv
  <2>3. fail_num_[d] > 0 => fail_num_'[d] > 0
    BY <1>6, <1>7
  <2>4. u = item => fail_num_'[d] > 0 \/ unit[u].state = "Done"
    BY <1>6, <1>7, <1>9
  <2> QED
    BY <1>5, <2>2, <2>3, <2>4
<1>11. ASSUME NEW d \in Clients, state_'[d] = "TS_FINISHED", result_'[d] = "TRANS_R_SUCCESS",
              NEW u \in UnitsOf[d]
       PROVE  unit'[u].state = "Done" /\ u \notin Pending'
  <2>1. CASE d # c
    BY <1>5, <1>7, <1>11, <2>1 DEF EndedInv
  <2>2. CASE d = c
    <3>1. item_num_[c] = 1 /\ ~(fail_num_'[c] > 0)
      BY <1>7, <1>8, <1>11, <2>2
    <3>2. ~failing /\ ~(fail_num_[c] > 0)
      BY <1>6, <1>7, <3>1
    <3>3. u \notin LiveUnits
      BY <2>2, <3>1, NoneLeft
    <3>4. u \in Pending \/ unit[u].state = "Done"
      BY <1>8, <2>2, <3>2 DEF EndedInv
    <3> QED
      BY <1>5, <3>2, <3>3, <3>4
  <2> QED
    BY <2>1, <2>2
<1>12. EndedInv'
  BY <1>10, <1>11 DEF EndedInv
<1> QED
  BY <1>2, <1>3, <1>4, <1>12

LEMMA AgainDone ==
  ASSUME BaseInv, RequestInv, Calm, OverInv, OrphanInv, EndedInv, stage = "callback", StartsAgain
  PROVE  Calm' /\ OverInv' /\ OrphanInv' /\ EndedInv'
<1> USE DEF requestVars
<1>1. /\ Post("NewItem", 0) /\ stage' = "tidy" /\ LiveUnits' = LiveUnits \cup {item}
      /\ item \in Units /\ UNCHANGED <<products, holding, doing, item, state_, result_, fail_num_>>
      /\ "NewItem" \in Events \ {"Clean", "Cancel"} /\ 0 \in Nat
  BY LiveGrows DEF StartsAgain, Events, BaseInv, ControlInv
<1>2. Calm'
  BY <1>1, CalmStays DEF Calm
<1>3. \A u \in Units : unit'[u].state = unit[u].state
  BY DEF StartsAgain
<1>4. \A w \in Workers : worker'[w] = "product" <=> worker[w] = "product"
  BY <1>1, PostDoes DEF BaseInv, TypeOK
<1>5. OverInv'
  BY <1>1, <1>3, <1>4, QueuesAreUnits, OverStays DEF BaseInv
<1>6. client_table[unit[item].tag].client # NoClient
  BY DEF RequestInv, Calm
<1>7. OrphanInv'
  BY <1>6 DEF OrphanInv, StartsAgain
<1>8. Pending' = LiveUnits' /\ Pending = LiveUnits \cup {item}
  BY <1>1 DEF Pending
<1> QED
  BY <1>1, <1>2, <1>3, <1>5, <1>7, <1>8, EndedStays

LEMMA ExecuteDone ==
  ASSUME BaseInv, Calm, OverInv, OrphanInv, EndedInv, NEW c \in Clients, Execute(c)
  PROVE  Calm' /\ OverInv' /\ OrphanInv' /\ EndedInv'
<1> USE DEF mainVars
<1>1. /\ UNCHANGED <<products, holding, doing, stage, item, result_, fail_num_>>
      /\ Post("NewItem", 0) /\ "NewItem" \in Events \ {"Clean", "Cancel"} /\ 0 \in Nat
      /\ LiveUnits' = LiveUnits \cup UnitsOf[c] /\ LiveUnits \cap UnitsOf[c] = {}
      /\ UnitsOf[c] \subseteq Units /\ stage # "callback"
      /\ LiveUnits \subseteq Units /\ NoClient \notin Clients
      /\ state_' = [state_ EXCEPT ![c] = "TS_EXECUTING"] /\ state_[c] = "TS_NOT_BEGIN"
  BY ExecuteBase, QueuesAreUnits, ConveyAssumption, WorkshopAssumption
     DEF Execute, Events, BaseInv, ControlInv
<1>2. PICK tag \in Nat : Attached(c, UnitsOf[c], media, tag)
  BY ExecuteBase
<1>3. Calm'
  BY <1>1, CalmStays DEF Calm
<1>4. \A u \in Units \ UnitsOf[c] : unit'[u] = unit[u]
  BY <1>2 DEF Attached
<1>5. \A w \in Workers : worker'[w] = "product" <=> worker[w] = "product"
  BY <1>1, PostDoes DEF BaseInv, TypeOK
<1>6. OverInv'
  BY <1>1, <1>4, <1>5, OverStays
<1>7. OrphanInv'
  <2>1. client_table'[tag] = [client |-> c, num |-> Cardinality(UnitsOf[c])]
    BY <1>2 DEF Attached
  <2>2. client_table'[tag].client = c
    BY <2>1
  <2>3. ASSUME NEW t \in DOMAIN client_table', client_table'[t].client = NoClient
        PROVE  client_table'[t].num = 0
    <3>1. t # tag
      BY <1>1, <2>2, <2>3
    <3>2. t \in DOMAIN client_table /\ client_table'[t] = client_table[t]
      BY <1>2, <3>1 DEF Attached
    <3> QED
      BY <2>3, <3>2 DEF OrphanInv
  <2> QED
    BY <2>3 DEF OrphanInv
<1>8. Pending = LiveUnits /\ Pending' = LiveUnits \cup UnitsOf[c]
  BY <1>1 DEF Pending
<1>9. \A d \in Clients \ {c} : UnitsOf[d] \cap UnitsOf[c] = {} /\ UnitsOf[d] \subseteq Units
  BY ConveyAssumption
<1>10. \A d \in Clients : state_'[d] = IF d = c THEN "TS_EXECUTING" ELSE state_[d]
  BY <1>1 DEF BaseInv, TypeOK
<1>11. ASSUME NEW d \in Clients, state_'[d] = "TS_EXECUTING", NEW u \in UnitsOf[d]
       PROVE  u \in Pending' \/ fail_num_'[d] > 0 \/ unit'[u].state = "Done"
  BY <1>1, <1>4, <1>8, <1>9, <1>10, <1>11 DEF EndedInv
<1>12. ASSUME NEW d \in Clients, state_'[d] = "TS_FINISHED", result_'[d] = "TRANS_R_SUCCESS",
              NEW u \in UnitsOf[d]
       PROVE  unit'[u].state = "Done" /\ u \notin Pending'
  <2>1. d # c /\ state_[d] = "TS_FINISHED" /\ result_[d] = "TRANS_R_SUCCESS"
    BY <1>1, <1>10, <1>12
  <2>2. unit[u].state = "Done" /\ u \notin Pending
    BY <2>1 DEF EndedInv
  <2>3. u \in Units \ UnitsOf[c]
    BY <1>9, <2>1
  <2> QED
    BY <1>4, <1>8, <2>2, <2>3
<1>13. EndedInv'
  BY <1>11, <1>12 DEF EndedInv
<1> QED
  BY <1>3, <1>6, <1>7, <1>13

\* The steps that leave the units and the requests as they are.
LEMMA OthersDone ==
  ASSUME BaseInv, Calm, OverInv, OrphanInv, EndedInv, LiveUnits' = LiveUnits,
         doing' \notin {"cancel", "clear", "crashed"},
         \/ messages' = messages
         \/ \E event \in Events \ {"Clean", "Cancel"}, about \in Nat \cup Media \cup {NoMedia} :
              Post(event, about),
         \A w \in Workers : worker'[w] = "product" <=> worker[w] = "product",
         UNCHANGED <<products, holding, unit, state_, result_, fail_num_>>,
         \/ stage' = stage /\ item' = item
         \/ stage # "callback" /\ stage' # "callback",
         \A t \in DOMAIN client_table' :
           /\ t \in DOMAIN client_table
           /\ client_table'[t].num = client_table[t].num
           /\ client_table'[t].client = client_table[t].client \/ client_table[t].num = 0
  PROVE  Calm' /\ OverInv' /\ OrphanInv' /\ EndedInv'
<1>1. Calm'
  BY CalmStays
<1>2. OverInv'
  BY DEF OverInv
<1>3. OrphanInv'
  BY DEF OrphanInv
<1>4. Pending' = Pending
  BY DEF Pending
<1>5. EndedInv'
  BY <1>4, EndedStays
<1> QED
  BY <1>1, <1>2, <1>3, <1>5

LEMMA SwitchPosts ==
  ASSUME BaseInv, NEW new \in Media \cup {NoMedia}, SwitchTo(new)
  PROVE  /\ \/ messages' = messages
            \/ \E event \in Events \ {"Clean", "Cancel"}, about \in Nat \cup Media \cup {NoMedia} :
                 Post(event, about)
         /\ \A w \in Workers : worker'[w] = "product" <=> worker[w] = "product"
         /\ UNCHANGED <<products, holding>>
         /\ doing' \in {"loop", "changed"}
<1> USE DEF routineVars
<1>1. "CommonDestChange" \in Events \ {"Clean", "Cancel"}
  BY DEF Events
<1>2. CASE subscribed /\ new # NoMedia
  <2>1. Post("CommonDestChange", new) /\ UNCHANGED <<products, holding>> /\ doing' = "changed"
    BY <1>2 DEF SwitchTo, TakeAside, Enter
  <2> QED
    BY <1>1, <2>1, PostDoes DEF BaseInv, TypeOK
<1>3. CASE ~(subscribed /\ new # NoMedia)
  BY <1>3 DEF SwitchTo, Enter
<1> QED
  BY <1>2, <1>3

\* At most one event happens in a step.
LEMMA SpentStep ==
  ASSUME [Next]_vars
  PROVE  spent' = spent \/ \E kind : Spend(kind)
<1> USE DEF mainVars, requestVars, routineVars, shopVars
<1>1. CASE RoutineStep
  BY <1>1 DEF RoutineStep
<1>2. CASE MainStep
  BY <1>2 DEF MainStep, Process, ProcessNext, SemiNext, SemiEnd, CancelNext, CancelEnd,
              ClearAnswer, ClearEnd, RequestDone, ItemTidy, UnitOver, UnitAgain
<1>3. CASE EventStep
  BY <1>3 DEF EventStep, Execute, CurrentMediaChanged, MediaInactive, Clear, Cancel
<1> QED
  BY <1>1, <1>2, <1>3 DEF Next, vars

LEMMA DoneStep ==
  ASSUME BaseInv, FirstInv, DoneInv, [Next]_vars
  PROVE  DoneInv'
<1> USE DEF mainVars, requestVars, routineVars, shopVars
<1>1. SUFFICES ASSUME Undisturbed'
               PROVE  Calm' /\ OverInv' /\ OrphanInv' /\ EndedInv'
  BY DEF DoneInv
<1>2. Undisturbed /\ ~Clear /\ \A c \in Clients : ~Cancel(c)
  <2>1. Undisturbed
    BY <1>1, SpentStep, NothingSpent, SpendDoes DEF BaseInv
  <2>2. ~Spend("clear") /\ ~Spend("cancel")
    BY <1>1, SpendDoes DEF BaseInv
  <2> QED
    BY <2>1, <2>2 DEF Clear, Cancel
<1>3. Calm /\ OverInv /\ OrphanInv /\ EndedInv /\ CountInv /\ RequestInv
  BY <1>2 DEF DoneInv, FirstInv, FirstClear, Undisturbed
<1>4. doing \notin {"cancel", "clear", "crashed"}
  BY <1>3 DEF Calm
<1>5. CASE RoutineStep
  BY <1>3, <1>5, RoutineBase, RoutineDone DEF RoutineStep
<1>6. CASE ProcessNext
  BY <1>3, <1>6, ProcessDone
<1>7. CASE SemiNext
  BY <1>3, <1>7, SemiDone
<1>8. CASE \E c \in Clients : UnitOver(c)
  <2>1. PICK c \in Clients : UnitOver(c)
    BY <1>8
  <2> DEFINE failing == unit[item].state \in FailedStates
  <2>2. /\ stage = "callback" /\ c = client_table[unit[item].tag].client
        /\ UNCHANGED <<shopVars, semi_material, doing, item>> /\ Ends(c, failing)
        /\ unit[item].state \notin {"CommonDestVanish", "CommonDestChange"}
    BY <2>1, UnitOverDoes DEF UnitOver, BaseInv
  <2>3. failing \in BOOLEAN /\ (failing \/ unit[item].state = "Done")
    BY <1>3, <2>2 DEF OverInv, OverStates, FailedStates
  <2> HIDE DEF failing
  <2> QED
    BY <1>3, <2>2, <2>3, EndDone
<1>9. CASE \E c \in Clients : UnitAgain(c)
  <2>1. PICK c \in Clients : UnitAgain(c)
    BY <1>9
  <2>2. stage = "callback" /\ c = client_table[unit[item].tag].client
    BY <2>1 DEF UnitAgain
  <2>3. CASE StartsAgain
    BY <1>3, <2>2, <2>3, AgainDone
  <2>4. CASE GivesUp(c)
    <3>1. Ends(c, TRUE) /\ UNCHANGED <<shopVars, semi_material, doing, item>>
      BY <2>4 DEF GivesUp
    <3> QED
      BY <1>3, <2>2, <3>1, EndDone
  <2> QED
    BY <2>1, <2>3, <2>4, UnitAgainDoes
<1>10. CASE \E c \in Clients : Execute(c)
  BY <1>3, <1>10, ExecuteDone
<1>11. CASE Process \/ RequestDone \/ UNCHANGED vars
  <2>1. /\ UNCHANGED <<client_table, messages, worker, products, holding, unit, requestVars, item>>
        /\ doing' \in {doing, "process"}
        /\ stage' = stage \/ (stage # "callback" /\ stage' # "callback")
    BY <1>11 DEF Process, RequestDone, vars
  <2>2. LiveUnits' = LiveUnits
    BY <1>11, ProcessBase, RequestDoneBase, StutterBase
  <2> QED
    BY <1>3, <1>4, <2>1, <2>2, OthersDone
<1>12. CASE SemiEnd \/ CurrentMediaChanged
  <2>1. UNCHANGED <<client_table, unit, item, stage, requestVars>> /\ LiveUnits' = LiveUnits
    BY <1>12, SemiEndBase, CurrentMediaChangedBase DEF SemiEnd, CurrentMediaChanged
  <2>2. /\ \/ messages' = messages
           \/ \E event \in Events \ {"Clean", "Cancel"}, about \in Nat \cup Media \cup {NoMedia} :
                Post(event, about)
        /\ \A w \in Workers : worker'[w] = "product" <=> worker[w] = "product"
        /\ UNCHANGED <<products, holding>>
        /\ doing' \in {"loop", "changed"}
    <3>1. CASE \E new \in Media \cup {NoMedia} : SwitchTo(new)
      BY <3>1, SwitchPosts
    <3>2. CASE UNCHANGED <<messages, products, routineVars>> /\ doing' = "loop"
      BY <3>2
    <3> QED
      BY <1>12, <3>1, <3>2 DEF SemiEnd, CurrentMediaChanged, Enter
  <2> QED
    BY <1>3, <2>1, <2>2, OthersDone
<1>13. CASE MediaInactive
  <2>1. PICK m \in Media : Enter("inactive", m) /\ TakeAside("Vanish", m)
    BY <1>13 DEF MediaInactive
  <2>2. /\ Post("Vanish", m) /\ "Vanish" \in Events \ {"Clean", "Cancel"} /\ doing' = "inactive"
        /\ UNCHANGED <<client_table, products, holding, unit, item, stage, requestVars>>
    BY <1>13, <2>1 DEF MediaInactive, TakeAside, Enter, Events
  <2>3. \A w \in Workers : worker'[w] = "product" <=> worker[w] = "product"
    BY <2>2, PostDoes DEF BaseInv, TypeOK
  <2>4. LiveUnits' = LiveUnits
    BY <1>13, MediaInactiveBase
  <2> QED
    BY <1>3, <2>2, <2>3, <2>4, OthersDone
<1>14. CASE ItemTidy
  <2>1. /\ UNCHANGED <<messages, worker, products, holding, unit, requestVars, doing>>
        /\ stage # "callback" /\ stage' # "callback"
    BY <1>14 DEF ItemTidy
  <2>2. LiveUnits' = LiveUnits /\ Tidied(unit[item].tag)
    BY <1>14, ItemTidyBase
  <2>3. \A t \in DOMAIN client_table' :
          /\ t \in DOMAIN client_table
          /\ client_table'[t].num = client_table[t].num
          /\ client_table'[t].client = client_table[t].client \/ client_table[t].num = 0
    BY <2>2 DEF Tidied
  <2> QED
    BY <1>3, <1>4, <2>1, <2>2, <2>3, OthersDone
<1>15. ~CancelNext /\ ~CancelEnd /\ ~ClearAnswer /\ ~ClearEnd
  BY <1>4 DEF CancelNext, CancelEnd, ClearAnswer, ClearEnd
<1> QED
  BY <1>2, <1>5, <1>6, <1>7, <1>8, <1>9, <1>10, <1>11, <1>12, <1>13, <1>14, <1>15
     DEF Next, MainStep, EventStep

------------------------------------------------------------------------------
(* The invariant of the module.                                            *)

Inv == BaseInv /\ QuietInv /\ FirstInv /\ DoneInv

LEMMA FirstStep ==
  ASSUME BaseInv, QuietInv, FirstInv, [Next]_vars
  PROVE  FirstInv'
<1>1. SUFFICES ASSUME FirstClear'
               PROVE  CountInv' /\ RequestInv' /\ AnswerInv' /\ MediumInv'
  BY DEF FirstInv
<1>2. FirstClear
  BY <1>1, SpentStep, NothingSpent, SpendDoes DEF BaseInv
<1>3. CountInv /\ RequestInv /\ AnswerInv /\ MediumInv
  BY <1>2 DEF FirstInv
<1> QED
  BY <1>1, <1>3, CountStep, RequestStep, AnswerStep, MediumStep

LEMMA InitInv ==
  ASSUME Init
  PROVE  Inv
<1>1. BaseInv
  BY InitBase
<1>2. /\ client_table = <<>> /\ doing = "loop" /\ stage = "next" /\ spent = <<>> /\ feedback = <<>>
      /\ raw_material = <<>> /\ semi_material = <<>> /\ products = <<>>
      /\ \A w \in Workers : messages[w] = <<>> /\ worker[w] = "message" /\ fb[w] = "ItemFinish"
                            /\ holding[w] = NoUnit
      /\ \A c \in Clients : state_[c] = "TS_NOT_BEGIN"
      /\ subscribed = FALSE
  BY DEF Init, ShopInit
<1>3. QuietInv
  BY <1>2 DEF QuietInv, Cleaning
<1>4. LiveUnits = {}
  <2>1. Range(holding) \ {NoUnit} = {}
    <3>1. DOMAIN holding = Workers
      BY DEF Init, ShopInit
    <3>2. \A x \in Range(holding) : x = NoUnit
      BY <1>2, <3>1 DEF Range
    <3> QED
      BY <3>2
  <2> QED
    BY <1>2, <2>1, EmptyParts DEF LiveUnits
<1>5. CountInv /\ RequestInv /\ AnswerInv /\ MediumInv
  BY <1>2, <1>4 DEF CountInv, RequestInv, AnswerInv, MediumInv
<1>6. Calm /\ OverInv /\ OrphanInv /\ EndedInv
  BY <1>2, EmptyParts DEF Calm, OverInv, OrphanInv, EndedInv
<1> QED
  BY <1>1, <1>3, <1>5, <1>6 DEF Inv, FirstInv, DoneInv

LEMMA InvStep ==
  ASSUME Inv, [Next]_vars
  PROVE  Inv'
BY BaseStep, QuietStep, FirstStep, DoneStep DEF Inv

\* The invariant holds of every state that the program can be in.
THEOREM Invariance == Spec => []Inv
<1>1. Init => Inv
  BY InitInv
<1>2. Inv /\ [Next]_vars => Inv'
  BY InvStep
<1> QED
  BY <1>1, <1>2, PTL DEF Spec

------------------------------------------------------------------------------
(* The properties of LogConvey.                                            *)

LEMMA CountOnce ==
  ASSUME NEW f, NEW y, \A i, j \in DOMAIN f : f[i] = y /\ f[j] = y => i = j
  PROVE  Count(f, y) = IF y \in Range(f) THEN 1 ELSE 0
<1> DEFINE At == {i \in DOMAIN f : f[i] = y}
<1>1. CASE y \in Range(f)
  <2>1. PICK i \in DOMAIN f : f[i] = y
    BY <1>1 DEF Range
  <2>2. At = {i}
    BY <2>1
  <2>3. Cardinality({i}) = 1
    BY FS_Singleton
  <2> QED
    BY <1>1, <2>2, <2>3 DEF Count
<1>2. CASE y \notin Range(f)
  <2>1. At = {}
    BY <1>2 DEF Range
  <2>2. Cardinality({}) = 0
    BY FS_EmptySet
  <2> QED
    BY <1>2, <2>1, <2>2 DEF Count
<1> QED
  BY <1>1, <1>2

LEMMA LiveOnce ==
  ASSUME TypeOK, PlacesInv, NEW u \in Units
  PROVE  Occurrences(u) = IF u \in LiveUnits THEN 1 ELSE 0
<1>1. \A i, j \in DOMAIN holding : holding[i] = u /\ holding[j] = u => i = j
  <2>1. DOMAIN holding = Workers
    BY DEF TypeOK, ShopTypeOK
  <2>2. u # NoUnit
    BY QueuesAreUnits
  <2> QED
    BY <2>1, <2>2 DEF PlacesInv
<1>2. Count(holding, u) = IF u \in Range(holding) THEN 1 ELSE 0
  BY <1>1, CountOnce
<1>3. /\ Count(raw_material, u) = IF u \in Range(raw_material) THEN 1 ELSE 0
      /\ Count(semi_material, u) = IF u \in Range(semi_material) THEN 1 ELSE 0
      /\ Count(products, u) = IF u \in Range(products) THEN 1 ELSE 0
  BY CountOnce DEF PlacesInv, IsInjective
<1>4. u # NoUnit
  BY QueuesAreUnits
<1> QED
  BY <1>2, <1>3, <1>4 DEF Occurrences, LiveUnits, PlacesInv

\* However the main thread, the routines and the events interleave, a unit is worked on
\* by one routine and is in one queue, and it is reported to the request that asked for
\* it until a second clear().  (raw_material_, products_, semi_material, convey_workshop.cpp)
THEOREM OnePlace == Spec => []UnitInOnePlace
<1>1. ASSUME Inv
      PROVE  UnitInOnePlace
  <2>1. TypeOK /\ PlacesInv
    BY <1>1 DEF Inv, BaseInv
  <2>2. \A u \in Units : Occurrences(u) <= 1
    BY <2>1, LiveOnce
  <2>3. ASSUME FirstClear, stage = "callback"
        PROVE  client_table[unit[item].tag].client = Owner(item)
    <3> DEFINE c == client_table[unit[item].tag].client
    <3>1. /\ Ours(item) /\ c # NoClient
      BY <1>1, <2>3 DEF Inv, FirstInv, RequestInv, BaseInv, ControlInv
    <3>2. c \in Clients
      BY <2>1, <3>1, TableType DEF Ours
    <3>3. item \in UnitsOf[c]
      BY <3>1, <3>2 DEF Ours
    <3>4. \A d \in Clients : item \in UnitsOf[d] <=> d = c
      BY <3>2, <3>3, ConveyAssumption
    <3> HIDE DEF c
    <3>5. (CHOOSE d \in Clients : item \in UnitsOf[d]) = c
      BY <3>2, <3>4
    <3> QED
      BY <3>5 DEF Owner, c
  <2> QED
    BY <2>1, <2>2, <2>3 DEF UnitInOnePlace, ReportedToOwner
<1> QED
  BY <1>1, Invariance, PTL

\* The entry of a request in the client table and the request itself, which counts on
\* its own, count its units that are under way; so an entry is given to another request
\* only when none of its units is left.  (num_request, item_num_)
THEOREM TableCounts == Spec => []TableCountsUnits
<1>1. ASSUME Inv, FirstClear, stage = "next", doing # "crashed"
      PROVE  /\ \A c \in Clients : state_[c] = "TS_EXECUTING" =>
                  \E entry \in Range(client_table) : entry = [client |-> c, num |-> item_num_[c]]
             /\ \A entry \in Range(client_table) :
                  entry.client # NoClient => state_[entry.client] = "TS_EXECUTING"
  <2>1. RequestInv /\ TypeOK
    BY <1>1 DEF Inv, FirstInv, BaseInv
  <2>2. \A t \in DOMAIN client_table :
          /\ client_table[t] \in Entries /\ client_table[t].num \in Int
          /\ client_table[t].client # NoClient =>
               /\ state_[client_table[t].client] = "TS_EXECUTING"
               /\ item_num_[client_table[t].client] = client_table[t].num + 0
    <3>1. \A t \in DOMAIN client_table : client_table[t].client # NoClient => Awaits(t)
      BY <1>1, <2>1 DEF RequestInv, Answered
    <3>2. \A t \in DOMAIN client_table : client_table[t] \in Entries
      BY <2>1, TableType, LenProperties
    <3> QED
      BY <1>1, <2>1, <3>1, <3>2, TableType DEF Awaits
  <2>3. ASSUME NEW c \in Clients, state_[c] = "TS_EXECUTING"
        PROVE  \E entry \in Range(client_table) : entry = [client |-> c, num |-> item_num_[c]]
    <3>1. PICK t \in DOMAIN client_table : client_table[t].client = c
      BY <1>1, <2>1, <2>3 DEF RequestInv
    <3>2. client_table[t].num = item_num_[c]
      BY <2>2, <3>1, WorkshopAssumption
    <3>3. client_table[t] = [client |-> c, num |-> item_num_[c]]
      BY <2>2, <3>1, <3>2 DEF Entries
    <3> QED
      BY <3>3 DEF Range
  <2> QED
    BY <2>2, <2>3 DEF Range
<1>2. ASSUME Inv, FirstClear, stage = "next", doing \notin {"clear", "crashed"}
      PROVE  /\ \A tag \in DOMAIN client_table : client_table[tag].num = Outstanding(tag)
             /\ \A u \in Units : Occurrences(u) > 0 => unit[u].tag \in DOMAIN client_table
  <2>1. CountInv /\ TypeOK /\ PlacesInv
    BY <1>2 DEF Inv, FirstInv, BaseInv
  <2>2. \A u \in Units : Occurrences(u) > 0 <=> u \in LiveUnits
    BY <2>1, LiveOnce
  <2>3. LiveUnits \subseteq Units
    BY <2>1, QueuesAreUnits
  <2>4. \A tag : {u \in Units : unit[u].tag = tag /\ Occurrences(u) > 0} = WithTag(tag)
    BY <2>2, <2>3 DEF WithTag
  <2> QED
    BY <1>2, <2>1, <2>2, <2>4 DEF CountInv, Outstanding, Ours
<1>3. Inv => TableCountsUnits
  BY <1>1, <1>2 DEF TableCountsUnits, RequestCountsUnits
<1> QED
  BY <1>3, Invariance, PTL

\* The first clear() goes on to delete the directories only when no routine has a unit,
\* and none has still to answer: it counts the answers of all routines, those that were
\* in the middle of a unit included.  (clear(), convey_workshop.cpp)
THEOREM ClearWaitsForAll == Spec => []ClearWaits
<1>1. ASSUME Inv, FirstClear, doing = "clear", arg = 0, NEW w \in Workers
      PROVE  holding[w] = NoUnit /\ ~Cleaning(w)
  <2> DEFINE C == {v \in Workers : Cleaning(v)}
             H == {v \in Workers : Handing(v)}
             n == Count(feedback, "WorkRoutineClean")
  <2>1. /\ Answers(w) /\ AnswersDue = 0
    BY <1>1 DEF Inv, FirstInv, AnswerInv
  <2>2. Cardinality(C) \in Nat /\ Cardinality(H) \in Nat /\ IsFiniteSet(C) /\ IsFiniteSet(H)
    <3>1. IsFiniteSet(C) /\ IsFiniteSet(H)
      BY WorkshopAssumption, FS_Subset
    <3> QED
      BY <3>1, FS_CardinalityType
  <2>3. n \in Nat
    <3>1. feedback \in Seq({"ItemFinish", "WorkRoutineClean"})
      BY <1>1 DEF Inv, BaseInv, TypeOK, ShopTypeOK
    <3>2. "ItemFinish" \in {"ItemFinish", "WorkRoutineClean"}
      OBVIOUS
    <3> QED
      BY <3>1, <3>2, CountAppend
  <2>4. Cardinality(C) = 0 /\ Cardinality(H) = 0
    <3>1. Cardinality(C) + Cardinality(H) + n = 0
      BY <2>1 DEF AnswersDue
    <3>2. \A a, b, d \in Nat : a + b + d = 0 => a = 0 /\ b = 0
      OBVIOUS
    <3> HIDE DEF C, H, n
    <3> QED
      BY <2>2, <2>3, <3>1, <3>2
  <2>5. C = {} /\ H = {}
    <3> HIDE DEF C, H
    <3> QED
      BY <2>2, <2>4, FS_EmptySet
  <2>6. ~Cleaning(w) /\ ~Handing(w)
    BY <2>5
  <2>7. worker[w] \notin {"convey", "product"}
    BY <2>1, <2>6 DEF Answers, Handing
  <2> QED
    BY <1>1, <2>6, <2>7 DEF Inv, BaseInv, ControlInv
<1>2. Inv => ClearWaits
  BY <1>1 DEF ClearWaits, Cleaning
<1> QED
  BY <1>2, Invariance, PTL

\* Whatever media come and go, the units that wait are for the current medium, and a
\* routine that conveys to another one has a message to stop.
\* (current_media_changed(), media_inactive(), unit_finish())
THEOREM UnitsFollow == Spec => []UnitsFollowMedium
<1>1. ASSUME Inv, FirstClear, doing = "loop", subscribed, media # NoMedia
      PROVE  Current(raw_material) /\ \A w \in Workers : Stops(w)
  BY <1>1 DEF Inv, FirstInv, MediumInv
<1>2. \A i \in DOMAIN raw_material : raw_material[i] \in Range(raw_material)
  BY DEF Range
<1>3. Inv => UnitsFollowMedium
  BY <1>1, <1>2 DEF UnitsFollowMedium, Current, Stops
<1> QED
  BY <1>3, Invariance, PTL

\* A request that succeeds has had each of its units conveyed, those included that
\* started again with another medium, as long as no request is canceled and no log
\* cleared.  (TransLogConvey::unit_finish())
THEOREM SuccessIsDone == Spec => []SuccessMeansDone
<1>1. Inv => SuccessMeansDone
  BY DEF Inv, DoneInv, Undisturbed, SuccessMeansDone, EndedInv
<1> QED
  BY <1>1, Invariance, PTL

==============================================================================
