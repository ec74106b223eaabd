--------------------------- MODULE ClientTrans_proofs ---------------------------
(***************************************************************************)
(* Of ClientTrans, for any clients, subsystems, builds and bounds: every   *)
(* transaction has a client that waits for it and parts that will report,  *)
(* those who are told of dumps exist, and the modes written down are those *)
(* of the handlers, whoever asks for what at the same time and whatever    *)
(* subscribers do in the callbacks of a notification.                      *)
(***************************************************************************)
EXTENDS ClientTrans, SequenceTheorems, FiniteSetTheorems, WellFoundedInduction, TLAPS

------------------------------------------------------------------------------
(* Loops.                                                                  *)

\* A set of numbers has a least one: induction along a loop is by its first
\* step that is wrong.
LEMMA LeastOf ==
  ASSUME NEW S \in SUBSET Nat, S # {}
  PROVE  \E i \in S : \A j \in S : i <= j
<1> DEFINE R == {ss \in Nat \X Nat : ss[1] < ss[2]}
<1>1. IsWellFoundedOn(R, Nat)
  <2>1. IsWellFoundedOn(OpToRel(<, Nat), Nat)
    BY NatLessThanWellFounded
  <2>2. OpToRel(<, Nat) = R
    BY DEF OpToRel
  <2> QED
    BY <2>1, <2>2
<1>2. \A x, y \in Nat : <<x, y>> \in R <=> x < y
  OBVIOUS
<1> HIDE DEF R
<1>3. PICK i \in S : \A j \in S : ~(<<j, i>> \in R)
  BY <1>1, WFMin
<1>4. ASSUME NEW j \in S
      PROVE  i <= j
  <2>1. i \in Nat /\ j \in Nat
    OBVIOUS
  <2>2. ~(j < i)
    BY <1>2, <1>3, <2>1
  <2> QED
    BY <2>1, <2>2
<1> QED
  BY <1>4

\* What the loop of Without has left after i elements.
Left(l, D, i, before) ==
  IF i = 0 THEN <<>>
  ELSE IF i \in D THEN before[i - 1] ELSE Append(before[i - 1], l[i])

\* The loop is defined, whatever the list.
LEMMA LeftDefined ==
  ASSUME NEW l, NEW D, NEW n \in Nat
  PROVE  \E f : f = [i \in 0 .. n |-> Left(l, D, i, f)]
<1> DEFINE Done(m) == \E f : f = [i \in 0 .. m |-> Left(l, D, i, f)]
           undone == {m \in Nat : ~Done(m)}
<1>1. CASE undone = {}
  BY <1>1
<1>2. CASE undone # {}
  <2>1. undone \in SUBSET Nat
    OBVIOUS
  <2>2. PICK m \in undone : \A j \in undone : m <= j
    <3> HIDE DEF undone
    <3> QED
      BY <1>2, <2>1, LeastOf
  <2>3. m # 0
    <3> DEFINE f == [i \in 0 .. 0 |-> Left(l, D, 0, <<>>)]
    <3>1. f = [i \in 0 .. 0 |-> Left(l, D, i, f)]
      BY DEF Left
    <3>2. Done(0)
      BY <3>1
    <3> QED
      BY <2>2, <3>2
  <2>4. m \in Nat /\ m - 1 \in Nat /\ m - 1 < m
    BY <2>2, <2>3
  <2>5. Done(m - 1)
    BY <2>2, <2>4
  <2>6. PICK f : f = [i \in 0 .. m - 1 |-> Left(l, D, i, f)]
    BY <2>5
  <2> DEFINE g == [i \in 0 .. m |-> IF i = m THEN Left(l, D, m, f) ELSE f[i]]
  <2>7. \A i \in 0 .. m - 1 : g[i] = f[i] /\ f[i] = Left(l, D, i, f)
    <3>1. \A i \in 0 .. m - 1 : i \in 0 .. m /\ i # m
      BY <2>4
    <3> QED
      BY <2>6, <3>1
  <2>8. g[m] = Left(l, D, m, f)
    BY <2>4
  <2>9. DOMAIN g = 0 .. m /\ g = [i \in 0 .. m |-> g[i]]
    OBVIOUS
  <2> HIDE DEF g
  <2>10. ASSUME NEW i \in 0 .. m
         PROVE  g[i] = Left(l, D, i, g)
    <3>1. CASE i = 0
      <4>1. g[i] = Left(l, D, i, f)
        BY <2>3, <2>4, <2>7, <3>1
      <4> QED
        BY <3>1, <4>1 DEF Left
    <3>2. CASE i # 0
      <4>1. i - 1 \in 0 .. m - 1
        BY <2>4, <3>2
      <4>2. g[i - 1] = f[i - 1]
        BY <2>7, <4>1
      <4>3. g[i] = Left(l, D, i, f)
        <5>1. CASE i = m
          BY <2>8, <5>1
        <5>2. CASE i # m
          <6>1. i \in 0 .. m - 1
            BY <2>4, <5>2
          <6> QED
            BY <2>7, <6>1
        <5> QED
          BY <5>1, <5>2
      <4> QED
        BY <3>2, <4>2, <4>3 DEF Left
    <3> QED
      BY <3>1, <3>2
  <2>11. g = [i \in 0 .. m |-> Left(l, D, i, g)]
    BY <2>9, <2>10
  <2>12. Done(m)
    BY <2>11
  <2> QED
    BY <2>2, <2>12
<1> QED
  BY <1>1, <1>2

\* k is the first n elements of l without those at the places D, in their order;
\* e[i] is the place that the i-th of k had.
LeftFrom(S, k, l, n, D, e) ==
  /\ k \in Seq(S)
  /\ e \in [DOMAIN k -> 1 .. n]
  /\ \A i \in DOMAIN k : k[i] = l[e[i]] /\ e[i] \notin D
  /\ \A i, j \in DOMAIN k : i < j => e[i] < e[j]
  /\ \A i \in 1 .. n : i \notin D => \E j \in DOMAIN k : e[j] = i

LEMMA LeftNext ==
  ASSUME NEW S, NEW l \in Seq(S), NEW D, NEW n \in 1 .. Len(l),
         NEW k, NEW e, LeftFrom(S, k, l, n - 1, D, e)
  PROVE  \E d : LeftFrom(S, IF n \in D THEN k ELSE Append(k, l[n]), l, n, D, d)
<1>1. /\ k \in Seq(S) /\ e \in [DOMAIN k -> 1 .. n - 1] /\ DOMAIN k = 1 .. Len(k) /\ Len(k) \in Nat
      /\ \A i \in DOMAIN k : k[i] = l[e[i]] /\ e[i] \notin D
      /\ \A i, j \in DOMAIN k : i < j => e[i] < e[j]
      /\ \A i \in 1 .. n - 1 : i \notin D => \E j \in DOMAIN k : e[j] = i
  BY DEF LeftFrom
<1>2. n \in Nat /\ \A i \in 1 .. n : i = n \/ i \in 1 .. n - 1
  OBVIOUS
<1>3. CASE n \in D
  <2>1. e \in [DOMAIN k -> 1 .. n]
    BY <1>1, <1>2
  <2>2. \A i \in 1 .. n : i \notin D => \E j \in DOMAIN k : e[j] = i
    BY <1>1, <1>2, <1>3
  <2>3. LeftFrom(S, k, l, n, D, e)
    BY <1>1, <2>1, <2>2 DEF LeftFrom
  <2> QED
    BY <1>3, <2>3
<1>4. CASE n \notin D
  <2> DEFINE a == Append(k, l[n])
             m == Len(k) + 1
             d == [i \in 1 .. m |-> IF i = m THEN n ELSE e[i]]
  <2>1. /\ a \in Seq(S) /\ DOMAIN a = 1 .. m /\ m \in Nat /\ a[m] = l[n]
        /\ \A i \in 1 .. m : i = m \/ (i \in DOMAIN k /\ a[i] = k[i] /\ i < m)
    BY <1>1
  <2>2. /\ d[m] = n
        /\ \A i \in DOMAIN k : d[i] = e[i] /\ i \in 1 .. m /\ e[i] \in 1 .. n - 1
    BY <1>1
  <2>3. d \in [1 .. m -> 1 .. n]
    BY <1>1, <1>2, <2>1
  <2> HIDE DEF a, d, m
  <2>4. \A i \in 1 .. m : a[i] = l[d[i]] /\ d[i] \notin D
    BY <1>1, <1>4, <2>1, <2>2
  <2>5. ASSUME NEW i \in 1 .. m, NEW j \in 1 .. m, i < j
        PROVE  d[i] < d[j]
    <3>1. i # m
      BY <2>1, <2>5
    <3>2. i \in DOMAIN k
      BY <2>1, <3>1
    <3>3. CASE j = m
      BY <1>2, <2>2, <3>2, <3>3
    <3>4. CASE j # m
      BY <1>1, <2>1, <2>2, <2>5, <3>2, <3>4
    <3> QED
      BY <3>3, <3>4
  <2>6. ASSUME NEW i \in 1 .. n, i \notin D
        PROVE  \E j \in 1 .. m : d[j] = i
    <3>1. CASE i = n
      BY <2>1, <2>2, <3>1 DEF m
    <3>2. CASE i \in 1 .. n - 1
      BY <1>1, <2>2, <2>6, <3>2
    <3> QED
      BY <1>2, <3>1, <3>2
  <2>7. LeftFrom(S, a, l, n, D, d)
    BY <2>1, <2>3, <2>4, <2>5, <2>6 DEF LeftFrom
  <2> QED
    BY <1>4, <2>7 DEF a
<1> QED
  BY <1>3, <1>4

\* The elements that are left are the others, in their order.
LEMMA WithoutLeaves ==
  ASSUME NEW S, NEW l \in Seq(S), NEW D
  PROVE  \E e : LeftFrom(S, Without(l, D), l, Len(l), D, e)
<1> DEFINE f == CHOOSE f : f = [i \in 0 .. Len(l) |-> Left(l, D, i, f)]
           wrong == {i \in 0 .. Len(l) : ~ \E e : LeftFrom(S, f[i], l, i, D, e)}
<1>1. Len(l) \in Nat
  OBVIOUS
<1>2. f = [i \in 0 .. Len(l) |-> Left(l, D, i, f)]
  BY <1>1, LeftDefined
<1>3. Without(l, D) = f[Len(l)]
  BY DEF Without, Left
<1> HIDE DEF f
<1>4. \A i \in 0 .. Len(l) : f[i] = Left(l, D, i, f)
  BY <1>2
<1>5. CASE wrong # {}
  <2>1. wrong \in SUBSET Nat
    OBVIOUS
  <2>2. PICK i \in wrong : \A j \in wrong : i <= j
    <3> HIDE DEF wrong
    <3> QED
      BY <1>5, <2>1, LeastOf
  <2>3. CASE i = 0
    <3> DEFINE e == [j \in 1 .. 0 |-> 1]
    <3>1. f[0] = <<>>
      BY <1>1, <1>4 DEF Left
    <3>2. <<>> \in Seq(S) /\ DOMAIN <<>> = {} /\ 1 .. 0 = {}
      OBVIOUS
    <3>3. e \in [{} -> 1 .. 0]
      BY <3>2
    <3>4. LeftFrom(S, <<>>, l, 0, D, e)
      BY <3>2, <3>3 DEF LeftFrom
    <3> QED
      BY <2>2, <2>3, <3>1, <3>4
  <2>4. CASE i # 0
    <3>1. i \in 1 .. Len(l) /\ i - 1 \in 0 .. Len(l) /\ i - 1 < i
      BY <1>1, <2>2, <2>4
    <3>2. i - 1 \notin wrong
      BY <2>2, <3>1
    <3>3. PICK e : LeftFrom(S, f[i - 1], l, i - 1, D, e)
      BY <3>1, <3>2
    <3>4. f[i] = IF i \in D THEN f[i - 1] ELSE Append(f[i - 1], l[i])
      BY <1>4, <2>4, <3>1 DEF Left
    <3>5. \E d : LeftFrom(S, f[i], l, i, D, d)
      BY <3>1, <3>3, <3>4, LeftNext
    <3> QED
      BY <2>2, <3>5
  <2> QED
    BY <2>3, <2>4
<1>6. CASE wrong = {}
  BY <1>1, <1>3, <1>6
<1> QED
  BY <1>5, <1>6

\* What is left of a list: the elements at the other places, each once if it was.
LEMMA WithoutElements ==
  ASSUME NEW S, NEW l \in Seq(S), NEW D
  PROVE  /\ Without(l, D) \in Seq(S)
         /\ \A j \in DOMAIN Without(l, D) : \E i \in DOMAIN l \ D : Without(l, D)[j] = l[i]
         /\ \A i \in DOMAIN l \ D : \E j \in DOMAIN Without(l, D) : Without(l, D)[j] = l[i]
         /\ IsInjective(l) => IsInjective(Without(l, D))
<1> DEFINE r == Without(l, D)
<1>1. DOMAIN l = 1 .. Len(l) /\ Len(l) \in Nat
  OBVIOUS
<1>2. PICK e : LeftFrom(S, r, l, Len(l), D, e)
  BY WithoutLeaves
<1>3. /\ r \in Seq(S) /\ e \in [DOMAIN r -> DOMAIN l]
      /\ \A i \in DOMAIN r : r[i] = l[e[i]] /\ e[i] \notin D
      /\ \A i, j \in DOMAIN r : i < j => e[i] < e[j]
      /\ \A i \in DOMAIN l : i \notin D => \E j \in DOMAIN r : e[j] = i
  BY <1>1, <1>2 DEF LeftFrom
<1>4. DOMAIN r = 1 .. Len(r) /\ Len(r) \in Nat
  BY <1>3
<1> HIDE DEF r
<1>5. ASSUME IsInjective(l), NEW i \in DOMAIN r, NEW j \in DOMAIN r, r[i] = r[j]
      PROVE  i = j
  <2>1. e[i] = e[j] /\ e[i] \in DOMAIN l
    BY <1>3, <1>5 DEF IsInjective
  <2>2. i \in Nat /\ j \in Nat /\ e[i] \in Nat
    BY <1>1, <1>4, <2>1
  <2>3. ~(i < j) /\ ~(j < i)
    BY <1>3, <2>1, <2>2
  <2> QED
    BY <2>2, <2>3
<1>6. IsInjective(l) => IsInjective(r)
  BY <1>5 DEF IsInjective
<1> QED
  BY <1>3, <1>6 DEF r

------------------------------------------------------------------------------
(* Those who are told of an event.                                         *)

Subscriptions == [client : Clients \cup Trans, removed : BOOLEAN]
Notifiers == [evt_subs : Seq(Subscriptions), is_notifying : BOOLEAN]

\* Outside of a notification no entry is marked.
Quiet(n) == ~n.is_notifying /\ \A i \in DOMAIN n.evt_subs : ~n.evt_subs[i].removed

LEMMA NotifierFields ==
  ASSUME NEW n \in Notifiers
  PROVE  /\ n.evt_subs \in Seq(Subscriptions) /\ n.is_notifying \in BOOLEAN
         /\ n = [evt_subs |-> n.evt_subs, is_notifying |-> n.is_notifying]
         /\ DOMAIN n.evt_subs = 1 .. Len(n.evt_subs) /\ Len(n.evt_subs) \in Nat
         /\ \A i \in DOMAIN n.evt_subs :
              /\ n.evt_subs[i] \in Subscriptions
              /\ n.evt_subs[i].client \in Clients \cup Trans
              /\ n.evt_subs[i].removed \in BOOLEAN
         /\ \A l \in Seq(Subscriptions) :
              /\ [n EXCEPT !.evt_subs = l] \in Notifiers
              /\ [n EXCEPT !.evt_subs = l].evt_subs = l
              /\ [n EXCEPT !.evt_subs = l].is_notifying = n.is_notifying
         /\ \A b \in BOOLEAN :
              /\ [n EXCEPT !.is_notifying = b] \in Notifiers
              /\ [n EXCEPT !.is_notifying = b].evt_subs = n.evt_subs
              /\ [n EXCEPT !.is_notifying = b].is_notifying = b
<1>1. n.evt_subs \in Seq(Subscriptions) /\ n.is_notifying \in BOOLEAN
  BY DEF Notifiers
<1>2. ASSUME NEW i \in DOMAIN n.evt_subs
      PROVE  /\ n.evt_subs[i] \in Subscriptions
             /\ n.evt_subs[i].client \in Clients \cup Trans
             /\ n.evt_subs[i].removed \in BOOLEAN
  <2>1. n.evt_subs[i] \in Subscriptions
    BY <1>1
  <2> QED
    BY <2>1 DEF Subscriptions
<1> QED
  BY <1>1, <1>2 DEF Notifiers

\* Who is subscribed, of a list.
LEMMA SubscribedBy ==
  ASSUME NEW n, NEW c
  PROVE  c \in Subscribed(n) <=>
           \E i \in DOMAIN n.evt_subs : ~n.evt_subs[i].removed /\ n.evt_subs[i].client = c
  BY DEF Subscribed

\* A client that unsubscribes outside of a notification is erased.
LEMMA ErasedFromQuiet ==
  ASSUME NEW n \in Notifiers, Quiet(n), NEW c
  PROVE  /\ RemoveClient(n, c) \in Notifiers /\ Quiet(RemoveClient(n, c))
         /\ Subscribed(RemoveClient(n, c)) = Subscribed(n) \ {c}
<1> DEFINE l == n.evt_subs
           P == Places(n, c)
           w == Without(l, P)
           r == RemoveClient(n, c)
<1>1. l \in Seq(Subscriptions) /\ \A i \in DOMAIN l : ~l[i].removed
  BY NotifierFields DEF Quiet
<1>2. r = [n EXCEPT !.evt_subs = w]
  BY DEF RemoveClient, Quiet
<1>3. /\ w \in Seq(Subscriptions)
      /\ \A j \in DOMAIN w : \E i \in DOMAIN l \ P : w[j] = l[i]
      /\ \A i \in DOMAIN l \ P : \E j \in DOMAIN w : w[j] = l[i]
  <2>1. l \in Seq(Subscriptions)
    BY <1>1
  <2> HIDE DEF l, P
  <2> QED
    BY <2>1, WithoutElements
<1>4. r \in Notifiers /\ r.evt_subs = w /\ r.is_notifying = n.is_notifying
  <2> HIDE DEF w, r
  <2> QED
    BY <1>2, <1>3, NotifierFields
<1>5. \A i \in DOMAIN l : i \in P <=> l[i].client = c
  BY DEF Places
<1> HIDE DEF w, r, P, l
<1>6. \A j \in DOMAIN w : ~w[j].removed /\ w[j].client # c
  BY <1>1, <1>3, <1>5
<1>7. Quiet(r)
  BY <1>4, <1>6 DEF Quiet
<1>8. ASSUME NEW x
      PROVE  x \in Subscribed(r) <=> x \in Subscribed(n) \ {c}
  <2>1. x \in Subscribed(r) <=> \E j \in DOMAIN w : w[j].client = x
    BY <1>4, <1>6, SubscribedBy
  <2>2. x \in Subscribed(n) <=> \E i \in DOMAIN l : l[i].client = x
    BY <1>1, SubscribedBy DEF l
  <2>3. ASSUME x \in Subscribed(r)
        PROVE  x \in Subscribed(n) \ {c}
    BY <1>3, <1>6, <2>1, <2>2, <2>3
  <2>4. ASSUME x \in Subscribed(n) \ {c}
        PROVE  x \in Subscribed(r)
    <3>1. PICK i \in DOMAIN l : l[i].client = x
      BY <2>2, <2>4
    <3>2. i \in DOMAIN l \ P
      BY <1>5, <2>4, <3>1
    <3> QED
      BY <1>3, <2>1, <3>1, <3>2
  <2> QED
    BY <2>3, <2>4
<1>9. Subscribed(r) = Subscribed(n) \ {c}
  BY <1>8
<1> QED
  BY <1>4, <1>7, <1>9 DEF r

\* One that unsubscribes in a notification is marked, and no entry moves.
LEMMA MarkedWhenNotified ==
  ASSUME NEW n \in Notifiers, n.is_notifying, NEW c
  PROVE  /\ RemoveClient(n, c) \in Notifiers /\ RemoveClient(n, c).is_notifying
         /\ Len(RemoveClient(n, c).evt_subs) = Len(n.evt_subs)
         /\ \A i \in DOMAIN n.evt_subs :
              /\ RemoveClient(n, c).evt_subs[i].client = n.evt_subs[i].client
              /\ RemoveClient(n, c).evt_subs[i].removed <=>
                   n.evt_subs[i].removed \/ n.evt_subs[i].client = c
         /\ Subscribed(RemoveClient(n, c)) = Subscribed(n) \ {c}
<1> DEFINE l == n.evt_subs
           m == [i \in DOMAIN l |-> IF i \in Places(n, c) THEN [l[i] EXCEPT !.removed = TRUE] ELSE l[i]]
           r == RemoveClient(n, c)
<1>1. /\ l \in Seq(Subscriptions) /\ DOMAIN l = 1 .. Len(l) /\ Len(l) \in Nat
      /\ \A i \in DOMAIN l : l[i] \in Subscriptions
  BY NotifierFields
<1>2. r = [n EXCEPT !.evt_subs = m]
  BY DEF RemoveClient
<1>3. \A i \in DOMAIN l : i \in Places(n, c) <=> l[i].client = c
  BY DEF Places
<1>4. ASSUME NEW i \in DOMAIN l
      PROVE  /\ m[i] \in Subscriptions /\ m[i].client = l[i].client
             /\ m[i].removed <=> l[i].removed \/ l[i].client = c
  <2>1. l[i] \in Subscriptions
    BY <1>1
  <2>2. m[i] = IF l[i].client = c THEN [l[i] EXCEPT !.removed = TRUE] ELSE l[i]
    BY <1>3
  <2> HIDE DEF m, l
  <2>3. CASE l[i].client = c
    BY <2>1, <2>2, <2>3 DEF Subscriptions
  <2>4. CASE l[i].client # c
    BY <2>1, <2>2, <2>4 DEF Subscriptions
  <2> QED
    BY <2>3, <2>4
<1>5. DOMAIN m = DOMAIN l
  OBVIOUS
<1> HIDE DEF m
<1>6. m \in Seq(Subscriptions) /\ Len(m) = Len(l)
  <2>1. m \in [1 .. Len(l) -> Subscriptions]
    <3>1. m = [i \in DOMAIN l |-> m[i]]
      BY DEF m
    <3> QED
      BY <1>1, <1>4, <3>1
  <2>2. m \in Seq(Subscriptions)
    BY <1>1, <2>1, SeqDef
  <2> QED
    BY <1>1, <1>5, <2>2
<1>7. r \in Notifiers /\ r.evt_subs = m /\ r.is_notifying
  <2>1. m \in Seq(Subscriptions)
    BY <1>6
  <2> HIDE DEF r, l
  <2> QED
    BY <1>2, <2>1, NotifierFields
<1> HIDE DEF l, r
<1>8. Subscribed(r) = Subscribed(n) \ {c}
  <2> SUFFICES ASSUME NEW x
               PROVE  x \in Subscribed(r) <=> x \in Subscribed(n) \ {c}
    OBVIOUS
  <2>1. x \in Subscribed(r) <=> \E i \in DOMAIN m : ~m[i].removed /\ m[i].client = x
    BY <1>7, SubscribedBy
  <2>2. x \in Subscribed(n) <=> \E i \in DOMAIN l : ~l[i].removed /\ l[i].client = x
    BY SubscribedBy DEF l
  <2> QED
    BY <1>4, <1>5, <2>1, <2>2
<1> QED
  BY <1>4, <1>6, <1>7, <1>8 DEF l, r

LEMMA AddedToQuiet ==
  ASSUME NEW n \in Notifiers, Quiet(n), NEW c \in Clients \cup Trans
  PROVE  /\ AddClient(n, c) \in Notifiers /\ Quiet(AddClient(n, c))
         /\ Subscribed(AddClient(n, c)) = Subscribed(n) \cup {c}
<1> DEFINE l == n.evt_subs
           r == AddClient(n, c)
<1>1. l \in Seq(Subscriptions) /\ DOMAIN l = 1 .. Len(l) /\ Len(l) \in Nat /\ \A i \in DOMAIN l : ~l[i].removed
  BY NotifierFields DEF Quiet
<1>2. \A i \in DOMAIN l : i \in Places(n, c) <=> l[i].client = c
  BY DEF Places
<1>3. CASE Places(n, c) # {}
  <2>1. r = n
    BY <1>3 DEF AddClient
  <2>2. \E i \in DOMAIN l : l[i].client = c
    BY <1>2, <1>3 DEF Places
  <2>3. c \in Subscribed(n)
    BY <1>1, <2>2, SubscribedBy
  <2> QED
    BY <2>1, <2>3
<1>4. CASE Places(n, c) = {}
  <2> DEFINE e == Entry(c)
             a == Append(l, e)
  <2>1. e \in Subscriptions /\ e.client = c /\ ~e.removed
    BY DEF Entry, Subscriptions
  <2>2. r = [n EXCEPT !.evt_subs = a]
    BY <1>4 DEF AddClient
  <2> HIDE DEF e
  <2>3. /\ a \in Seq(Subscriptions) /\ DOMAIN a = 1 .. Len(l) + 1 /\ a[Len(l) + 1] = e
        /\ \A i \in DOMAIN l : a[i] = l[i]
    BY <1>1, <2>1
  <2>4. \A i \in DOMAIN a : i \in DOMAIN l \/ i = Len(l) + 1
    BY <1>1, <2>3
  <2> HIDE DEF a
  <2>5. r \in Notifiers /\ r.evt_subs = a /\ r.is_notifying = n.is_notifying
    <3> HIDE DEF r, l
    <3> QED
      BY <2>2, <2>3, NotifierFields
  <2> HIDE DEF r, l
  <2>6. Quiet(r)
    BY <1>1, <2>1, <2>3, <2>4, <2>5 DEF Quiet
  <2>7. \A i \in DOMAIN l : i \in DOMAIN a
    BY <1>1, <2>3
  <2>8. Subscribed(r) = Subscribed(n) \cup {c}
    <3> SUFFICES ASSUME NEW x
                 PROVE  x \in Subscribed(r) <=> x \in Subscribed(n) \cup {c}
      OBVIOUS
    <3>1. x \in Subscribed(r) <=> \E i \in DOMAIN a : ~a[i].removed /\ a[i].client = x
      BY <2>5, SubscribedBy
    <3>2. x \in Subscribed(n) <=> \E i \in DOMAIN l : ~l[i].removed /\ l[i].client = x
      BY SubscribedBy DEF l
    <3>3. Len(l) + 1 \in DOMAIN a
      BY <1>1, <2>3
    <3> QED
      BY <2>1, <2>3, <2>4, <2>7, <3>1, <3>2, <3>3
  <2> QED
    BY <2>5, <2>6, <2>8 DEF r
<1> QED
  BY <1>3, <1>4

\* A notification that begins takes the list as it is; when it ends the marked
\* entries go.
LEMMA NotificationBegins ==
  ASSUME NEW n \in Notifiers
  PROVE  /\ BeginNotify(n) \in Notifiers /\ BeginNotify(n).is_notifying
         /\ BeginNotify(n).evt_subs = n.evt_subs
         /\ Subscribed(BeginNotify(n)) = Subscribed(n)
<1>1. /\ BeginNotify(n) \in Notifiers /\ BeginNotify(n).is_notifying
      /\ BeginNotify(n).evt_subs = n.evt_subs
  BY NotifierFields DEF BeginNotify
<1> QED
  BY <1>1 DEF Subscribed

LEMMA NotificationEnds ==
  ASSUME NEW n \in Notifiers
  PROVE  /\ EndNotify(n) \in Notifiers /\ Quiet(EndNotify(n))
         /\ Subscribed(EndNotify(n)) = Subscribed(n)
<1> DEFINE l == n.evt_subs
           P == {i \in DOMAIN l : l[i].removed}
           w == Without(l, P)
           r == EndNotify(n)
<1>1. l \in Seq(Subscriptions) /\ \A i \in DOMAIN l : l[i].removed \in BOOLEAN
  BY NotifierFields
<1>2. r = [evt_subs |-> w, is_notifying |-> FALSE]
  BY DEF EndNotify
<1>3. /\ w \in Seq(Subscriptions)
      /\ \A j \in DOMAIN w : \E i \in DOMAIN l \ P : w[j] = l[i]
      /\ \A i \in DOMAIN l \ P : \E j \in DOMAIN w : w[j] = l[i]
  <2> HIDE DEF l, P
  <2> QED
    BY <1>1, WithoutElements
<1> HIDE DEF w, r
<1>4. r \in Notifiers /\ r.evt_subs = w /\ ~r.is_notifying
  BY <1>2, <1>3 DEF Notifiers
<1>5. \A i \in DOMAIN l : i \in P <=> l[i].removed
  OBVIOUS
<1> HIDE DEF P, l
<1>6. \A j \in DOMAIN w : ~w[j].removed
  BY <1>3, <1>5
<1>7. Quiet(r)
  BY <1>4, <1>6 DEF Quiet
<1>8. Subscribed(r) = Subscribed(n)
  <2> SUFFICES ASSUME NEW x
               PROVE  x \in Subscribed(r) <=> x \in Subscribed(n)
    OBVIOUS
  <2>1. x \in Subscribed(r) <=> \E j \in DOMAIN w : w[j].client = x
    BY <1>4, <1>6, SubscribedBy
  <2>2. x \in Subscribed(n) <=> \E i \in DOMAIN l : ~l[i].removed /\ l[i].client = x
    BY SubscribedBy DEF l
  <2> QED
    BY <1>3, <1>5, <2>1, <2>2
<1> QED
  BY <1>4, <1>7, <1>8 DEF r

------------------------------------------------------------------------------
(* The clients and the transactions; S are the subsystems, B those of which *)
(* a dump is in progress.                                                  *)

Conns == [state : {"absent", "CTS_IDLE", "CTS_EXECUTING"}, reading : BOOLEAN,
          cur_trans : Trans \cup {NoTrans}]
Parts == {"start", "dump", "move", "timer", "modem", "wcn"}
Records(S) == [type : Global \cup OfModem \cup {"none"}, client : Clients \cup {NoClient},
               state : {"TS_NOT_BEGIN", "TS_EXECUTING"}, wait : [S -> Parts \cup {"none"}],
               missing : Int]
Ctls(S) == [conn : [Clients -> Conns], trans : [Trans -> Records(S)], transactions : Seq(Trans),
            start : [S -> Notifiers], end : [S -> Notifiers]]

LiveIn(k, t) == k.trans[t].type # "none"

\* What t waits for s to do.
Awaits(k, t, s) == IF LiveIn(k, t) THEN k.trans[t].wait[s] ELSE "none"

\* A transaction and its client know each other.
Coupled(k) ==
  /\ \A t \in Trans : LiveIn(k, t) =>
       /\ k.trans[t].client \in Clients
       /\ k.conn[k.trans[t].client].state = "CTS_EXECUTING"
       /\ k.conn[k.trans[t].client].cur_trans = t
  /\ \A c \in Clients :
       /\ k.conn[c].reading <=> k.conn[c].state = "CTS_IDLE"
       /\ k.conn[c].state = "CTS_EXECUTING" =>
            /\ k.conn[c].cur_trans \in Trans /\ LiveIn(k, k.conn[c].cur_trans)
            /\ k.trans[k.conn[c].cur_trans].client = c

\* What a transaction may wait for.
MayAwait(type, s, w) ==
  \/ w = "none"
  \/ type = "LOG_COLLECT" /\ (w \in {"start", "dump", "move"} \/ (w = "timer" /\ s = "MODEM"))
  \/ type \in OfModem \cup {"ENABLE_LOG", "DISABLE_LOG"} /\ w = "modem" /\ s = "MODEM"
  \/ type = "DISABLE_LOG" /\ w = "wcn" /\ s = "WCN"
  \/ type = "WCN_LAST_LOG" /\ w = "timer" /\ s = "WCN"

Awaited(r, S) == {s \in S : r.wait[s] # "none"}

\* One that has begun waits for something, a collection for as much as it counts.
Proper(r, S) ==
  r.type # "none" =>
    /\ r.state = "TS_NOT_BEGIN" => r.type # "LOG_COLLECT" /\ Awaited(r, S) = {}
    /\ r.state = "TS_EXECUTING" => Awaited(r, S) # {}
    /\ r.type = "LOG_COLLECT" => r.missing = Cardinality(Awaited(r, S))
    /\ \A s \in S : MayAwait(r.type, s, r.wait[s])

DumpsAwaited(r, S, B) ==
  r.type # "none" => \A s \in S : r.wait[s] \in {"dump", "wcn"} => s \in B

\* The queue has the global transactions; of those that look at it one executes.
QueueInv(k) ==
  /\ IsInjective(k.transactions)
  /\ Range(k.transactions) = {t \in Trans : k.trans[t].type \in Global}

Exclusive == {"ENABLE_LOG", "DISABLE_LOG", "WCN_LAST_LOG"}
Runs(r) == r.type \in Exclusive /\ r.state = "TS_EXECUTING"
OneRuns(k) == \A t, u \in Trans : Runs(k.trans[t]) /\ Runs(k.trans[u]) => t = u

Core(k, S, B) ==
  /\ k \in Ctls(S)
  /\ Coupled(k)
  /\ \A t \in Trans : Proper(k.trans[t], S)
  /\ \A t \in Trans : DumpsAwaited(k.trans[t], S, B)
  /\ QueueInv(k)
  /\ OneRuns(k)

LEMMA CtlFields ==
  ASSUME NEW S, NEW k \in Ctls(S)
  PROVE  /\ k.conn \in [Clients -> Conns]
         /\ k.trans \in [Trans -> Records(S)]
         /\ k.transactions \in Seq(Trans)
         /\ k.start \in [S -> Notifiers] /\ k.end \in [S -> Notifiers]
  BY DEF Ctls

LEMMA RecordFields ==
  ASSUME NEW S, NEW r \in Records(S)
  PROVE  /\ r.type \in Global \cup OfModem \cup {"none"}
         /\ r.client \in Clients \cup {NoClient}
         /\ r.state \in {"TS_NOT_BEGIN", "TS_EXECUTING"}
         /\ r.wait \in [S -> Parts \cup {"none"}]
         /\ r.missing \in Int
  BY DEF Records

\* What a state is made of is all that matters.
LEMMA CoreFrom ==
  ASSUME NEW S, NEW B, NEW k, Core(k, S, B),
         NEW r \in Ctls(S), r.conn = k.conn, r.trans = k.trans, r.transactions = k.transactions
  PROVE  Core(r, S, B) /\ \A t \in Trans, s \in S : Awaits(r, t, s) = Awaits(k, t, s)
<1>1. Coupled(r) /\ QueueInv(r) /\ OneRuns(r)
  BY DEF Core, Coupled, QueueInv, OneRuns, LiveIn
<1>2. \A t \in Trans : Proper(r.trans[t], S) /\ DumpsAwaited(r.trans[t], S, B)
  BY DEF Core
<1>3. \A t \in Trans, s \in S : Awaits(r, t, s) = Awaits(k, t, s)
  BY DEF Awaits, LiveIn
<1> QED
  BY <1>1, <1>2, <1>3 DEF Core

\* The dumps that are awaited are those that are in progress.
LEMMA CoreBound ==
  ASSUME NEW S, NEW B, NEW C, NEW k, Core(k, S, B),
         \A t \in Trans, s \in S : Awaits(k, t, s) \in {"dump", "wcn"} => s \in C
  PROVE  Core(k, S, C)
<1>1. \A t \in Trans : DumpsAwaited(k.trans[t], S, C)
  BY DEF DumpsAwaited, Awaits, LiveIn
<1> QED
  BY <1>1 DEF Core

\* The other transactions and the lists are as before; the client of t, if t has
\* ended, is there.
Apart(k, r, t) ==
  /\ r.start = k.start /\ r.end = k.end
  /\ \A c \in Clients : r.conn[c].state = "absent" <=> k.conn[c].state = "absent"
  /\ \A u \in Trans : u # t => r.trans[u] = k.trans[u]
  /\ r.trans[t].type \in {k.trans[t].type, "none"}

\* A transaction that goes on with another record.
LEMMA GoesOn ==
  ASSUME NEW S, NEW B, NEW k, Core(k, S, B), NEW t \in Trans, LiveIn(k, t),
         NEW rec \in Records(S), rec.type = k.trans[t].type, rec.client = k.trans[t].client,
         rec.state = k.trans[t].state, Proper(rec, S), DumpsAwaited(rec, S, B)
  PROVE  LET r == [k EXCEPT !.trans[t] = rec] IN
         /\ Core(r, S, B) /\ Apart(k, r, t) /\ LiveIn(r, t) /\ r.trans[t] = rec
<1> DEFINE r == [k EXCEPT !.trans[t] = rec]
<1>1. k \in Ctls(S)
  BY DEF Core
<1>2. /\ r \in Ctls(S) /\ r.conn = k.conn /\ r.transactions = k.transactions
      /\ r.start = k.start /\ r.end = k.end /\ r.trans = [k.trans EXCEPT ![t] = rec]
  BY <1>1 DEF Ctls
<1>3. /\ r.trans[t] = rec /\ \A u \in Trans : u # t => r.trans[u] = k.trans[u]
  BY <1>1, <1>2, CtlFields
<1> HIDE DEF r
<1>4. \A u \in Trans : /\ r.trans[u].type = k.trans[u].type
                       /\ r.trans[u].client = k.trans[u].client
                       /\ r.trans[u].state = k.trans[u].state
  BY <1>3
<1>5. Coupled(r)
  BY <1>2, <1>4 DEF Core, Coupled, LiveIn
<1>6. QueueInv(r)
  BY <1>2, <1>4 DEF Core, QueueInv
<1>7. OneRuns(r)
  BY <1>4 DEF Core, OneRuns, Runs
<1>8. \A u \in Trans : Proper(r.trans[u], S) /\ DumpsAwaited(r.trans[u], S, B)
  BY <1>3 DEF Core
<1>9. Core(r, S, B)
  BY <1>2, <1>5, <1>6, <1>7, <1>8 DEF Core
<1>10. Apart(k, r, t) /\ LiveIn(r, t)
  BY <1>2, <1>3, <1>4 DEF Apart, LiveIn
<1> QED
  BY <1>3, <1>9, <1>10 DEF r

\* A transaction that ends: its client is answered, and it is in no queue.
LEMMA TransResultKeeps ==
  ASSUME NEW B, NEW k, Core(k, Subsystems, B), NEW t \in Trans, LiveIn(k, t),
         NEW rec \in Records(Subsystems), rec.client = k.trans[t].client,
         NEW q \in Seq(Trans), IsInjective(q), Range(q) = Range(k.transactions) \ {t},
         NEW k1, k1 = [k EXCEPT !.trans[t] = rec, !.transactions = q]
  PROVE  LET r == TransResult(k1, t) IN
         Core(r, Subsystems, B) /\ Apart(k, r, t) /\ ~LiveIn(r, t)
<1> DEFINE S == Subsystems
           r == TransResult(k1, t)
           c == k.trans[t].client
           idle == [k.conn[c] EXCEPT !.state = "CTS_IDLE", !.reading = TRUE, !.cur_trans = NoTrans]
           over == [NoTransaction EXCEPT !.wait = rec.wait]
<1>1. /\ k \in Ctls(S) /\ Coupled(k) /\ QueueInv(k) /\ OneRuns(k)
      /\ \A u \in Trans : Proper(k.trans[u], S) /\ DumpsAwaited(k.trans[u], S, B)
  BY DEF Core
<1>2. c \in Clients /\ k.conn[c].state = "CTS_EXECUTING" /\ k.conn[c].cur_trans = t /\ k.conn[c] \in Conns
  BY <1>1, CtlFields DEF Coupled
<1>3. /\ k1 \in Ctls(S) /\ k1.conn = k.conn /\ k1.transactions = q
      /\ k1.start = k.start /\ k1.end = k.end /\ k1.trans = [k.trans EXCEPT ![t] = rec]
  BY <1>1 DEF Ctls
<1>4. k1.trans[t] = rec
  BY <1>1, <1>3, CtlFields
<1>5. r = [k1 EXCEPT !.conn[c] = idle, !.trans[t] = over]
  BY <1>2, <1>3, <1>4 DEF TransResult
<1>6. over \in Records(S) /\ over.type = "none"
  BY RecordFields DEF NoTransaction, Records
<1>7. /\ idle \in Conns /\ idle.state = "CTS_IDLE" /\ idle.reading
  BY <1>2 DEF Conns
<1> HIDE DEF over, idle, r, c, S
<1>8. /\ r \in Ctls(S) /\ r.transactions = q /\ r.start = k.start /\ r.end = k.end
      /\ r.conn = [k.conn EXCEPT ![c] = idle] /\ r.trans = [k1.trans EXCEPT ![t] = over]
  BY <1>2, <1>3, <1>5, <1>6, <1>7 DEF Ctls
<1>9. /\ r.trans[t] = over /\ \A u \in Trans : u # t => r.trans[u] = k.trans[u]
      /\ r.conn[c] = idle /\ \A d \in Clients : d # c => r.conn[d] = k.conn[d]
  BY <1>1, <1>2, <1>3, <1>8, CtlFields
<1>10. Coupled(r)
  <2>1. ASSUME NEW u \in Trans, LiveIn(r, u)
        PROVE  /\ r.trans[u].client \in Clients
               /\ r.conn[r.trans[u].client].state = "CTS_EXECUTING"
               /\ r.conn[r.trans[u].client].cur_trans = u
    <3>1. u # t /\ r.trans[u] = k.trans[u] /\ LiveIn(k, u)
      BY <1>6, <1>9, <2>1 DEF LiveIn
    <3>2. k.trans[u].client \in Clients /\ k.conn[k.trans[u].client].cur_trans = u
          /\ k.conn[k.trans[u].client].state = "CTS_EXECUTING"
      BY <1>1, <3>1 DEF Coupled
    <3>3. k.trans[u].client # c
      BY <1>2, <3>1, <3>2
    <3> QED
      BY <1>9, <3>1, <3>2, <3>3
  <2>2. ASSUME NEW d \in Clients
        PROVE  /\ r.conn[d].reading <=> r.conn[d].state = "CTS_IDLE"
               /\ r.conn[d].state = "CTS_EXECUTING" =>
                    /\ r.conn[d].cur_trans \in Trans /\ LiveIn(r, r.conn[d].cur_trans)
                    /\ r.trans[r.conn[d].cur_trans].client = d
    <3>1. CASE d = c
      BY <1>7, <1>9, <3>1
    <3>2. CASE d # c
      <4> DEFINE u == k.conn[d].cur_trans
      <4>1. r.conn[d] = k.conn[d]
        BY <1>9, <3>2
      <4>2. /\ k.conn[d].reading <=> k.conn[d].state = "CTS_IDLE"
            /\ k.conn[d].state = "CTS_EXECUTING" =>
                 u \in Trans /\ LiveIn(k, u) /\ k.trans[u].client = d
        BY <1>1 DEF Coupled
      <4>3. ASSUME k.conn[d].state = "CTS_EXECUTING"
            PROVE  u \in Trans /\ LiveIn(r, u) /\ r.trans[u].client = d
        <5>1. u \in Trans /\ LiveIn(k, u) /\ k.trans[u].client = d
          BY <4>2, <4>3
        <5>2. u # t
          BY <3>2, <5>1 DEF c
        <5> QED
          BY <1>9, <5>1, <5>2 DEF LiveIn
      <4> QED
        BY <4>1, <4>2, <4>3
    <3> QED
      BY <3>1, <3>2
  <2> QED
    BY <2>1, <2>2 DEF Coupled
<1>11. QueueInv(r)
  <2>1. r.trans[t].type \notin Global
    BY <1>6, <1>9 DEF Global
  <2>2. Range(k.transactions) = {u \in Trans : k.trans[u].type \in Global}
    BY <1>1 DEF QueueInv
  <2>3. Range(q) = {u \in Trans : r.trans[u].type \in Global}
    BY <1>9, <2>1, <2>2
  <2> QED
    BY <1>8, <2>3 DEF QueueInv
<1>12. OneRuns(r)
  <2>1. ~Runs(r.trans[t])
    BY <1>6, <1>9 DEF Runs, Exclusive
  <2> QED
    BY <1>1, <1>9, <2>1 DEF OneRuns
<1>13. ASSUME NEW u \in Trans
       PROVE  Proper(r.trans[u], S) /\ DumpsAwaited(r.trans[u], S, B)
  <2>1. CASE u = t
    BY <1>6, <1>9, <2>1 DEF Proper, DumpsAwaited
  <2>2. CASE u # t
    BY <1>1, <1>9, <2>2
  <2> QED
    BY <2>1, <2>2
<1>14. Core(r, S, B)
  BY <1>8, <1>10, <1>11, <1>12, <1>13 DEF Core
<1>15. Apart(k, r, t) /\ ~LiveIn(r, t)
  <2>1. ASSUME NEW d \in Clients
        PROVE  r.conn[d].state = "absent" <=> k.conn[d].state = "absent"
    <3>1. CASE d = c
      BY <1>2, <1>7, <1>9, <3>1
    <3>2. CASE d # c
      BY <1>9, <3>2
    <3> QED
      BY <3>1, <3>2
  <2> QED
    BY <1>6, <1>8, <1>9, <2>1 DEF Apart, LiveIn
<1> QED
  BY <1>14, <1>15 DEF r, S

\* ... a global one, whatever is written in it before it finishes.
LEMMA FinishKeeps ==
  ASSUME NEW B, NEW k, Core(k, Subsystems, B), NEW t \in Trans, LiveIn(k, t),
         NEW rec \in Records(Subsystems), rec.client = k.trans[t].client
  PROVE  LET r == Finish([k EXCEPT !.trans[t] = rec], t) IN
         Core(r, Subsystems, B) /\ Apart(k, r, t) /\ ~LiveIn(r, t)
<1> DEFINE l == k.transactions
           gone == {i \in DOMAIN l : l[i] = t}
           q == Without(l, gone)
           k0 == [k EXCEPT !.trans[t] = rec]
           k1 == [k0 EXCEPT !.transactions = q]
<1>1. k \in Ctls(Subsystems) /\ QueueInv(k) /\ l \in Seq(Trans)
  BY CtlFields DEF Core
<1>2. k0.transactions = l
  BY <1>1 DEF Ctls
<1>3. Finish(k0, t) = TransResult(k1, t)
  BY <1>2 DEF Finish
<1>4. k1 = [k EXCEPT !.trans[t] = rec, !.transactions = q]
  BY <1>1 DEF Ctls
<1>5. /\ q \in Seq(Trans)
      /\ \A j \in DOMAIN q : \E i \in DOMAIN l \ gone : q[j] = l[i]
      /\ \A i \in DOMAIN l \ gone : \E j \in DOMAIN q : q[j] = l[i]
      /\ IsInjective(l) => IsInjective(q)
  <2>1. l \in Seq(Trans)
    BY <1>1
  <2> HIDE DEF l, gone
  <2> QED
    BY <2>1, WithoutElements
<1>6. \A i \in DOMAIN l : i \in gone <=> l[i] = t
  OBVIOUS
<1> HIDE DEF q, gone
<1>7. Range(q) = Range(l) \ {t}
  BY <1>5, <1>6 DEF Range
<1>8. IsInjective(q)
  BY <1>1, <1>5 DEF QueueInv
<1> HIDE DEF k0, k1
<1>9. LET r == TransResult(k1, t) IN
      Core(r, Subsystems, B) /\ Apart(k, r, t) /\ ~LiveIn(r, t)
  BY <1>1, <1>4, <1>5, <1>7, <1>8, TransResultKeeps
<1> QED
  BY <1>3, <1>9 DEF k0

\* Only that t waits for s has changed.
Reported(k, r, t, s, S, w) ==
  \A u \in Trans, x \in S : Awaits(r, u, x) = IF u = t /\ x = s THEN w ELSE Awaits(k, u, x)

\* A part of a collection has reported: it is not awaited any more, and with the
\* last one the collection ends.
LEMMA LogColResultKeeps ==
  ASSUME NEW B, NEW k, Core(k, Subsystems, B), IsFiniteSet(Subsystems),
         NEW t \in Trans, k.trans[t].type = "LOG_COLLECT",
         NEW s \in Subsystems, k.trans[t].wait[s] # "none"
  PROVE  LET r == LogColResult(k, t, s) IN
         Core(r, Subsystems, B) /\ Apart(k, r, t) /\ Reported(k, r, t, s, Subsystems, "none")
<1> DEFINE S == Subsystems
           old == k.trans[t]
           rec == [old EXCEPT !.wait[s] = "none", !.missing = @ - 1]
           k1 == [k EXCEPT !.trans[t] = rec]
           r == LogColResult(k, t, s)
<1>1. k \in Ctls(S) /\ old \in Records(S) /\ LiveIn(k, t)
  BY CtlFields DEF Core, LiveIn
<1>2. Proper(old, S) /\ DumpsAwaited(old, S, B)
  BY DEF Core
<1>3. /\ rec \in Records(S) /\ rec.type = old.type /\ rec.client = old.client /\ rec.state = old.state
      /\ rec.wait = [old.wait EXCEPT ![s] = "none"] /\ rec.missing = old.missing - 1
  <2> DEFINE wait == [old.wait EXCEPT ![s] = "none"]
  <2>1. wait \in [S -> Parts \cup {"none"}] /\ old.missing - 1 \in Int
    BY <1>1, RecordFields
  <2>2. rec = [old EXCEPT !.wait = wait, !.missing = old.missing - 1]
    OBVIOUS
  <2> HIDE DEF rec, wait, old
  <2>3. /\ rec \in Records(S) /\ rec.type = old.type /\ rec.client = old.client
        /\ rec.state = old.state /\ rec.wait = wait /\ rec.missing = old.missing - 1
    BY <1>1, <2>1, <2>2 DEF Records
  <2> QED
    BY <2>3 DEF wait
<1>4. rec.wait[s] = "none" /\ \A x \in S : x # s => rec.wait[x] = old.wait[x]
  BY <1>1, <1>3, RecordFields
<1>5. k1.trans[t] = rec
  BY <1>1 DEF Ctls
<1>6. r = IF rec.missing = 0 THEN Finish(k1, t) ELSE k1
  <2>1. r = IF k1.trans[t].missing = 0 THEN Finish(k1, t) ELSE k1
    BY DEF LogColResult
  <2> HIDE DEF r, k1, rec
  <2> QED
    BY <1>5, <2>1
<1> HIDE DEF rec, r, k1
<1>7. Awaited(rec, S) = Awaited(old, S) \ {s} /\ s \in Awaited(old, S)
  BY <1>4 DEF Awaited
<1>8. IsFiniteSet(Awaited(old, S))
  BY FS_Subset DEF Awaited
<1>9. rec.missing = Cardinality(Awaited(rec, S)) /\ IsFiniteSet(Awaited(rec, S))
  <2>1. old.missing = Cardinality(Awaited(old, S))
    BY <1>2 DEF Proper
  <2>2. /\ IsFiniteSet(Awaited(old, S) \ {s})
        /\ Cardinality(Awaited(old, S) \ {s}) = Cardinality(Awaited(old, S)) - 1
    BY <1>7, <1>8, FS_RemoveElement
  <2> QED
    BY <1>3, <1>7, <2>1, <2>2
<1>10. rec.missing = 0 <=> Awaited(rec, S) = {}
  BY <1>9, FS_EmptySet
<1>11. CASE rec.missing = 0
  <2>1. Core(r, S, B) /\ Apart(k, r, t) /\ ~LiveIn(r, t)
    BY <1>1, <1>3, <1>6, <1>11, FinishKeeps DEF k1
  <2>2. ASSUME NEW u \in Trans, NEW x \in S
        PROVE  Awaits(r, u, x) = IF u = t /\ x = s THEN "none" ELSE Awaits(k, u, x)
    <3>1. CASE u # t
      BY <2>1, <3>1 DEF Apart, Awaits, LiveIn
    <3>2. CASE u = t
      <4>1. x = s \/ old.wait[x] = "none"
        BY <1>4, <1>10, <1>11 DEF Awaited
      <4> QED
        BY <2>1, <3>2, <4>1 DEF Awaits
    <3> QED
      BY <3>1, <3>2
  <2> QED
    BY <2>1, <2>2 DEF Reported, r
<1>12. CASE rec.missing # 0
  <2>1. Proper(rec, S)
    <3>1. rec.state # "TS_NOT_BEGIN"
      BY <1>2, <1>3 DEF Proper
    <3>2. \A x \in S : MayAwait(rec.type, x, rec.wait[x])
      BY <1>2, <1>3, <1>4 DEF Proper, MayAwait
    <3> QED
      BY <1>9, <1>10, <1>12, <3>1, <3>2 DEF Proper
  <2>2. DumpsAwaited(rec, S, B)
    BY <1>2, <1>3, <1>4 DEF DumpsAwaited
  <2>3. Core(r, S, B) /\ Apart(k, r, t) /\ LiveIn(r, t) /\ r.trans[t] = rec
    BY <1>1, <1>3, <1>6, <1>12, <2>1, <2>2, GoesOn DEF k1
  <2>4. ASSUME NEW u \in Trans, NEW x \in S
        PROVE  Awaits(r, u, x) = IF u = t /\ x = s THEN "none" ELSE Awaits(k, u, x)
    BY <1>1, <1>4, <2>3 DEF Apart, Awaits, LiveIn
  <2> QED
    BY <2>3, <2>4 DEF Reported, r
<1> QED
  BY <1>11, <1>12

\* A part of a collection that waits for something else.
LEMMA WaitsOn ==
  ASSUME NEW S, NEW B, NEW k, Core(k, S, B),
         NEW t \in Trans, k.trans[t].type = "LOG_COLLECT",
         NEW s \in S, k.trans[t].wait[s] # "none",
         NEW w \in {"dump", "move"}, w = "dump" => s \in B
  PROVE  LET r == [k EXCEPT !.trans[t] = [@ EXCEPT !.wait[s] = w]] IN
         Core(r, S, B) /\ Apart(k, r, t) /\ Reported(k, r, t, s, S, w)
<1> DEFINE old == k.trans[t]
           rec == [old EXCEPT !.wait[s] = w]
           r == [k EXCEPT !.trans[t] = rec]
<1>1. k \in Ctls(S) /\ old \in Records(S) /\ LiveIn(k, t)
  BY CtlFields DEF Core, LiveIn
<1>2. Proper(old, S) /\ DumpsAwaited(old, S, B)
  BY DEF Core
<1>3. /\ rec \in Records(S) /\ rec.type = old.type /\ rec.client = old.client /\ rec.state = old.state
      /\ rec.wait = [old.wait EXCEPT ![s] = w] /\ rec.missing = old.missing
  BY <1>1 DEF Records, Parts
<1>4. rec.wait[s] = w /\ \A x \in S : x # s => rec.wait[x] = old.wait[x]
  BY <1>1, <1>3, RecordFields
<1> HIDE DEF rec
<1>5. Awaited(rec, S) = Awaited(old, S)
  BY <1>4 DEF Awaited
<1>6. Proper(rec, S)
  BY <1>2, <1>3, <1>4, <1>5 DEF Proper, MayAwait
<1>7. DumpsAwaited(rec, S, B)
  BY <1>2, <1>3, <1>4 DEF DumpsAwaited
<1>8. Core(r, S, B) /\ Apart(k, r, t) /\ LiveIn(r, t) /\ r.trans[t] = rec
  <2> HIDE DEF old
  <2>1. rec.type = k.trans[t].type /\ rec.client = k.trans[t].client /\ rec.state = k.trans[t].state
    BY <1>3 DEF old
  <2> QED
    BY <1>1, <1>3, <1>6, <1>7, <2>1, GoesOn
<1> HIDE DEF r
<1>9. Reported(k, r, t, s, S, w)
  BY <1>1, <1>4, <1>8 DEF Apart, Awaits, LiveIn, Reported
<1> QED
  BY <1>8, <1>9 DEF r, rec

LEMMA StartLogConveyKeeps ==
  ASSUME NEW B, NEW k, Core(k, Subsystems, B), IsFiniteSet(Subsystems),
         NEW t \in Trans, k.trans[t].type = "LOG_COLLECT",
         NEW s \in Subsystems, k.trans[t].wait[s] # "none", NEW out
  PROVE  LET r == StartLogConvey(k, t, s, out) IN
         /\ Core(r, Subsystems, B) /\ Apart(k, r, t)
         /\ \E w \in {"none", "move"} : Reported(k, r, t, s, Subsystems, w)
<1>1. CASE out = "done"
  BY <1>1, LogColResultKeeps DEF StartLogConvey
<1>2. CASE out # "done"
  <2> DEFINE r == [k EXCEPT !.trans[t] = [@ EXCEPT !.wait[s] = "move"]]
  <2>1. Core(r, Subsystems, B) /\ Apart(k, r, t) /\ Reported(k, r, t, s, Subsystems, "move")
    BY WaitsOn
  <2>2. StartLogConvey(k, t, s, out) = r
    BY <1>2 DEF StartLogConvey
  <2> HIDE DEF r
  <2> QED
    BY <2>1, <2>2
<1> QED
  BY <1>1, <1>2

------------------------------------------------------------------------------
(* Who is told of dumps.                                                   *)

\* A client that is told of the start of dumps is connected; the transactions that
\* are told wait for the start or the end of the dump.
ToldInv(k, S) ==
  \A s \in S :
    /\ \A c \in Clients : c \in Subscribed(k.start[s]) => k.conn[c].state # "absent"
    /\ \A t \in Trans : t \in Subscribed(k.start[s]) => Awaits(k, t, s) = "start"
    /\ \A t \in Trans : t \in Subscribed(k.end[s]) <=> Awaits(k, t, s) \in {"start", "dump"}

\* Nobody is being told, but for the starts outside of A and the ends outside of E.
QuietBut(k, A, E) == (\A s \in A : Quiet(k.start[s])) /\ (\A s \in E : Quiet(k.end[s]))

\* What a callback leaves alone: transactions that are not collections, and no
\* new one comes.
OnlyCollections(k, r) ==
  \A t \in Trans :
    /\ k.trans[t].type # "LOG_COLLECT" => r.trans[t] = k.trans[t]
    /\ r.trans[t].type \in {k.trans[t].type, "none"}

LEMMA AwaitsDump ==
  ASSUME NEW S, NEW B, NEW k, Core(k, S, B), NEW t \in Trans, NEW s \in S,
         Awaits(k, t, s) \in {"start", "dump", "move"}
  PROVE  /\ k.trans[t].type = "LOG_COLLECT"
         /\ k.trans[t].wait[s] = Awaits(k, t, s) /\ k.trans[t].wait[s] # "none"
<1>1. LiveIn(k, t) /\ k.trans[t].wait[s] = Awaits(k, t, s) /\ k.trans[t].wait[s] # "none"
  BY DEF Awaits
<1>2. MayAwait(k.trans[t].type, s, k.trans[t].wait[s])
  BY <1>1 DEF Core, Proper, LiveIn
<1> QED
  BY <1>1, <1>2 DEF MayAwait

\* The callback of a collection that is told of the start of a dump of s.
LEMMA DumpStartCallbackKeeps ==
  ASSUME NEW S, NEW B, NEW k, Core(k, S, B), ToldInv(k, S), NEW s \in S, s \in B,
         QuietBut(k, S \ {s}, S), k.start[s].is_notifying,
         NEW t \in Trans, t \in Subscribed(k.start[s])
  PROVE  LET r == DumpStartCallback(k, t, s) IN
         /\ Core(r, S, B) /\ ToldInv(r, S) /\ QuietBut(r, S \ {s}, S) /\ OnlyCollections(k, r)
         /\ r.start[s] = RemoveClient(k.start[s], t)
<1> DEFINE k1 == [k EXCEPT !.trans[t] = [@ EXCEPT !.wait[s] = "dump"]]
           n == RemoveClient(k.start[s], t)
           r == DumpStartCallback(k, t, s)
<1>1. k \in Ctls(S) /\ k.start[s] \in Notifiers
  BY CtlFields DEF Core
<1>2. Awaits(k, t, s) = "start"
  BY DEF ToldInv
<1>3. k.trans[t].type = "LOG_COLLECT" /\ k.trans[t].wait[s] # "none"
  BY <1>2, AwaitsDump
<1>4. Core(k1, S, B) /\ Apart(k, k1, t) /\ Reported(k, k1, t, s, S, "dump")
  BY <1>3, WaitsOn
<1>5. n \in Notifiers /\ Subscribed(n) = Subscribed(k.start[s]) \ {t}
  BY <1>1, MarkedWhenNotified
<1>6. k1.start = k.start /\ k1.end = k.end
  BY <1>4 DEF Apart
<1>7. r = [k1 EXCEPT !.start[s] = n]
  <2>1. k1 = [k EXCEPT !.trans[t] = [@ EXCEPT !.wait[s] = "dump"]]
    OBVIOUS
  <2>2. r = [k1 EXCEPT !.start[s] = RemoveClient(k1.start[s], t)]
    BY <1>1 DEF DumpStartCallback, Ctls
  <2> HIDE DEF k1, r
  <2> QED
    BY <1>6, <2>2
<1> HIDE DEF k1, n, r
<1>8. k1 \in Ctls(S)
  BY <1>4 DEF Core
<1>9. /\ r \in Ctls(S) /\ r.conn = k1.conn /\ r.trans = k1.trans /\ r.transactions = k1.transactions
      /\ r.end = k.end /\ r.start = [k.start EXCEPT ![s] = n]
  BY <1>5, <1>6, <1>7, <1>8 DEF Ctls
<1>10. r.start[s] = n /\ \A x \in S : x # s => r.start[x] = k.start[x]
  BY <1>1, <1>9, CtlFields
<1>11. Core(r, S, B) /\ \A u \in Trans, x \in S : Awaits(r, u, x) = Awaits(k1, u, x)
  BY <1>4, <1>9, CoreFrom
<1>12. \A u \in Trans, x \in S :
         Awaits(r, u, x) = IF u = t /\ x = s THEN "dump" ELSE Awaits(k, u, x)
  BY <1>4, <1>11 DEF Reported
<1>13. ToldInv(r, S)
  <2> SUFFICES ASSUME NEW x \in S
               PROVE  /\ \A c \in Clients : c \in Subscribed(r.start[x]) => r.conn[c].state # "absent"
                      /\ \A u \in Trans : u \in Subscribed(r.start[x]) => Awaits(r, u, x) = "start"
                      /\ \A u \in Trans : u \in Subscribed(r.end[x]) <=> Awaits(r, u, x) \in {"start", "dump"}
    BY DEF ToldInv
  <2>1. /\ \A c \in Clients : c \in Subscribed(k.start[x]) => k.conn[c].state # "absent"
        /\ \A u \in Trans : u \in Subscribed(k.start[x]) => Awaits(k, u, x) = "start"
        /\ \A u \in Trans : u \in Subscribed(k.end[x]) <=> Awaits(k, u, x) \in {"start", "dump"}
    BY DEF ToldInv
  <2>2. Subscribed(r.start[x]) \subseteq Subscribed(k.start[x])
    BY <1>5, <1>10
  <2>3. x = s => t \notin Subscribed(r.start[x])
    BY <1>5, <1>10
  <2>4. \A c \in Clients : r.conn[c].state = "absent" <=> k.conn[c].state = "absent"
    BY <1>4, <1>9 DEF Apart
  <2>5. \A c \in Clients : c \in Subscribed(r.start[x]) => r.conn[c].state # "absent"
    BY <2>1, <2>2, <2>4
  <2>6. \A u \in Trans : u \in Subscribed(r.start[x]) => Awaits(r, u, x) = "start"
    BY <1>12, <2>1, <2>2, <2>3
  <2>7. \A u \in Trans : u \in Subscribed(r.end[x]) <=> Awaits(r, u, x) \in {"start", "dump"}
    BY <1>2, <1>9, <1>12, <2>1
  <2> QED
    BY <2>5, <2>6, <2>7
<1>14. QuietBut(r, S \ {s}, S)
  BY <1>9, <1>10 DEF QuietBut
<1>15. OnlyCollections(k, r)
  BY <1>3, <1>4, <1>9 DEF OnlyCollections, Apart
<1> QED
  BY <1>10, <1>11, <1>13, <1>14, <1>15 DEF r, n

\* ... of its end, after which it waits for its files or has reported.
LEMMA DumpEndCallbackKeeps ==
  ASSUME NEW B, NEW k, Core(k, Subsystems, B), IsFiniteSet(Subsystems),
         ToldInv(k, Subsystems), NEW s \in Subsystems,
         QuietBut(k, Subsystems, Subsystems \ {s}), k.end[s].is_notifying,
         NEW t \in Trans, t \in Subscribed(k.end[s]), NEW out
  PROVE  LET r == DumpEndCallback(k, t, s, out) IN
         /\ Core(r, Subsystems, B) /\ ToldInv(r, Subsystems)
         /\ QuietBut(r, Subsystems, Subsystems \ {s}) /\ OnlyCollections(k, r)
         /\ r.end[s] = RemoveClient(k.end[s], t)
<1> DEFINE S == Subsystems
           n == RemoveClient(k.end[s], t)
           m == IF k.trans[t].wait[s] = "start" THEN RemoveClient(k.start[s], t) ELSE k.start[s]
           k1 == [k EXCEPT !.end[s] = n]
           k2 == IF k.trans[t].wait[s] = "start"
                 THEN [k1 EXCEPT !.start[s] = RemoveClient(@, t)] ELSE k1
           r == DumpEndCallback(k, t, s, out)
<1>1. k \in Ctls(S) /\ k.start[s] \in Notifiers /\ k.end[s] \in Notifiers /\ Quiet(k.start[s])
  BY CtlFields DEF Core, QuietBut
<1>2. Awaits(k, t, s) \in {"start", "dump"}
  BY DEF ToldInv
<1>3. /\ k.trans[t].type = "LOG_COLLECT" /\ k.trans[t].wait[s] # "none"
      /\ k.trans[t].wait[s] = Awaits(k, t, s)
  BY <1>2, AwaitsDump
<1>4. n \in Notifiers /\ Subscribed(n) = Subscribed(k.end[s]) \ {t}
  BY <1>1, MarkedWhenNotified
<1>5. m \in Notifiers /\ Quiet(m) /\ Subscribed(m) \subseteq Subscribed(k.start[s])
  BY <1>1, ErasedFromQuiet
<1>6. t \notin Subscribed(m)
  <2>1. CASE k.trans[t].wait[s] = "start"
    BY <1>1, <2>1, ErasedFromQuiet
  <2>2. CASE k.trans[t].wait[s] # "start"
    BY <1>3, <2>2 DEF ToldInv
  <2> QED
    BY <2>1, <2>2
<1>7. r = IF IntegratedWcn(s) THEN LogColResult(k2, t, s) ELSE StartLogConvey(k2, t, s, out)
  BY DEF DumpEndCallback
<1>8. /\ k1 \in Ctls(S) /\ k1.conn = k.conn /\ k1.trans = k.trans /\ k1.transactions = k.transactions
      /\ k1.start = k.start /\ k1.end = [k.end EXCEPT ![s] = n]
  <2> HIDE DEF n
  <2> QED
    BY <1>1, <1>4 DEF Ctls
<1>9. /\ k2 \in Ctls(S) /\ k2.conn = k.conn /\ k2.trans = k.trans /\ k2.transactions = k.transactions
      /\ k2.start = [k.start EXCEPT ![s] = m] /\ k2.end = [k.end EXCEPT ![s] = n]
  <2> HIDE DEF k1, n
  <2>1. CASE k.trans[t].wait[s] = "start"
    <3>1. k2 = [k1 EXCEPT !.start[s] = m]
      BY <1>8, <2>1
    <3> HIDE DEF m, k2
    <3> QED
      BY <1>5, <1>8, <3>1 DEF Ctls
  <2>2. CASE k.trans[t].wait[s] # "start"
    <3>1. k2 = k1 /\ m = k.start[s]
      BY <2>2
    <3>2. k.start = [k.start EXCEPT ![s] = k.start[s]]
      BY <1>1, CtlFields
    <3> QED
      BY <1>8, <3>1, <3>2
  <2> QED
    BY <2>1, <2>2
<1> HIDE DEF k1, k2, n, m, r
<1>10. /\ k2.start[s] = m /\ k2.end[s] = n
       /\ \A x \in S : x # s => k2.start[x] = k.start[x] /\ k2.end[x] = k.end[x]
  BY <1>1, <1>9, CtlFields
<1>11. Core(k2, S, B) /\ \A u \in Trans, x \in S : Awaits(k2, u, x) = Awaits(k, u, x)
  BY <1>9, CoreFrom
<1>12. k2.trans[t].type = "LOG_COLLECT" /\ k2.trans[t].wait[s] # "none"
  BY <1>3, <1>9
<1>13. PICK w \in {"none", "move"} :
         Core(r, S, B) /\ Apart(k2, r, t) /\ Reported(k2, r, t, s, S, w)
  <2>1. CASE IntegratedWcn(s)
    <3>1. r = LogColResult(k2, t, s)
      BY <1>7, <2>1
    <3>2. Core(r, S, B) /\ Apart(k2, r, t) /\ Reported(k2, r, t, s, S, "none")
      BY <1>11, <1>12, <3>1, LogColResultKeeps
    <3> QED
      BY <3>2
  <2>2. CASE ~IntegratedWcn(s)
    <3>1. r = StartLogConvey(k2, t, s, out)
      BY <1>7, <2>2
    <3> QED
      BY <1>11, <1>12, <3>1, StartLogConveyKeeps
  <2> QED
    BY <2>1, <2>2
<1>14. r.start = k2.start /\ r.end = k2.end
  BY <1>13 DEF Apart
<1>15. \A u \in Trans, x \in S :
         Awaits(r, u, x) = IF u = t /\ x = s THEN w ELSE Awaits(k, u, x)
  BY <1>11, <1>13 DEF Reported
<1>16. ToldInv(r, S)
  <2> SUFFICES ASSUME NEW x \in S
               PROVE  /\ \A c \in Clients : c \in Subscribed(r.start[x]) => r.conn[c].state # "absent"
                      /\ \A u \in Trans : u \in Subscribed(r.start[x]) => Awaits(r, u, x) = "start"
                      /\ \A u \in Trans : u \in Subscribed(r.end[x]) <=> Awaits(r, u, x) \in {"start", "dump"}
    BY DEF ToldInv
  <2>1. /\ \A c \in Clients : c \in Subscribed(k.start[x]) => k.conn[c].state # "absent"
        /\ \A u \in Trans : u \in Subscribed(k.start[x]) => Awaits(k, u, x) = "start"
        /\ \A u \in Trans : u \in Subscribed(k.end[x]) <=> Awaits(k, u, x) \in {"start", "dump"}
    BY DEF ToldInv
  <2>2. Subscribed(r.start[x]) \subseteq Subscribed(k.start[x])
    BY <1>5, <1>10, <1>14
  <2>3. x = s => t \notin Subscribed(r.start[x])
    BY <1>6, <1>10, <1>14
  <2>4. \A c \in Clients : r.conn[c].state = "absent" <=> k.conn[c].state = "absent"
    BY <1>9, <1>13 DEF Apart
  <2>5. \A c \in Clients : c \in Subscribed(r.start[x]) => r.conn[c].state # "absent"
    BY <2>1, <2>2, <2>4
  <2>6. \A u \in Trans : u \in Subscribed(r.start[x]) => Awaits(r, u, x) = "start"
    BY <1>15, <2>1, <2>2, <2>3
  <2>7. \A u \in Trans : u \in Subscribed(r.end[x]) <=> Awaits(r, u, x) \in {"start", "dump"}
    <3>1. CASE x = s
      <4>1. \A u \in Trans : u \in Subscribed(r.end[x]) <=> u \in Subscribed(k.end[x]) /\ u # t
        BY <1>4, <1>10, <1>14, <3>1
      <4>2. w \notin {"start", "dump"}
        OBVIOUS
      <4> QED
        BY <1>15, <2>1, <3>1, <4>1, <4>2
    <3>2. CASE x # s
      BY <1>10, <1>14, <1>15, <2>1, <3>2
    <3> QED
      BY <3>1, <3>2
  <2> QED
    BY <2>5, <2>6, <2>7
<1>17. QuietBut(r, S, S \ {s})
  BY <1>5, <1>10, <1>14 DEF QuietBut
<1>18. OnlyCollections(k, r)
  BY <1>3, <1>9, <1>13 DEF OnlyCollections, Apart
<1> QED
  BY <1>10, <1>13, <1>14, <1>16, <1>17, <1>18 DEF r, n

------------------------------------------------------------------------------
(* A notification.                                                         *)

\* A step of the loop that tells of the start of a dump of s, and of the one that
\* tells of its end.
StartStep(k, s, i, before) ==
  IF i = 0 THEN [k EXCEPT !.start[s] = BeginNotify(@)] ELSE TellStart(before[i - 1], s, i)

EndStep(k, s, out, i, before) ==
  IF i = 0 THEN [k EXCEPT !.end[s] = BeginNotify(@)] ELSE TellEnd(before[i - 1], s, out, i)

\* The loops are defined, whatever the lists.

LEMMA StartDefined ==
  ASSUME NEW k, NEW s, NEW n \in Nat
  PROVE  \E f : f = [i \in 0 .. n |-> StartStep(k, s, i, f)]
<1> DEFINE Done(m) == \E f : f = [i \in 0 .. m |-> StartStep(k, s, i, f)]
           undone == {m \in Nat : ~Done(m)}
<1>1. CASE undone = {}
  BY <1>1
<1>2. CASE undone # {}
  <2>1. undone \in SUBSET Nat
    OBVIOUS
  <2>2. PICK m \in undone : \A j \in undone : m <= j
    <3> HIDE DEF undone
    <3> QED
      BY <1>2, <2>1, LeastOf
  <2>3. m # 0
    <3> DEFINE f == [i \in 0 .. 0 |-> StartStep(k, s, 0, <<>>)]
    <3>1. f = [i \in 0 .. 0 |-> StartStep(k, s, i, f)]
      BY DEF StartStep
    <3>2. Done(0)
      BY <3>1
    <3> QED
      BY <2>2, <3>2
  <2>4. m \in Nat /\ m - 1 \in Nat /\ m - 1 < m
    BY <2>2, <2>3
  <2>5. Done(m - 1)
    BY <2>2, <2>4
  <2>6. PICK f : f = [i \in 0 .. m - 1 |-> StartStep(k, s, i, f)]
    BY <2>5
  <2> DEFINE g == [i \in 0 .. m |-> IF i = m THEN StartStep(k, s, m, f) ELSE f[i]]
  <2>7. \A i \in 0 .. m - 1 : g[i] = f[i] /\ f[i] = StartStep(k, s, i, f)
    <3>1. \A i \in 0 .. m - 1 : i \in 0 .. m /\ i # m
      BY <2>4
    <3> QED
      BY <2>6, <3>1
  <2>8. g[m] = StartStep(k, s, m, f)
    BY <2>4
  <2>9. DOMAIN g = 0 .. m /\ g = [i \in 0 .. m |-> g[i]]
    OBVIOUS
  <2> HIDE DEF g
  <2>10. ASSUME NEW i \in 0 .. m
         PROVE  g[i] = StartStep(k, s, i, g)
    <3>1. CASE i = 0
      <4>1. g[i] = StartStep(k, s, i, f)
        BY <2>3, <2>4, <2>7, <3>1
      <4> QED
        BY <3>1, <4>1 DEF StartStep
    <3>2. CASE i # 0
      <4>1. i - 1 \in 0 .. m - 1
        BY <2>4, <3>2
      <4>2. g[i - 1] = f[i - 1]
        BY <2>7, <4>1
      <4>3. g[i] = StartStep(k, s, i, f)
        <5>1. CASE i = m
          BY <2>8, <5>1
        <5>2. CASE i # m
          <6>1. i \in 0 .. m - 1
            BY <2>4, <5>2
          <6> QED
            BY <2>7, <6>1
        <5> QED
          BY <5>1, <5>2
      <4> QED
        BY <3>2, <4>2, <4>3 DEF StartStep
    <3> QED
      BY <3>1, <3>2
  <2>11. g = [i \in 0 .. m |-> StartStep(k, s, i, g)]
    BY <2>9, <2>10
  <2>12. Done(m)
    BY <2>11
  <2> QED
    BY <2>2, <2>12
<1> QED
  BY <1>1, <1>2

LEMMA EndDefined ==
  ASSUME NEW k, NEW s, NEW out, NEW n \in Nat
  PROVE  \E f : f = [i \in 0 .. n |-> EndStep(k, s, out, i, f)]
<1> DEFINE Done(m) == \E f : f = [i \in 0 .. m |-> EndStep(k, s, out, i, f)]
           undone == {m \in Nat : ~Done(m)}
<1>1. CASE undone = {}
  BY <1>1
<1>2. CASE undone # {}
  <2>1. undone \in SUBSET Nat
    OBVIOUS
  <2>2. PICK m \in undone : \A j \in undone : m <= j
    <3> HIDE DEF undone
    <3> QED
      BY <1>2, <2>1, LeastOf
  <2>3. m # 0
    <3> DEFINE f == [i \in 0 .. 0 |-> EndStep(k, s, out, 0, <<>>)]
    <3>1. f = [i \in 0 .. 0 |-> EndStep(k, s, out, i, f)]
      BY DEF EndStep
    <3>2. Done(0)
      BY <3>1
    <3> QED
      BY <2>2, <3>2
  <2>4. m \in Nat /\ m - 1 \in Nat /\ m - 1 < m
    BY <2>2, <2>3
  <2>5. Done(m - 1)
    BY <2>2, <2>4
  <2>6. PICK f : f = [i \in 0 .. m - 1 |-> EndStep(k, s, out, i, f)]
    BY <2>5
  <2> DEFINE g == [i \in 0 .. m |-> IF i = m THEN EndStep(k, s, out, m, f) ELSE f[i]]
  <2>7. \A i \in 0 .. m - 1 : g[i] = f[i] /\ f[i] = EndStep(k, s, out, i, f)
    <3>1. \A i \in 0 .. m - 1 : i \in 0 .. m /\ i # m
      BY <2>4
    <3> QED
      BY <2>6, <3>1
  <2>8. g[m] = EndStep(k, s, out, m, f)
    BY <2>4
  <2>9. DOMAIN g = 0 .. m /\ g = [i \in 0 .. m |-> g[i]]
    OBVIOUS
  <2> HIDE DEF g
  <2>10. ASSUME NEW i \in 0 .. m
         PROVE  g[i] = EndStep(k, s, out, i, g)
    <3>1. CASE i = 0
      <4>1. g[i] = EndStep(k, s, out, i, f)
        BY <2>3, <2>4, <2>7, <3>1
      <4> QED
        BY <3>1, <4>1 DEF EndStep
    <3>2. CASE i # 0
      <4>1. i - 1 \in 0 .. m - 1
        BY <2>4, <3>2
      <4>2. g[i - 1] = f[i - 1]
        BY <2>7, <4>1
      <4>3. g[i] = EndStep(k, s, out, i, f)
        <5>1. CASE i = m
          BY <2>8, <5>1
        <5>2. CASE i # m
          <6>1. i \in 0 .. m - 1
            BY <2>4, <5>2
          <6> QED
            BY <2>7, <6>1
        <5> QED
          BY <5>1, <5>2
      <4> QED
        BY <3>2, <4>2, <4>3 DEF EndStep
    <3> QED
      BY <3>1, <3>2
  <2>11. g = [i \in 0 .. m |-> EndStep(k, s, out, i, g)]
    BY <2>9, <2>10
  <2>12. Done(m)
    BY <2>11
  <2> QED
    BY <2>2, <2>12
<1> QED
  BY <1>1, <1>2

\* If the lists have the same subscribers nothing has changed.
LEMMA ToldFrom ==
  ASSUME NEW S, NEW B, NEW k, Core(k, S, B), ToldInv(k, S),
         NEW r \in Ctls(S), r.conn = k.conn, r.trans = k.trans, r.transactions = k.transactions,
         \A s \in S : /\ Subscribed(r.start[s]) = Subscribed(k.start[s])
                      /\ Subscribed(r.end[s]) = Subscribed(k.end[s])
  PROVE  Core(r, S, B) /\ ToldInv(r, S) /\ OnlyCollections(k, r)
<1>1. Core(r, S, B) /\ \A t \in Trans, s \in S : Awaits(r, t, s) = Awaits(k, t, s)
  BY CoreFrom
<1>2. ToldInv(r, S)
  BY <1>1 DEF ToldInv
<1>3. OnlyCollections(k, r)
  BY DEF OnlyCollections
<1> QED
  BY <1>1, <1>2, <1>3

LEMMA OnlyCollectionsThen ==
  ASSUME NEW k, NEW r, NEW q, OnlyCollections(k, r), OnlyCollections(r, q)
  PROVE  OnlyCollections(k, q)
BY DEF OnlyCollections

\* The start and the end of a notification do not change who is told.
LEMMA StartListChanges ==
  ASSUME NEW S, NEW B, NEW k, Core(k, S, B), ToldInv(k, S), NEW s \in S,
         NEW n \in Notifiers, Subscribed(n) = Subscribed(k.start[s])
  PROVE  LET r == [k EXCEPT !.start[s] = n] IN
         /\ Core(r, S, B) /\ ToldInv(r, S) /\ OnlyCollections(k, r)
         /\ r.start[s] = n /\ r.end = k.end /\ \A x \in S : x # s => r.start[x] = k.start[x]
<1> DEFINE r == [k EXCEPT !.start[s] = n]
<1>1. k \in Ctls(S)
  BY DEF Core
<1>2. /\ r \in Ctls(S) /\ r.conn = k.conn /\ r.trans = k.trans /\ r.transactions = k.transactions
      /\ r.end = k.end /\ r.start = [k.start EXCEPT ![s] = n]
  BY <1>1 DEF Ctls
<1> HIDE DEF r
<1>3. r.start[s] = n /\ \A x \in S : x # s => r.start[x] = k.start[x]
  BY <1>1, <1>2, CtlFields
<1>4. \A x \in S : /\ Subscribed(r.start[x]) = Subscribed(k.start[x])
                   /\ Subscribed(r.end[x]) = Subscribed(k.end[x])
  BY <1>2, <1>3
<1>5. Core(r, S, B) /\ ToldInv(r, S) /\ OnlyCollections(k, r)
  BY <1>2, <1>4, ToldFrom
<1> QED
  BY <1>2, <1>3, <1>5 DEF r

LEMMA EndListChanges ==
  ASSUME NEW S, NEW B, NEW k, Core(k, S, B), ToldInv(k, S), NEW s \in S,
         NEW n \in Notifiers, Subscribed(n) = Subscribed(k.end[s])
  PROVE  LET r == [k EXCEPT !.end[s] = n] IN
         /\ Core(r, S, B) /\ ToldInv(r, S) /\ OnlyCollections(k, r)
         /\ r.end[s] = n /\ r.start = k.start /\ \A x \in S : x # s => r.end[x] = k.end[x]
<1> DEFINE r == [k EXCEPT !.end[s] = n]
<1>1. k \in Ctls(S)
  BY DEF Core
<1>2. /\ r \in Ctls(S) /\ r.conn = k.conn /\ r.trans = k.trans /\ r.transactions = k.transactions
      /\ r.start = k.start /\ r.end = [k.end EXCEPT ![s] = n]
  BY <1>1 DEF Ctls
<1> HIDE DEF r
<1>3. r.end[s] = n /\ \A x \in S : x # s => r.end[x] = k.end[x]
  BY <1>1, <1>2, CtlFields
<1>4. \A x \in S : /\ Subscribed(r.start[x]) = Subscribed(k.start[x])
                   /\ Subscribed(r.end[x]) = Subscribed(k.end[x])
  BY <1>2, <1>3
<1>5. Core(r, S, B) /\ ToldInv(r, S) /\ OnlyCollections(k, r)
  BY <1>2, <1>4, ToldFrom
<1> QED
  BY <1>2, <1>3, <1>5 DEF r

\* The first i of a list have been told: those that are still in it are clients.
ToldTo(n, i) ==
  \A j \in DOMAIN n.evt_subs : j <= i => n.evt_subs[j].removed \/ n.evt_subs[j].client \in Clients

\* g is the state when the first i subscribers of the start, or of the end, of a
\* dump of s have been told, from k on.
TellingStart(k, g, s, i, S, B) ==
  /\ Core(g, S, B) /\ ToldInv(g, S) /\ OnlyCollections(k, g)
  /\ QuietBut(g, S \ {s}, S)
  /\ g.start[s].is_notifying
  /\ Len(g.start[s].evt_subs) = Len(k.start[s].evt_subs)
  /\ ToldTo(g.start[s], i)

TellingEnd(k, g, s, i, S, B) ==
  /\ Core(g, S, B) /\ ToldInv(g, S) /\ OnlyCollections(k, g)
  /\ QuietBut(g, S, S \ {s})
  /\ g.end[s].is_notifying
  /\ Len(g.end[s].evt_subs) = Len(k.end[s].evt_subs)
  /\ ToldTo(g.end[s], i)

\* One of the subscribers is a client, has left, or unsubscribes in its callback.
LEMMA OneIsTold ==
  ASSUME NEW n \in Notifiers, NEW i \in DOMAIN n.evt_subs, ToldTo(n, i - 1)
  PROVE  LET e == n.evt_subs[i] IN
         /\ e.removed \/ e.client \in Clients => ToldTo(n, i)
         /\ ~(e.removed \/ e.client \in Clients) =>
              /\ e.client \in Trans /\ e.client \in Subscribed(n)
              /\ n.is_notifying => ToldTo(RemoveClient(n, e.client), i)
<1> DEFINE e == n.evt_subs[i]
           r == RemoveClient(n, e.client)
<1>1. /\ DOMAIN n.evt_subs = 1 .. Len(n.evt_subs) /\ Len(n.evt_subs) \in Nat
      /\ e.client \in Clients \cup Trans
  BY NotifierFields
<1>2. \A j \in DOMAIN n.evt_subs : j <= i => j = i \/ j <= i - 1
  BY <1>1
<1>3. e.removed \/ e.client \in Clients => ToldTo(n, i)
  BY <1>2 DEF ToldTo
<1>4. ASSUME ~(e.removed \/ e.client \in Clients)
      PROVE  e.client \in Trans /\ e.client \in Subscribed(n)
  BY <1>1, <1>4, SubscribedBy
<1>5. ASSUME ~(e.removed \/ e.client \in Clients), n.is_notifying
      PROVE  ToldTo(r, i)
  <2> DEFINE c == e.client
  <2>1. /\ r \in Notifiers /\ Len(r.evt_subs) = Len(n.evt_subs)
        /\ \A j \in DOMAIN n.evt_subs :
             /\ r.evt_subs[j].client = n.evt_subs[j].client
             /\ r.evt_subs[j].removed <=> n.evt_subs[j].removed \/ n.evt_subs[j].client = c
    <3> HIDE DEF c
    <3>1. /\ RemoveClient(n, c) \in Notifiers /\ Len(RemoveClient(n, c).evt_subs) = Len(n.evt_subs)
          /\ \A j \in DOMAIN n.evt_subs :
               /\ RemoveClient(n, c).evt_subs[j].client = n.evt_subs[j].client
               /\ RemoveClient(n, c).evt_subs[j].removed <=> n.evt_subs[j].removed \/ n.evt_subs[j].client = c
      BY <1>5, MarkedWhenNotified
    <3> QED
      BY <3>1 DEF c
  <2>2. DOMAIN r.evt_subs = DOMAIN n.evt_subs
    <3> HIDE DEF r
    <3> QED
      BY <1>1, <2>1, NotifierFields
  <2> HIDE DEF r
  <2> QED
    BY <1>2, <2>1, <2>2 DEF ToldTo
<1> QED
  BY <1>3, <1>4, <1>5

LEMMA TellStartKeeps ==
  ASSUME NEW S, NEW B, NEW k, NEW g, NEW s \in S, s \in B,
         NEW i \in DOMAIN g.start[s].evt_subs, TellingStart(k, g, s, i - 1, S, B)
  PROVE  TellingStart(k, TellStart(g, s, i), s, i, S, B)
<1> DEFINE n == g.start[s]
           e == n.evt_subs[i]
           t == e.client
           r == DumpStartCallback(g, t, s)
<1>1. /\ n \in Notifiers /\ n.is_notifying /\ ToldTo(n, i - 1)
      /\ Core(g, S, B) /\ ToldInv(g, S) /\ QuietBut(g, S \ {s}, S) /\ OnlyCollections(k, g)
      /\ Len(n.evt_subs) = Len(k.start[s].evt_subs)
  BY CtlFields DEF TellingStart, Core
<1>2. /\ e.removed \/ e.client \in Clients => ToldTo(n, i)
      /\ ~(e.removed \/ e.client \in Clients) =>
           t \in Trans /\ t \in Subscribed(n) /\ ToldTo(RemoveClient(n, t), i)
  <2> HIDE DEF n
  <2> QED
    BY <1>1, OneIsTold DEF n
<1>3. CASE e.removed \/ e.client \in Clients
  <2>1. TellStart(g, s, i) = g
    BY <1>3 DEF TellStart
  <2> QED
    BY <1>1, <1>2, <1>3, <2>1 DEF TellingStart
<1>4. CASE ~(e.removed \/ e.client \in Clients)
  <2>1. TellStart(g, s, i) = r
    BY <1>4 DEF TellStart
  <2>2. t \in Trans /\ t \in Subscribed(n) /\ ToldTo(RemoveClient(n, t), i)
    BY <1>2, <1>4
  <2> HIDE DEF t
  <2>3. /\ Core(r, S, B) /\ ToldInv(r, S) /\ QuietBut(r, S \ {s}, S) /\ OnlyCollections(g, r)
        /\ r.start[s] = RemoveClient(n, t)
    <3>1. /\ Core(g, S, B) /\ ToldInv(g, S) /\ QuietBut(g, S \ {s}, S)
          /\ g.start[s].is_notifying /\ t \in Trans /\ t \in Subscribed(g.start[s])
      BY <1>1, <2>2
    <3> HIDE DEF n
    <3> QED
      BY <3>1, DumpStartCallbackKeeps DEF n
  <2> HIDE DEF n, r
  <2>4. RemoveClient(n, t).is_notifying /\ Len(RemoveClient(n, t).evt_subs) = Len(n.evt_subs)
    BY <1>1, MarkedWhenNotified
  <2>5. OnlyCollections(k, r)
    BY <1>1, <2>3, OnlyCollectionsThen
  <2>6. TellingStart(k, r, s, i, S, B)
    BY <1>1, <2>2, <2>3, <2>4, <2>5 DEF TellingStart
  <2> QED
    BY <2>1, <2>6
<1> QED
  BY <1>3, <1>4

\* The start of a dump of s is announced: collections that waited for it wait for
\* its end.
LEMMA NotifyDumpStartKeeps ==
  ASSUME NEW B, NEW k, Core(k, Subsystems, B), IsFiniteSet(Subsystems),
         ToldInv(k, Subsystems), QuietBut(k, Subsystems, Subsystems),
         NEW s \in Subsystems, s \in B
  PROVE  LET r == NotifyDumpStart(k, s) IN
         /\ Core(r, Subsystems, B) /\ ToldInv(r, Subsystems)
         /\ QuietBut(r, Subsystems, Subsystems) /\ OnlyCollections(k, r)
<1> DEFINE S == Subsystems
           n == Len(k.start[s].evt_subs)
           f == CHOOSE f : f = [i \in 0 .. n |-> StartStep(k, s, i, f)]
           wrong == {i \in 0 .. n : ~TellingStart(k, f[i], s, i, S, B)}
           last == EndNotify(f[n].start[s])
           r == NotifyDumpStart(k, s)
<1>1. k \in Ctls(S) /\ k.start[s] \in Notifiers /\ n \in Nat
  <2>1. k \in Ctls(S) /\ k.start[s] \in Notifiers
    BY CtlFields DEF Core
  <2> QED
    BY <2>1, NotifierFields
<1>2. f = [i \in 0 .. n |-> StartStep(k, s, i, f)]
  BY <1>1, StartDefined
<1>3. r = [f[n] EXCEPT !.start[s] = last]
  BY DEF NotifyDumpStart, StartStep
<1> HIDE DEF f, r
<1>4. \A i \in 0 .. n : f[i] = StartStep(k, s, i, f)
  BY <1>2
<1>5. TellingStart(k, f[0], s, 0, S, B)
  <2> DEFINE b == BeginNotify(k.start[s])
             g == [k EXCEPT !.start[s] = b]
  <2>1. f[0] = g
    BY <1>1, <1>4 DEF StartStep
  <2>2. b \in Notifiers /\ b.is_notifying /\ b.evt_subs = k.start[s].evt_subs
        /\ Subscribed(b) = Subscribed(k.start[s])
    BY <1>1, NotificationBegins
  <2> HIDE DEF b
  <2>3. /\ Core(g, S, B) /\ ToldInv(g, S) /\ OnlyCollections(k, g)
        /\ g.start[s] = b /\ g.end = k.end /\ \A x \in S : x # s => g.start[x] = k.start[x]
    BY <2>2, StartListChanges
  <2> HIDE DEF g
  <2>4. QuietBut(g, S \ {s}, S)
    BY <2>3 DEF QuietBut
  <2>5. ToldTo(g.start[s], 0)
    <3>1. DOMAIN b.evt_subs = 1 .. Len(b.evt_subs) /\ Len(b.evt_subs) \in Nat
      BY <2>2, NotifierFields
    <3> QED
      BY <2>3, <3>1 DEF ToldTo
  <2> QED
    BY <2>1, <2>2, <2>3, <2>4, <2>5 DEF TellingStart
<1>6. wrong = {}
  <2> SUFFICES ASSUME wrong # {}
               PROVE  FALSE
    OBVIOUS
  <2>1. wrong \in SUBSET Nat
    OBVIOUS
  <2>2. PICK i \in wrong : \A j \in wrong : i <= j
    <3> HIDE DEF wrong
    <3> QED
      BY <2>1, LeastOf
  <2>3. i \in 1 .. n /\ i - 1 \in 0 .. n /\ i - 1 < i /\ i # 0
    BY <1>1, <1>5, <2>2
  <2>4. i - 1 \notin wrong
    BY <2>2, <2>3
  <2> DEFINE g == f[i - 1]
  <2>5. TellingStart(k, g, s, i - 1, S, B)
    BY <2>3, <2>4
  <2>6. f[i] = TellStart(g, s, i)
    BY <1>4, <2>3 DEF StartStep
  <2> HIDE DEF g
  <2>7. i \in DOMAIN g.start[s].evt_subs
    <3>1. g.start[s] \in Notifiers /\ Len(g.start[s].evt_subs) = n
      BY <2>5, CtlFields DEF TellingStart, Core
    <3>2. DOMAIN g.start[s].evt_subs = 1 .. Len(g.start[s].evt_subs)
      BY <3>1, NotifierFields
    <3> QED
      BY <2>3, <3>1, <3>2
  <2>8. TellingStart(k, f[i], s, i, S, B)
    BY <2>5, <2>6, <2>7, TellStartKeeps
  <2> QED
    BY <2>2, <2>8
<1> DEFINE g == f[n]
<1>7. TellingStart(k, g, s, n, S, B)
  BY <1>1, <1>6
<1> HIDE DEF wrong, g, last
<1>8. /\ Core(g, S, B) /\ ToldInv(g, S) /\ OnlyCollections(k, g) /\ QuietBut(g, S \ {s}, S)
      /\ g.start[s] \in Notifiers
  BY <1>7, CtlFields DEF TellingStart, Core
<1>9. last \in Notifiers /\ Quiet(last) /\ Subscribed(last) = Subscribed(g.start[s])
  BY <1>8, NotificationEnds DEF last, g
<1>10. r = [g EXCEPT !.start[s] = last]
  BY <1>3 DEF g
<1>11. /\ Core(r, S, B) /\ ToldInv(r, S) /\ OnlyCollections(g, r)
       /\ r.start[s] = last /\ r.end = g.end /\ \A x \in S : x # s => r.start[x] = g.start[x]
  BY <1>8, <1>9, <1>10, StartListChanges
<1>12. OnlyCollections(k, r)
  BY <1>8, <1>11, OnlyCollectionsThen
<1>13. QuietBut(r, S, S)
  BY <1>8, <1>9, <1>11 DEF QuietBut
<1> QED
  BY <1>11, <1>12, <1>13 DEF r


LEMMA TellEndKeeps ==
  ASSUME NEW B, NEW k, NEW g, IsFiniteSet(Subsystems), NEW s \in Subsystems, NEW out,
         NEW i \in DOMAIN g.end[s].evt_subs, TellingEnd(k, g, s, i - 1, Subsystems, B)
  PROVE  TellingEnd(k, TellEnd(g, s, out, i), s, i, Subsystems, B)
<1> DEFINE S == Subsystems
           n == g.end[s]
           e == n.evt_subs[i]
           t == e.client
           r == DumpEndCallback(g, t, s, out[t])
<1>1. /\ n \in Notifiers /\ n.is_notifying /\ ToldTo(n, i - 1)
      /\ Core(g, S, B) /\ ToldInv(g, S) /\ QuietBut(g, S, S \ {s}) /\ OnlyCollections(k, g)
      /\ Len(n.evt_subs) = Len(k.end[s].evt_subs)
  BY CtlFields DEF TellingEnd, Core
<1>2. /\ e.removed \/ e.client \in Clients => ToldTo(n, i)
      /\ ~(e.removed \/ e.client \in Clients) =>
           t \in Trans /\ t \in Subscribed(n) /\ ToldTo(RemoveClient(n, t), i)
  <2> HIDE DEF n
  <2> QED
    BY <1>1, OneIsTold DEF n
<1>3. CASE e.removed \/ e.client \in Clients
  <2>1. TellEnd(g, s, out, i) = g
    BY <1>3 DEF TellEnd
  <2> QED
    BY <1>1, <1>2, <1>3, <2>1 DEF TellingEnd
<1>4. CASE ~(e.removed \/ e.client \in Clients)
  <2>1. TellEnd(g, s, out, i) = r
    BY <1>4 DEF TellEnd
  <2>2. t \in Trans /\ t \in Subscribed(n) /\ ToldTo(RemoveClient(n, t), i)
    BY <1>2, <1>4
  <2> HIDE DEF t
  <2>3. /\ Core(r, S, B) /\ ToldInv(r, S) /\ QuietBut(r, S, S \ {s}) /\ OnlyCollections(g, r)
        /\ r.end[s] = RemoveClient(n, t)
    <3>1. /\ Core(g, S, B) /\ ToldInv(g, S) /\ QuietBut(g, S, S \ {s})
          /\ g.end[s].is_notifying /\ t \in Trans /\ t \in Subscribed(g.end[s])
      BY <1>1, <2>2
    <3> HIDE DEF n
    <3> QED
      BY <3>1, DumpEndCallbackKeeps DEF n
  <2> HIDE DEF n, r
  <2>4. RemoveClient(n, t).is_notifying /\ Len(RemoveClient(n, t).evt_subs) = Len(n.evt_subs)
    BY <1>1, MarkedWhenNotified
  <2>5. OnlyCollections(k, r)
    BY <1>1, <2>3, OnlyCollectionsThen
  <2>6. TellingEnd(k, r, s, i, S, B)
    BY <1>1, <2>2, <2>3, <2>4, <2>5 DEF TellingEnd
  <2> QED
    BY <2>1, <2>6
<1> QED
  BY <1>3, <1>4

\* The end of a dump of s is announced: nobody is told of it any more.
LEMMA NotifyDumpEndKeeps ==
  ASSUME NEW B, NEW k, Core(k, Subsystems, B), IsFiniteSet(Subsystems),
         ToldInv(k, Subsystems), QuietBut(k, Subsystems, Subsystems),
         NEW s \in Subsystems, NEW out
  PROVE  LET r == NotifyDumpEnd(k, s, out) IN
         /\ Core(r, Subsystems, B) /\ ToldInv(r, Subsystems)
         /\ QuietBut(r, Subsystems, Subsystems) /\ OnlyCollections(k, r)
         /\ \A t \in Trans : t \notin Subscribed(r.end[s])
<1> DEFINE S == Subsystems
           n == Len(k.end[s].evt_subs)
           f == CHOOSE f : f = [i \in 0 .. n |-> EndStep(k, s, out, i, f)]
           wrong == {i \in 0 .. n : ~TellingEnd(k, f[i], s, i, S, B)}
           last == EndNotify(f[n].end[s])
           r == NotifyDumpEnd(k, s, out)
<1>1. k \in Ctls(S) /\ k.end[s] \in Notifiers /\ n \in Nat
  <2>1. k \in Ctls(S) /\ k.end[s] \in Notifiers
    BY CtlFields DEF Core
  <2> QED
    BY <2>1, NotifierFields
<1>2. f = [i \in 0 .. n |-> EndStep(k, s, out, i, f)]
  BY <1>1, EndDefined
<1>3. r = [f[n] EXCEPT !.end[s] = last]
  BY DEF NotifyDumpEnd, EndStep
<1> HIDE DEF f, r
<1>4. \A i \in 0 .. n : f[i] = EndStep(k, s, out, i, f)
  BY <1>2
<1>5. TellingEnd(k, f[0], s, 0, S, B)
  <2> DEFINE b == BeginNotify(k.end[s])
             g == [k EXCEPT !.end[s] = b]
  <2>1. f[0] = g
    BY <1>1, <1>4 DEF EndStep
  <2>2. b \in Notifiers /\ b.is_notifying /\ b.evt_subs = k.end[s].evt_subs
        /\ Subscribed(b) = Subscribed(k.end[s])
    BY <1>1, NotificationBegins
  <2> HIDE DEF b
  <2>3. /\ Core(g, S, B) /\ ToldInv(g, S) /\ OnlyCollections(k, g)
        /\ g.end[s] = b /\ g.start = k.start /\ \A x \in S : x # s => g.end[x] = k.end[x]
    BY <2>2, EndListChanges
  <2> HIDE DEF g
  <2>4. QuietBut(g, S, S \ {s})
    BY <2>3 DEF QuietBut
  <2>5. ToldTo(g.end[s], 0)
    <3>1. DOMAIN b.evt_subs = 1 .. Len(b.evt_subs) /\ Len(b.evt_subs) \in Nat
      BY <2>2, NotifierFields
    <3> QED
      BY <2>3, <3>1 DEF ToldTo
  <2> QED
    BY <2>1, <2>2, <2>3, <2>4, <2>5 DEF TellingEnd
<1>6. wrong = {}
  <2> SUFFICES ASSUME wrong # {}
               PROVE  FALSE
    OBVIOUS
  <2>1. wrong \in SUBSET Nat
    OBVIOUS
  <2>2. PICK i \in wrong : \A j \in wrong : i <= j
    <3> HIDE DEF wrong
    <3> QED
      BY <2>1, LeastOf
  <2>3. i \in 1 .. n /\ i - 1 \in 0 .. n /\ i - 1 < i /\ i # 0
    BY <1>1, <1>5, <2>2
  <2>4. i - 1 \notin wrong
    BY <2>2, <2>3
  <2> DEFINE g == f[i - 1]
  <2>5. TellingEnd(k, g, s, i - 1, S, B)
    BY <2>3, <2>4
  <2>6. f[i] = TellEnd(g, s, out, i)
    BY <1>4, <2>3 DEF EndStep
  <2> HIDE DEF g
  <2>7. i \in DOMAIN g.end[s].evt_subs
    <3>1. g.end[s] \in Notifiers /\ Len(g.end[s].evt_subs) = n
      BY <2>5, CtlFields DEF TellingEnd, Core
    <3>2. DOMAIN g.end[s].evt_subs = 1 .. Len(g.end[s].evt_subs)
      BY <3>1, NotifierFields
    <3> QED
      BY <2>3, <3>1, <3>2
  <2>8. TellingEnd(k, f[i], s, i, S, B)
    BY <2>5, <2>6, <2>7, TellEndKeeps
  <2> QED
    BY <2>2, <2>8
<1> DEFINE g == f[n]
<1>7. TellingEnd(k, g, s, n, S, B)
  BY <1>1, <1>6
<1> HIDE DEF wrong, g, last
<1>8. /\ Core(g, S, B) /\ ToldInv(g, S) /\ OnlyCollections(k, g) /\ QuietBut(g, S, S \ {s})
      /\ g.end[s] \in Notifiers
  BY <1>7, CtlFields DEF TellingEnd, Core
<1>9. last \in Notifiers /\ Quiet(last) /\ Subscribed(last) = Subscribed(g.end[s])
  BY <1>8, NotificationEnds DEF last, g
<1>10. r = [g EXCEPT !.end[s] = last]
  BY <1>3 DEF g
<1>11. /\ Core(r, S, B) /\ ToldInv(r, S) /\ OnlyCollections(g, r)
       /\ r.end[s] = last /\ r.start = g.start /\ \A x \in S : x # s => r.end[x] = g.end[x]
  BY <1>8, <1>9, <1>10, EndListChanges
<1>12. OnlyCollections(k, r)
  BY <1>8, <1>11, OnlyCollectionsThen
<1>13. QuietBut(r, S, S)
  BY <1>8, <1>9, <1>11 DEF QuietBut
<1>14. ASSUME NEW t \in Trans
       PROVE  t \notin Subscribed(r.end[s])
  <2> DEFINE l == g.end[s].evt_subs
  <2>1. ToldTo(g.end[s], n) /\ Len(l) = n
    BY <1>7 DEF TellingEnd
  <2>2. DOMAIN l = 1 .. Len(l)
    BY <1>8, NotifierFields
  <2>3. \A j \in DOMAIN l : l[j].removed \/ l[j].client \in Clients
    BY <1>1, <2>1, <2>2 DEF ToldTo
  <2>4. t \notin Subscribed(g.end[s])
    BY <2>3, SubscribedBy, ControlAssumption DEF Trans
  <2> QED
    BY <1>9, <1>11, <2>4
<1> QED
  BY <1>11, <1>12, <1>13, <1>14 DEF r

------------------------------------------------------------------------------
(* A state that the controller may be in between two callbacks.            *)

Good(k, S, B) == Core(k, S, B) /\ ToldInv(k, S) /\ QuietBut(k, S, S)

\* Those who are told have nothing to do with a step that leaves the lists alone,
\* closes no connection, and changes only what transactions wait for beside dumps.
LEMMA Unheard ==
  ASSUME NEW S, NEW B, NEW C, NEW k, NEW r, Good(k, S, B), Core(r, S, C),
         r.start = k.start, r.end = k.end,
         \A c \in Clients : r.conn[c].state = "absent" => k.conn[c].state = "absent",
         \A t \in Trans, s \in S :
           \/ Awaits(r, t, s) = Awaits(k, t, s)
           \/ Awaits(r, t, s) \notin {"start", "dump"} /\ Awaits(k, t, s) \notin {"start", "dump"}
  PROVE  Good(r, S, C)
<1>1. ToldInv(k, S) /\ QuietBut(k, S, S)
  BY DEF Good
<1>2. ASSUME NEW s \in S
      PROVE  /\ \A c \in Clients : c \in Subscribed(r.start[s]) => r.conn[c].state # "absent"
             /\ \A t \in Trans : t \in Subscribed(r.start[s]) => Awaits(r, t, s) = "start"
             /\ \A t \in Trans : t \in Subscribed(r.end[s]) <=> Awaits(r, t, s) \in {"start", "dump"}
  <2>1. /\ \A c \in Clients : c \in Subscribed(k.start[s]) => k.conn[c].state # "absent"
        /\ \A t \in Trans : t \in Subscribed(k.start[s]) => Awaits(k, t, s) = "start"
        /\ \A t \in Trans : t \in Subscribed(k.end[s]) <=> Awaits(k, t, s) \in {"start", "dump"}
    BY <1>1 DEF ToldInv
  <2>2. \A c \in Clients : c \in Subscribed(r.start[s]) => r.conn[c].state # "absent"
    BY <2>1
  <2>3. ASSUME NEW t \in Trans
        PROVE  /\ t \in Subscribed(r.start[s]) => Awaits(r, t, s) = "start"
               /\ t \in Subscribed(r.end[s]) <=> Awaits(r, t, s) \in {"start", "dump"}
    BY <2>1
  <2> QED
    BY <2>2, <2>3
<1>3. ToldInv(r, S)
  BY <1>2 DEF ToldInv
<1>4. QuietBut(r, S, S)
  BY <1>1 DEF QuietBut
<1> QED
  BY <1>3, <1>4 DEF Good

\* A transaction that is not a collection ends with a part of it.
LEMMA EndsKeeps ==
  ASSUME NEW B, NEW k, Good(k, Subsystems, B), NEW t \in Trans, LiveIn(k, t),
         k.trans[t].type # "LOG_COLLECT", NEW s \in Subsystems
  PROVE  LET k1 == [k EXCEPT !.trans[t] = [@ EXCEPT !.wait[s] = "none"]]
             r == IF k.trans[t].type \in Global THEN Finish(k1, t) ELSE TransResult(k1, t)
         IN Good(r, Subsystems, B) /\ Apart(k, r, t) /\ ~LiveIn(r, t)
<1> DEFINE S == Subsystems
           old == k.trans[t]
           rec == [old EXCEPT !.wait[s] = "none"]
           k1 == [k EXCEPT !.trans[t] = rec]
           r == IF old.type \in Global THEN Finish(k1, t) ELSE TransResult(k1, t)
<1>1. Core(k, S, B) /\ k \in Ctls(S) /\ old \in Records(S) /\ Proper(old, S) /\ QueueInv(k)
  BY CtlFields DEF Good, Core
<1>2. rec \in Records(S) /\ rec.client = old.client
  <2> DEFINE wait == [old.wait EXCEPT ![s] = "none"]
  <2>1. wait \in [S -> Parts \cup {"none"}]
    BY <1>1, RecordFields
  <2>2. rec = [old EXCEPT !.wait = wait]
    OBVIOUS
  <2> HIDE DEF rec, wait, old
  <2> QED
    BY <1>1, <2>1, <2>2 DEF Records
<1>3. Core(r, S, B) /\ Apart(k, r, t) /\ ~LiveIn(r, t)
  <2>1. CASE old.type \in Global
    <3>1. r = Finish(k1, t)
      BY <2>1
    <3> HIDE DEF rec
    <3>2. LET q == Finish([k EXCEPT !.trans[t] = rec], t) IN
          Core(q, S, B) /\ Apart(k, q, t) /\ ~LiveIn(q, t)
      BY <1>1, <1>2, FinishKeeps
    <3> QED
      BY <3>1, <3>2
  <2>2. CASE old.type \notin Global
    <3> DEFINE q == k.transactions
    <3>1. r = TransResult(k1, t)
      BY <2>2
    <3>2. q \in Seq(Trans) /\ IsInjective(q) /\ Range(q) = Range(k.transactions) \ {t}
      BY <1>1, <2>2, CtlFields DEF QueueInv
    <3>3. k1 = [k EXCEPT !.trans[t] = rec, !.transactions = q]
      BY <1>1 DEF Ctls
    <3> HIDE DEF rec, q, k1, r
    <3>4. LET p == TransResult(k1, t) IN Core(p, S, B) /\ Apart(k, p, t) /\ ~LiveIn(p, t)
      BY <1>1, <1>2, <3>2, <3>3, TransResultKeeps
    <3> QED
      BY <3>1, <3>4
  <2> QED
    BY <2>1, <2>2
<1> HIDE DEF r
<1>4. r.start = k.start /\ r.end = k.end
      /\ \A c \in Clients : r.conn[c].state = "absent" => k.conn[c].state = "absent"
  BY <1>3 DEF Apart
<1>5. ASSUME NEW u \in Trans, NEW x \in S
      PROVE  \/ Awaits(r, u, x) = Awaits(k, u, x)
             \/ Awaits(r, u, x) \notin {"start", "dump"} /\ Awaits(k, u, x) \notin {"start", "dump"}
  <2>1. CASE u # t
    BY <1>3, <2>1 DEF Apart, Awaits, LiveIn
  <2>2. CASE u = t
    <3>1. Awaits(r, u, x) = "none"
      BY <1>3, <2>2 DEF Awaits
    <3>2. Awaits(k, u, x) \notin {"start", "dump"}
      BY <1>1, <2>2, AwaitsDump
    <3> QED
      BY <3>1, <3>2
  <2> QED
    BY <2>1, <2>2
<1>6. Good(r, S, B)
  BY <1>3, <1>4, <1>5, Unheard
<1> QED
  BY <1>3, <1>6 DEF r

\* A part of a collection reports that was not told of a dump.
LEMMA PartOfCollection ==
  ASSUME NEW S, NEW B, NEW k, NEW r, Good(k, S, B), Core(r, S, B), NEW t \in Trans, NEW s \in S,
         Apart(k, r, t), Awaits(k, t, s) \notin {"start", "dump"},
         NEW w \in {"none", "move"}, Reported(k, r, t, s, S, w)
  PROVE  Good(r, S, B)
<1>1. r.start = k.start /\ r.end = k.end
      /\ \A c \in Clients : r.conn[c].state = "absent" => k.conn[c].state = "absent"
  BY DEF Apart
<1>2. \A u \in Trans, x \in S :
        \/ Awaits(r, u, x) = Awaits(k, u, x)
        \/ Awaits(r, u, x) \notin {"start", "dump"} /\ Awaits(k, u, x) \notin {"start", "dump"}
  BY DEF Reported
<1> QED
  BY <1>1, <1>2, Unheard

------------------------------------------------------------------------------
(* A transaction is created.                                               *)

LEMMA NewIdIsFree ==
  ASSUME FreeTrans # {}
  PROVE  NewId \in Trans /\ ctl.trans[NewId].type = "none"
<1>1. FreeTrans \in SUBSET Nat
  BY ControlAssumption DEF FreeTrans, Trans
<1>2. \E t \in FreeTrans : \A u \in FreeTrans : t <= u
  BY <1>1, LeastOf
<1>3. NewId \in FreeTrans
  BY <1>2 DEF NewId
<1> QED
  BY <1>3 DEF FreeTrans

\* Others are not concerned; if it is one of those that look at the queue none of
\* them is being executed.
LEMMA CreatedKeeps ==
  ASSUME NEW B, Core(ctl, Subsystems, B), FreeTrans # {}, NEW c \in Clients, Requesting(c),
         NEW type \in Global \cup OfModem, NEW state, NEW wait, NEW missing,
         NEW rec \in Records(Subsystems),
         rec = [type |-> type, client |-> c, state |-> state, wait |-> wait, missing |-> missing],
         Proper(rec, Subsystems), DumpsAwaited(rec, Subsystems, B),
         Runs(rec) => ctl.transactions = <<>>
  PROVE  LET r == Created(c, type, state, wait, missing) IN
         /\ Core(r, Subsystems, B) /\ r.start = ctl.start /\ r.end = ctl.end
         /\ \A d \in Clients : r.conn[d].state = "absent" => ctl.conn[d].state = "absent"
         /\ \A u \in Trans : u # NewId => r.trans[u] = ctl.trans[u]
         /\ r.trans[NewId] = rec
<1> DEFINE S == Subsystems
           t == NewId
           conn == [ctl.conn[c] EXCEPT !.state = "CTS_EXECUTING", !.reading = FALSE, !.cur_trans = t]
           q == IF type \in Global THEN Append(ctl.transactions, t) ELSE ctl.transactions
           r == Created(c, type, state, wait, missing)
<1>1. /\ ctl \in Ctls(S) /\ Coupled(ctl) /\ QueueInv(ctl) /\ OneRuns(ctl)
      /\ \A u \in Trans : Proper(ctl.trans[u], S) /\ DumpsAwaited(ctl.trans[u], S, B)
  BY DEF Core
<1>2. t \in Trans /\ ~LiveIn(ctl, t)
  BY NewIdIsFree DEF LiveIn
<1>3. r = [ctl EXCEPT !.trans[t] = rec, !.conn[c] = conn, !.transactions = q]
  BY DEF Created
<1> HIDE DEF t
<1>4. /\ ctl.conn[c] \in Conns /\ ctl.conn[c].state = "CTS_IDLE"
      /\ ctl.transactions \in Seq(Trans)
  BY <1>1, CtlFields DEF Requesting, Coupled
<1>5. conn \in Conns /\ conn.state = "CTS_EXECUTING" /\ ~conn.reading /\ conn.cur_trans = t
  BY <1>2, <1>4 DEF Conns
<1>6. q \in Seq(Trans)
  BY <1>2, <1>4
<1>7. rec.type = type /\ rec.client = c /\ rec.type # "none"
  BY DEF Global, OfModem
<1> HIDE DEF conn, r
<1>8. /\ r \in Ctls(S) /\ r.transactions = q /\ r.start = ctl.start /\ r.end = ctl.end
      /\ r.conn = [ctl.conn EXCEPT ![c] = conn] /\ r.trans = [ctl.trans EXCEPT ![t] = rec]
  <2> HIDE DEF q
  <2> QED
    BY <1>1, <1>2, <1>3, <1>5, <1>6 DEF Ctls
<1>9. /\ r.trans[t] = rec /\ \A u \in Trans : u # t => r.trans[u] = ctl.trans[u]
      /\ r.conn[c] = conn /\ \A d \in Clients : d # c => r.conn[d] = ctl.conn[d]
  BY <1>1, <1>2, <1>8, CtlFields
<1>10. Coupled(r)
  <2>1. ASSUME NEW u \in Trans, LiveIn(r, u)
        PROVE  /\ r.trans[u].client \in Clients
               /\ r.conn[r.trans[u].client].state = "CTS_EXECUTING"
               /\ r.conn[r.trans[u].client].cur_trans = u
    <3>1. CASE u = t
      BY <1>5, <1>7, <1>9, <3>1
    <3>2. CASE u # t
      <4>1. r.trans[u] = ctl.trans[u] /\ LiveIn(ctl, u)
        BY <1>9, <2>1, <3>2 DEF LiveIn
      <4>2. ctl.trans[u].client \in Clients /\ ctl.conn[ctl.trans[u].client].cur_trans = u
            /\ ctl.conn[ctl.trans[u].client].state = "CTS_EXECUTING"
        BY <1>1, <4>1 DEF Coupled
      <4>3. ctl.trans[u].client # c
        BY <1>4, <4>2
      <4> QED
        BY <1>9, <4>1, <4>2, <4>3
    <3> QED
      BY <3>1, <3>2
  <2>2. ASSUME NEW d \in Clients
        PROVE  /\ r.conn[d].reading <=> r.conn[d].state = "CTS_IDLE"
               /\ r.conn[d].state = "CTS_EXECUTING" =>
                    /\ r.conn[d].cur_trans \in Trans /\ LiveIn(r, r.conn[d].cur_trans)
                    /\ r.trans[r.conn[d].cur_trans].client = d
    <3>1. CASE d = c
      BY <1>2, <1>5, <1>7, <1>9, <3>1 DEF LiveIn
    <3>2. CASE d # c
      <4> DEFINE u == ctl.conn[d].cur_trans
      <4>1. r.conn[d] = ctl.conn[d]
        BY <1>9, <3>2
      <4>2. /\ ctl.conn[d].reading <=> ctl.conn[d].state = "CTS_IDLE"
            /\ ctl.conn[d].state = "CTS_EXECUTING" =>
                 u \in Trans /\ LiveIn(ctl, u) /\ ctl.trans[u].client = d
        BY <1>1 DEF Coupled
      <4>3. ASSUME ctl.conn[d].state = "CTS_EXECUTING"
            PROVE  u \in Trans /\ LiveIn(r, u) /\ r.trans[u].client = d
        <5>1. u \in Trans /\ LiveIn(ctl, u) /\ ctl.trans[u].client = d
          BY <4>2, <4>3
        <5>2. u # t
          BY <1>2, <5>1
        <5> QED
          BY <1>9, <5>1, <5>2 DEF LiveIn
      <4> QED
        BY <4>1, <4>2, <4>3
    <3> QED
      BY <3>1, <3>2
  <2> QED
    BY <2>1, <2>2 DEF Coupled
<1>11. QueueInv(r)
  <2> DEFINE l == ctl.transactions
  <2>1. Range(l) = {u \in Trans : ctl.trans[u].type \in Global} /\ IsInjective(l)
    BY <1>1 DEF QueueInv
  <2>2. t \notin Range(l)
    BY <1>2, <2>1 DEF LiveIn, Global
  <2>3. CASE type \in Global
    <3>1. /\ q = Append(l, t) /\ DOMAIN l = 1 .. Len(l) /\ Len(l) \in Nat
          /\ DOMAIN q = 1 .. Len(l) + 1 /\ q[Len(l) + 1] = t /\ \A i \in DOMAIN l : q[i] = l[i]
      BY <1>4, <2>3
    <3>2. \A i \in DOMAIN q : i \in DOMAIN l \/ i = Len(l) + 1
      BY <3>1
    <3>3. \A i \in DOMAIN l : i \in DOMAIN q /\ i # Len(l) + 1
      BY <3>1
    <3>4. Len(l) + 1 \in DOMAIN q
      BY <3>1
    <3> HIDE DEF q, l
    <3>5. Range(q) = Range(l) \cup {t}
      BY <3>1, <3>2, <3>3, <3>4 DEF Range
    <3>6. IsInjective(q)
      <4>1. \A i \in DOMAIN l : l[i] # t
        BY <2>2 DEF Range
      <4> QED
        BY <2>1, <3>1, <3>2, <3>3, <4>1 DEF IsInjective
    <3>7. Range(q) = {u \in Trans : r.trans[u].type \in Global}
      BY <1>2, <1>7, <1>9, <2>1, <2>3, <3>5
    <3> QED
      BY <1>8, <3>6, <3>7 DEF QueueInv
  <2>4. CASE type \notin Global
    <3>1. {u \in Trans : r.trans[u].type \in Global} = Range(l)
      BY <1>2, <1>7, <1>9, <2>1, <2>2, <2>4
    <3> QED
      BY <1>8, <2>1, <2>4, <3>1 DEF QueueInv
  <2> QED
    BY <2>3, <2>4
<1>12. OneRuns(r)
  <2>1. CASE Runs(rec)
    <3>1. Range(ctl.transactions) = {}
      BY <2>1 DEF Range
    <3>2. \A u \in Trans : ~Runs(ctl.trans[u])
      BY <1>1, <3>1 DEF QueueInv, Runs, Exclusive, Global
    <3> QED
      BY <1>9, <3>2 DEF OneRuns
  <2>2. CASE ~Runs(rec)
    BY <1>1, <1>9, <2>2 DEF OneRuns
  <2> QED
    BY <2>1, <2>2
<1>13. ASSUME NEW u \in Trans
       PROVE  Proper(r.trans[u], S) /\ DumpsAwaited(r.trans[u], S, B)
  BY <1>1, <1>9
<1>14. Core(r, S, B)
  BY <1>8, <1>10, <1>11, <1>12, <1>13 DEF Core
<1>15. \A d \in Clients : r.conn[d].state = "absent" => ctl.conn[d].state = "absent"
  BY <1>5, <1>9
<1> QED
  BY <1>8, <1>9, <1>14, <1>15 DEF r, t

\* ... that is not told of dumps.
LEMMA CreatedIsGood ==
  ASSUME NEW B, Good(ctl, Subsystems, B), FreeTrans # {}, NEW c \in Clients, Requesting(c),
         NEW type \in Global \cup OfModem, NEW state, NEW wait, NEW missing,
         NEW rec \in Records(Subsystems),
         rec = [type |-> type, client |-> c, state |-> state, wait |-> wait, missing |-> missing],
         Proper(rec, Subsystems), DumpsAwaited(rec, Subsystems, B),
         Runs(rec) => ctl.transactions = <<>>,
         \A s \in Subsystems : wait[s] \notin {"start", "dump"}
  PROVE  Good(Created(c, type, state, wait, missing), Subsystems, B)
<1> DEFINE r == Created(c, type, state, wait, missing)
<1>1. Core(ctl, Subsystems, B)
  BY DEF Good
<1>2. /\ Core(r, Subsystems, B) /\ r.start = ctl.start /\ r.end = ctl.end
      /\ \A d \in Clients : r.conn[d].state = "absent" => ctl.conn[d].state = "absent"
      /\ \A u \in Trans : u # NewId => r.trans[u] = ctl.trans[u]
      /\ r.trans[NewId] = rec
  BY <1>1, CreatedKeeps
<1>3. NewId \in Trans /\ ~LiveIn(ctl, NewId)
  BY NewIdIsFree DEF LiveIn
<1> HIDE DEF r
<1>4. ASSUME NEW t \in Trans, NEW s \in Subsystems
      PROVE  \/ Awaits(r, t, s) = Awaits(ctl, t, s)
             \/ Awaits(r, t, s) \notin {"start", "dump"} /\ Awaits(ctl, t, s) \notin {"start", "dump"}
  <2>1. CASE t = NewId
    BY <1>2, <1>3, <2>1 DEF Awaits
  <2>2. CASE t # NewId
    BY <1>2, <2>2 DEF Awaits, LiveIn
  <2> QED
    BY <2>1, <2>2
<1>5. Good(r, Subsystems, B)
  BY <1>2, <1>4, Unheard
<1> QED
  BY <1>5 DEF r

\* One that waits in the queue.
LEMMA EnqueuedIsGood ==
  ASSUME NEW B, Good(ctl, Subsystems, B), FreeTrans # {}, NEW c \in Clients, Requesting(c),
         NEW type \in {"ENABLE_LOG", "DISABLE_LOG", "WCN_LAST_LOG"}
  PROVE  Good(Enqueued(c, type), Subsystems, B)
<1> DEFINE rec == [type |-> type, client |-> c, state |-> "TS_NOT_BEGIN", wait |-> NoParts,
                   missing |-> 0]
<1>1. type \in Global \cup OfModem
  BY DEF Global
<1>2. /\ NoParts \in [Subsystems -> Parts \cup {"none"}]
      /\ \A s \in Subsystems : NoParts[s] = "none"
  BY DEF NoParts
<1>3. rec \in Records(Subsystems)
  BY <1>1, <1>2 DEF Records
<1>4. Proper(rec, Subsystems) /\ DumpsAwaited(rec, Subsystems, B) /\ ~Runs(rec)
  BY <1>2 DEF Proper, DumpsAwaited, Runs, Awaited, MayAwait
<1>5. \A s \in Subsystems : NoParts[s] \notin {"start", "dump"}
  BY <1>2
<1> HIDE DEF rec
<1>6. rec = [type |-> type, client |-> c, state |-> "TS_NOT_BEGIN", wait |-> NoParts, missing |-> 0]
  BY DEF rec
<1>7. Good(Created(c, type, "TS_NOT_BEGIN", NoParts, 0), Subsystems, B)
  BY <1>1, <1>3, <1>4, <1>5, <1>6, CreatedIsGood
<1> QED
  BY <1>7 DEF Enqueued

\* One that waits for one subsystem to report.
LEMMA OnePartIsGood ==
  ASSUME NEW B, Good(ctl, Subsystems, B), FreeTrans # {}, NEW c \in Clients, Requesting(c),
         NEW type \in Global \cup OfModem, type # "LOG_COLLECT",
         type \in Exclusive => ctl.transactions = <<>>,
         NEW s \in Subsystems, NEW w \in {"timer", "modem"}, MayAwait(type, s, w)
  PROVE  Good(Created(c, type, "TS_EXECUTING", [NoParts EXCEPT ![s] = w], 0), Subsystems, B)
<1> DEFINE wait == [NoParts EXCEPT ![s] = w]
           rec == [type |-> type, client |-> c, state |-> "TS_EXECUTING", wait |-> wait, missing |-> 0]
<1>1. /\ wait \in [Subsystems -> Parts \cup {"none"}] /\ wait[s] = w
      /\ \A x \in Subsystems : x # s => wait[x] = "none"
  BY DEF NoParts, Parts
<1> HIDE DEF wait
<1>2. rec \in Records(Subsystems)
  BY <1>1 DEF Records
<1>3. Proper(rec, Subsystems)
  <2>1. s \in Awaited(rec, Subsystems)
    BY <1>1 DEF Awaited
  <2>2. \A x \in Subsystems : MayAwait(type, x, wait[x])
    BY <1>1 DEF MayAwait
  <2> QED
    BY <2>1, <2>2 DEF Proper
<1>4. DumpsAwaited(rec, Subsystems, B)
  BY <1>1 DEF DumpsAwaited
<1>5. Runs(rec) => ctl.transactions = <<>>
  BY DEF Runs
<1>6. \A x \in Subsystems : wait[x] \notin {"start", "dump"}
  BY <1>1
<1> HIDE DEF rec
<1>7. rec = [type |-> type, client |-> c, state |-> "TS_EXECUTING", wait |-> wait, missing |-> 0]
  BY DEF rec
<1>8. Good(Created(c, type, "TS_EXECUTING", wait, 0), Subsystems, B)
  BY <1>2, <1>3, <1>4, <1>5, <1>6, <1>7, CreatedIsGood
<1> QED
  BY <1>8 DEF wait

------------------------------------------------------------------------------
(* The inductive invariant.                                                *)

Dumping == {s \in Subsystems : dumps[s] > 0}

\* The state of each subsystem; of one that dumps there is a dump.
CpGood(cp, d, S) ==
  /\ cp \in [S -> {"CWS_WORKING", "CWS_NOT_WORKING", "CWS_DUMP"}]
  /\ d \in [S -> Nat]
  /\ \A s \in S : cp[s] = "CWS_DUMP" => d[s] > 0

\* The log modes, which are written down.
ModesGood(modes, written, S) ==
  /\ modes \in [S -> Modes] /\ written \in [S -> Modes]
  /\ \A s \in S : \/ written[s] = modes[s]
                  \/ s = "MODEM" /\ modes[s] = "LM_EVENT" /\ written[s] = "LM_NORMAL"

IInv ==
  /\ Subsystems \subseteq AllSubsystems
  /\ Good(ctl, Subsystems, Dumping)
  /\ CpGood(cp_state, dumps, Subsystems)
  /\ ModesGood(log_mode, config, Subsystems)

LEMMA SubsystemsFinite ==
  ASSUME Subsystems \subseteq AllSubsystems
  PROVE  IsFiniteSet(Subsystems)
<1>1. IsFiniteSet({}) /\ IsFiniteSet({"MODEM"}) /\ IsFiniteSet({"WCN"}) /\ IsFiniteSet({"PM_SH"})
      /\ IsFiniteSet({"AGDSP"}) /\ IsFiniteSet({"GNSS"})
  BY FS_EmptySet, FS_Singleton
<1>2. IsFiniteSet({"MODEM"} \cup {"WCN"} \cup {"PM_SH"} \cup {"AGDSP"} \cup {"GNSS"})
  BY <1>1, FS_Union
<1>3. AllSubsystems = {"MODEM"} \cup {"WCN"} \cup {"PM_SH"} \cup {"AGDSP"} \cup {"GNSS"}
  BY DEF AllSubsystems
<1> QED
  BY <1>2, <1>3, FS_Subset

\* Steps of clients and of transactions, which leave the subsystems alone.
LEMMA ControlStep ==
  ASSUME IInv, UNCHANGED cpVars, Good(ctl', Subsystems, Dumping),
         ModesGood(log_mode', config', Subsystems)
  PROVE  IInv'
<1>1. Subsystems' = Subsystems /\ Dumping' = Dumping /\ cp_state' = cp_state /\ dumps' = dumps
  BY DEF cpVars, buildVars, Subsystems, Dumping
<1> QED
  BY <1>1 DEF IInv

LEMMA ControlOnlyStep ==
  ASSUME IInv, UNCHANGED <<modeVars, cpVars>>, Good(ctl', Subsystems, Dumping)
  PROVE  IInv'
<1>1. UNCHANGED cpVars /\ log_mode' = log_mode /\ config' = config
  BY DEF modeVars
<1>2. ModesGood(log_mode', config', Subsystems)
  BY <1>1 DEF IInv
<1> QED
  BY <1>1, <1>2, ControlStep

------------------------------------------------------------------------------
(* Requests.                                                               *)

LEMMA ExecuteEnableLogKeeps ==
  ASSUME IInv, FreeTrans # {}, NEW c \in Clients, Requesting(c), ctl.transactions = <<>>,
         NEW subsys \in SUBSET Subsystems, ExecuteEnableLog(c, subsys)
  PROVE  Good(ctl', Subsystems, Dumping) /\ ModesGood(log_mode', config', Subsystems)
<1> DEFINE Turned(modes, on) == [s \in Subsystems |-> IF s \in on THEN "LM_NORMAL" ELSE modes[s]]
<1>1. PICK m \in IF "MODEM" \in subsys THEN StartNormalLog ELSE {"none"} :
        LET later == IF m = "modem" THEN {"MODEM"} ELSE {}
            failed == IF m = "failed" THEN {"MODEM"} ELSE {}
        IN /\ log_mode' = Turned(log_mode, subsys \ (later \cup failed))
           /\ config' = Turned(config, subsys \ later)
           /\ ctl' = IF later = {} THEN ctl
                     ELSE Created(c, "ENABLE_LOG", "TS_EXECUTING", [NoParts EXCEPT !["MODEM"] = m], 0)
  BY DEF ExecuteEnableLog
<1>2. Good(ctl, Subsystems, Dumping) /\ ModesGood(log_mode, config, Subsystems)
  BY DEF IInv
<1>3. /\ m \in {"modem", "failed", "none"} /\ m # "none" => "MODEM" \in Subsystems
      /\ m = "failed" => log_mode["MODEM"] = "LM_EVENT"
  BY <1>1 DEF StartNormalLog
<1>4. Good(ctl', Subsystems, Dumping)
  <2>1. CASE m = "modem"
    <3>1. "MODEM" \in Subsystems /\ MayAwait("ENABLE_LOG", "MODEM", "modem")
          /\ "ENABLE_LOG" \in Global \cup OfModem
      BY <1>3, <2>1 DEF MayAwait, Global
    <3>2. Good(Created(c, "ENABLE_LOG", "TS_EXECUTING", [NoParts EXCEPT !["MODEM"] = "modem"], 0),
               Subsystems, Dumping)
      BY <1>2, <3>1, OnePartIsGood
    <3> QED
      BY <1>1, <2>1, <3>2
  <2>2. CASE m # "modem"
    BY <1>1, <1>2, <2>2
  <2> QED
    BY <2>1, <2>2
<1>5. ModesGood(log_mode', config', Subsystems)
  BY <1>1, <1>2, <1>3 DEF ModesGood, Modes
<1> QED
  BY <1>4, <1>5

LEMMA ExecuteDisableLogKeeps ==
  ASSUME IInv, FreeTrans # {}, NEW c \in Clients, Requesting(c), ctl.transactions = <<>>,
         NEW subsys \in SUBSET Subsystems, ExecuteDisableLog(c, subsys)
  PROVE  Good(ctl', Subsystems, Dumping) /\ ModesGood(log_mode', config', Subsystems)
<1> DEFINE Wait(m) == [s \in Subsystems |->
                         CASE s = "MODEM" /\ m = "modem" -> "modem"
                           [] s = "WCN" /\ s \in subsys -> StopWcnLog
                           [] OTHER -> "none"]
           Off(m) == {s \in subsys : Wait(m)[s] = "none" /\ (s = "MODEM" => m # "failed")}
           Turned(modes, off) == [s \in Subsystems |-> IF s \in off THEN "LM_OFF" ELSE modes[s]]
<1>1. PICK m \in IF "MODEM" \in subsys THEN StopLog ELSE {"none"} :
        /\ log_mode' = Turned(log_mode, Off(m))
        /\ config' = Turned(config, Off(m))
        /\ ctl' = IF Wait(m) = NoParts THEN ctl
                  ELSE Created(c, "DISABLE_LOG", "TS_EXECUTING", Wait(m), 0)
  BY DEF ExecuteDisableLog
<1> DEFINE wait == Wait(m)
           off == Off(m)
<1>2. Good(ctl, Subsystems, Dumping) /\ ModesGood(log_mode, config, Subsystems)
  BY DEF IInv
<1>3. wait \in [Subsystems -> {"none", "modem", "wcn"}]
      /\ \A s \in Subsystems : /\ wait[s] = "modem" => s = "MODEM"
                               /\ wait[s] = "wcn" => s = "WCN" /\ s \in Dumping
  BY DEF StopWcnLog, Dumping
<1>4. ModesGood(log_mode', config', Subsystems)
  <2>1. log_mode' = Turned(log_mode, off) /\ config' = Turned(config, off)
    BY <1>1
  <2> HIDE DEF off
  <2> QED
    BY <1>2, <2>1 DEF ModesGood, Modes
<1>5. ctl' = IF wait = NoParts THEN ctl ELSE Created(c, "DISABLE_LOG", "TS_EXECUTING", wait, 0)
  BY <1>1
<1> HIDE DEF wait, off
<1>6. CASE wait = NoParts
  BY <1>2, <1>4, <1>5, <1>6
<1>7. CASE wait # NoParts
  <2> DEFINE rec == [type |-> "DISABLE_LOG", client |-> c, state |-> "TS_EXECUTING",
                     wait |-> wait, missing |-> 0]
  <2>1. rec \in Records(Subsystems)
    BY <1>3 DEF Records, Parts, Global
  <2>2. Proper(rec, Subsystems)
    <3>1. \E s \in Subsystems : wait[s] # "none"
      BY <1>3, <1>7 DEF NoParts
    <3>2. Awaited(rec, Subsystems) # {}
      BY <3>1 DEF Awaited
    <3>3. \A s \in Subsystems : MayAwait("DISABLE_LOG", s, wait[s])
      BY <1>3 DEF MayAwait
    <3> QED
      BY <3>2, <3>3 DEF Proper
  <2>3. DumpsAwaited(rec, Subsystems, Dumping)
    BY <1>3 DEF DumpsAwaited
  <2>4. \A s \in Subsystems : wait[s] \notin {"start", "dump"}
    BY <1>3
  <2>5. "DISABLE_LOG" \in Global \cup OfModem
    BY DEF Global
  <2> HIDE DEF rec
  <2>6. rec = [type |-> "DISABLE_LOG", client |-> c, state |-> "TS_EXECUTING",
               wait |-> wait, missing |-> 0]
    BY DEF rec
  <2>7. Good(Created(c, "DISABLE_LOG", "TS_EXECUTING", wait, 0), Subsystems, Dumping)
    BY <1>2, <2>1, <2>2, <2>3, <2>4, <2>5, <2>6, CreatedIsGood
  <2> QED
    BY <1>4, <1>5, <1>7, <2>7
<1> QED
  BY <1>6, <1>7

\* What the parts of a collection begin to wait for.
LEMMA CollectionAwaits ==
  ASSUME IInv, NEW s \in Subsystems, NEW w \in StartSubsysCol(s)
  PROVE  /\ w \in Parts \cup {"none"} /\ MayAwait("LOG_COLLECT", s, w)
         /\ w # "wcn" /\ (w = "dump" => s \in Dumping)
<1>1. s \in AllSubsystems /\ (cp_state[s] = "CWS_DUMP" => s \in Dumping)
  BY DEF IInv, CpGood, Dumping
<1>2. CASE s = "MODEM"
  BY <1>1, <1>2 DEF StartSubsysCol, CollectModem, Parts, MayAwait
<1>3. CASE s = "WCN"
  <2>1. w \in CollectExtWcn \/ w \in CollectIntWcn
    BY <1>3 DEF StartSubsysCol
  <2> QED
    BY <1>1, <1>3, <2>1 DEF CollectExtWcn, CollectIntWcn, Parts, MayAwait
<1>4. CASE s = "PM_SH"
  BY <1>1, <1>4 DEF StartSubsysCol, CollectPmSh, Parts, MayAwait
<1>5. CASE s = "GNSS"
  BY <1>1, <1>5 DEF StartSubsysCol, CollectGnss, Parts, MayAwait
<1>6. CASE s = "AGDSP"
  BY <1>1, <1>6 DEF StartSubsysCol, CollectAgDsp, Parts, MayAwait
<1> QED
  BY <1>1, <1>2, <1>3, <1>4, <1>5, <1>6 DEF AllSubsystems

LEMMA ExecuteLogCollectKeeps ==
  ASSUME IInv, FreeTrans # {}, NEW c \in Clients, Requesting(c),
         NEW wait \in [Subsystems -> Parts \cup {"none"}],
         \A s \in Subsystems : /\ MayAwait("LOG_COLLECT", s, wait[s])
                               /\ wait[s] # "wcn" /\ (wait[s] = "dump" => s \in Dumping)
  PROVE  Good(ExecuteLogCollect(c, wait), Subsystems, Dumping)
<1> DEFINE S == Subsystems
           t == NewId
           parts == {s \in S : wait[s] # "none"}
           k == Created(c, "LOG_COLLECT", "TS_EXECUTING", wait, Cardinality(parts))
           start == [s \in S |-> IF wait[s] \in {"start"} THEN AddClient(k.start[s], t) ELSE k.start[s]]
           end == [s \in S |-> IF wait[s] \in {"start", "dump"} THEN AddClient(k.end[s], t) ELSE k.end[s]]
           r == [k EXCEPT !.start = start, !.end = end]
           rec == [type |-> "LOG_COLLECT", client |-> c, state |-> "TS_EXECUTING",
                   wait |-> wait, missing |-> Cardinality(parts)]
<1>1. Good(ctl, S, Dumping) /\ Core(ctl, S, Dumping) /\ ToldInv(ctl, S) /\ QuietBut(ctl, S, S)
      /\ IsFiniteSet(S)
  BY SubsystemsFinite DEF IInv, Good
<1>2. CASE parts = {}
  BY <1>1, <1>2 DEF ExecuteLogCollect
<1>3. CASE parts # {}
  <2>1. ExecuteLogCollect(c, wait) = r
    BY <1>3 DEF ExecuteLogCollect
  <2>2. IsFiniteSet(parts) /\ Cardinality(parts) \in Nat
    <3>1. IsFiniteSet(parts)
      BY <1>1, FS_Subset
    <3> QED
      BY <3>1, FS_CardinalityType
  <2>3. rec \in Records(S) /\ rec.type = "LOG_COLLECT" /\ rec.wait = wait
    <3> HIDE DEF parts
    <3> QED
      BY <2>2 DEF Records, Global
  <2>4. Proper(rec, S)
    <3>1. Awaited(rec, S) = parts
      BY DEF Awaited
    <3> HIDE DEF parts
    <3> QED
      BY <1>3, <3>1 DEF Proper
  <2>5. DumpsAwaited(rec, S, Dumping) /\ ~Runs(rec)
    BY DEF DumpsAwaited, Runs, Exclusive
  <2> DEFINE n == Cardinality(parts)
  <2>6. rec = [type |-> "LOG_COLLECT", client |-> c, state |-> "TS_EXECUTING", wait |-> wait,
               missing |-> n]
    OBVIOUS
  <2>7. k = Created(c, "LOG_COLLECT", "TS_EXECUTING", wait, n)
    OBVIOUS
  <2>8. "LOG_COLLECT" \in Global \cup OfModem
    BY DEF Global
  <2>9. /\ Core(k, S, Dumping) /\ k.start = ctl.start /\ k.end = ctl.end
        /\ \A d \in Clients : k.conn[d].state = "absent" => ctl.conn[d].state = "absent"
        /\ \A u \in Trans : u # NewId => k.trans[u] = ctl.trans[u]
        /\ k.trans[NewId] = rec
    <3> HIDE DEF rec, n, k, parts
    <3>1. LET q == Created(c, "LOG_COLLECT", "TS_EXECUTING", wait, n) IN
          /\ Core(q, S, Dumping) /\ q.start = ctl.start /\ q.end = ctl.end
          /\ \A d \in Clients : q.conn[d].state = "absent" => ctl.conn[d].state = "absent"
          /\ \A u \in Trans : u # NewId => q.trans[u] = ctl.trans[u]
          /\ q.trans[NewId] = rec
      BY <1>1, <2>3, <2>4, <2>5, <2>6, <2>8, CreatedKeeps
    <3> QED
      BY <2>7, <3>1
  <2>10. t \in Trans /\ ~LiveIn(ctl, t)
    BY NewIdIsFree DEF LiveIn
  <2>11. ASSUME NEW s \in S
         PROVE  /\ start[s] \in Notifiers /\ Quiet(start[s])
                /\ Subscribed(start[s]) = IF wait[s] = "start" THEN Subscribed(ctl.start[s]) \cup {t}
                                          ELSE Subscribed(ctl.start[s])
                /\ end[s] \in Notifiers /\ Quiet(end[s])
                /\ Subscribed(end[s]) = IF wait[s] \in {"start", "dump"} THEN Subscribed(ctl.end[s]) \cup {t}
                                        ELSE Subscribed(ctl.end[s])
    <3> DEFINE a == ctl.start[s]
               e == ctl.end[s]
    <3>1. a \in Notifiers /\ Quiet(a) /\ e \in Notifiers /\ Quiet(e)
      BY <1>1, CtlFields DEF Core, QuietBut
    <3>2. /\ start[s] = IF wait[s] = "start" THEN AddClient(a, t) ELSE a
          /\ end[s] = IF wait[s] \in {"start", "dump"} THEN AddClient(e, t) ELSE e
      BY <2>9
    <3> HIDE DEF t, a, e, start, end
    <3>3. /\ AddClient(a, t) \in Notifiers /\ Quiet(AddClient(a, t))
          /\ Subscribed(AddClient(a, t)) = Subscribed(a) \cup {t}
          /\ AddClient(e, t) \in Notifiers /\ Quiet(AddClient(e, t))
          /\ Subscribed(AddClient(e, t)) = Subscribed(e) \cup {t}
      BY <2>10, <3>1, AddedToQuiet
    <3> QED
      BY <3>1, <3>2, <3>3 DEF a, e
  <2>12. /\ DOMAIN start = S /\ DOMAIN end = S
         /\ start = [s \in S |-> start[s]] /\ end = [s \in S |-> end[s]]
    OBVIOUS
  <2> HIDE DEF start, end, k, rec, t
  <2>13. start \in [S -> Notifiers] /\ end \in [S -> Notifiers]
    BY <2>11, <2>12
  <2>14. /\ r \in Ctls(S) /\ r.conn = k.conn /\ r.trans = k.trans /\ r.transactions = k.transactions
         /\ r.start = start /\ r.end = end
    BY <2>9, <2>13 DEF Core, Ctls
  <2> HIDE DEF r
  <2>15. Core(r, S, Dumping)
    BY <2>9, <2>14, CoreFrom
  <2>16. r.trans[t] = rec /\ \A u \in Trans : u # t => r.trans[u] = ctl.trans[u]
    BY <2>9, <2>14 DEF t
  <2>17. \A u \in Trans, s \in S : Awaits(r, u, s) = IF u = t THEN wait[s] ELSE Awaits(ctl, u, s)
    BY <2>3, <2>16 DEF Awaits, LiveIn
  <2>18. \A s \in S : Awaits(ctl, t, s) = "none"
    BY <2>10 DEF Awaits
  <2>19. ToldInv(r, S)
    <3> SUFFICES ASSUME NEW s \in S
                 PROVE  /\ \A d \in Clients : d \in Subscribed(r.start[s]) => r.conn[d].state # "absent"
                        /\ \A u \in Trans : u \in Subscribed(r.start[s]) => Awaits(r, u, s) = "start"
                        /\ \A u \in Trans : u \in Subscribed(r.end[s]) <=> Awaits(r, u, s) \in {"start", "dump"}
      BY DEF ToldInv
    <3>1. /\ \A d \in Clients : d \in Subscribed(ctl.start[s]) => ctl.conn[d].state # "absent"
          /\ \A u \in Trans : u \in Subscribed(ctl.start[s]) => Awaits(ctl, u, s) = "start"
          /\ \A u \in Trans : u \in Subscribed(ctl.end[s]) <=> Awaits(ctl, u, s) \in {"start", "dump"}
      BY <1>1 DEF ToldInv
    <3>2. \A d \in Clients : d # t
      BY <2>10, ControlAssumption DEF Trans
    <3>3. /\ Subscribed(r.start[s]) = IF wait[s] = "start" THEN Subscribed(ctl.start[s]) \cup {t}
                                      ELSE Subscribed(ctl.start[s])
          /\ Subscribed(r.end[s]) = IF wait[s] \in {"start", "dump"} THEN Subscribed(ctl.end[s]) \cup {t}
                                    ELSE Subscribed(ctl.end[s])
      BY <2>11, <2>14
    <3>4. \A d \in Clients : d \in Subscribed(r.start[s]) => r.conn[d].state # "absent"
      BY <2>9, <2>14, <3>1, <3>2, <3>3
    <3>5. \A u \in Trans : u \in Subscribed(r.start[s]) => Awaits(r, u, s) = "start"
      <4>1. ASSUME NEW u \in Trans, u \in Subscribed(r.start[s])
            PROVE  Awaits(r, u, s) = "start"
        <5>1. CASE u = t
          <6>1. u \notin Subscribed(ctl.start[s])
            BY <2>10, <2>18, <3>1, <5>1
          <6> QED
            BY <2>10, <2>17, <3>3, <4>1, <5>1, <6>1
        <5>2. CASE u # t
          BY <2>17, <3>1, <3>3, <4>1, <5>2
        <5> QED
          BY <5>1, <5>2
      <4> QED
        BY <4>1
    <3>6. \A u \in Trans : u \in Subscribed(r.end[s]) <=> Awaits(r, u, s) \in {"start", "dump"}
      <4>1. ASSUME NEW u \in Trans
            PROVE  u \in Subscribed(r.end[s]) <=> Awaits(r, u, s) \in {"start", "dump"}
        <5>1. CASE u = t
          <6>1. u \notin Subscribed(ctl.end[s])
            BY <2>10, <2>18, <3>1, <5>1
          <6> QED
            BY <2>10, <2>17, <3>3, <5>1, <6>1
        <5>2. CASE u # t
          BY <2>17, <3>1, <3>3, <5>2
        <5> QED
          BY <5>1, <5>2
      <4> QED
        BY <4>1
    <3> QED
      BY <3>4, <3>5, <3>6
  <2>20. QuietBut(r, S, S)
    BY <2>11, <2>14 DEF QuietBut
  <2> QED
    BY <2>1, <2>15, <2>19, <2>20 DEF Good
<1> QED
  BY <1>2, <1>3

------------------------------------------------------------------------------
(* Connections and subscriptions.                                          *)

\* A connected client comes to the lists or leaves them.
LEMMA ClientListsChange ==
  ASSUME NEW S, NEW B, NEW k, Good(k, S, B), NEW c \in Clients, k.conn[c].state # "absent",
         NEW r \in Ctls(S), r.conn = k.conn, r.trans = k.trans, r.transactions = k.transactions,
         \A s \in S : /\ Quiet(r.start[s]) /\ Quiet(r.end[s])
                      /\ Subscribed(r.start[s]) \ {c} = Subscribed(k.start[s]) \ {c}
                      /\ Subscribed(r.end[s]) \ {c} = Subscribed(k.end[s]) \ {c}
  PROVE  Good(r, S, B)
<1>1. Core(k, S, B) /\ ToldInv(k, S)
  BY DEF Good
<1>2. Core(r, S, B) /\ \A t \in Trans, s \in S : Awaits(r, t, s) = Awaits(k, t, s)
  BY <1>1, CoreFrom
<1>3. \A t \in Trans : t # c
  BY ControlAssumption DEF Trans
<1>4. ASSUME NEW s \in S
      PROVE  /\ \A d \in Clients : d \in Subscribed(r.start[s]) => r.conn[d].state # "absent"
             /\ \A t \in Trans : t \in Subscribed(r.start[s]) => Awaits(r, t, s) = "start"
             /\ \A t \in Trans : t \in Subscribed(r.end[s]) <=> Awaits(r, t, s) \in {"start", "dump"}
  <2>1. /\ \A d \in Clients : d \in Subscribed(k.start[s]) => k.conn[d].state # "absent"
        /\ \A t \in Trans : t \in Subscribed(k.start[s]) => Awaits(k, t, s) = "start"
        /\ \A t \in Trans : t \in Subscribed(k.end[s]) <=> Awaits(k, t, s) \in {"start", "dump"}
    BY <1>1 DEF ToldInv
  <2>2. \A d : d # c => /\ d \in Subscribed(r.start[s]) <=> d \in Subscribed(k.start[s])
                        /\ d \in Subscribed(r.end[s]) <=> d \in Subscribed(k.end[s])
    <3>1. /\ Subscribed(r.start[s]) \ {c} = Subscribed(k.start[s]) \ {c}
          /\ Subscribed(r.end[s]) \ {c} = Subscribed(k.end[s]) \ {c}
      OBVIOUS
    <3> QED
      BY <3>1
  <2>3. \A d \in Clients : d \in Subscribed(r.start[s]) => r.conn[d].state # "absent"
    BY <2>1, <2>2
  <2>4. \A t \in Trans : t \in Subscribed(r.start[s]) => Awaits(r, t, s) = "start"
    BY <1>2, <1>3, <2>1, <2>2
  <2>5. \A t \in Trans : t \in Subscribed(r.end[s]) <=> Awaits(r, t, s) \in {"start", "dump"}
    BY <1>2, <1>3, <2>1, <2>2
  <2> QED
    BY <2>3, <2>4, <2>5
<1>5. ToldInv(r, S)
  BY <1>4 DEF ToldInv
<1> QED
  BY <1>2, <1>5 DEF Good, QuietBut

\* A connection is made or closed.
LEMMA ConnChanges ==
  ASSUME NEW S, NEW B, NEW k, Good(k, S, B), NEW c \in Clients, k.conn[c].state # "CTS_EXECUTING",
         NEW x \in Conns, x.reading <=> x.state = "CTS_IDLE", x.state # "CTS_EXECUTING",
         x.state = "absent" => \A s \in S : c \notin Subscribed(k.start[s])
  PROVE  Good([k EXCEPT !.conn[c] = x], S, B)
<1> DEFINE r == [k EXCEPT !.conn[c] = x]
<1>1. Core(k, S, B) /\ ToldInv(k, S) /\ QuietBut(k, S, S) /\ k \in Ctls(S)
  BY DEF Good, Core
<1>2. /\ r \in Ctls(S) /\ r.trans = k.trans /\ r.transactions = k.transactions
      /\ r.start = k.start /\ r.end = k.end /\ r.conn = [k.conn EXCEPT ![c] = x]
  BY <1>1 DEF Ctls
<1>3. r.conn[c] = x /\ \A d \in Clients : d # c => r.conn[d] = k.conn[d]
  BY <1>1, <1>2, CtlFields
<1> HIDE DEF r
<1>4. Coupled(r)
  <2>1. Coupled(k)
    BY <1>1 DEF Core
  <2>2. \A t \in Trans : LiveIn(k, t) => k.trans[t].client # c
    BY <2>1 DEF Coupled
  <2>3. \A t \in Trans : LiveIn(r, t) <=> LiveIn(k, t)
    BY <1>2 DEF LiveIn
  <2>4. \A t \in Trans : LiveIn(r, t) =>
          /\ r.trans[t].client \in Clients
          /\ r.conn[r.trans[t].client].state = "CTS_EXECUTING"
          /\ r.conn[r.trans[t].client].cur_trans = t
    BY <1>2, <1>3, <2>1, <2>2, <2>3 DEF Coupled
  <2>5. ASSUME NEW d \in Clients
        PROVE  /\ r.conn[d].reading <=> r.conn[d].state = "CTS_IDLE"
               /\ r.conn[d].state = "CTS_EXECUTING" =>
                    /\ r.conn[d].cur_trans \in Trans /\ LiveIn(r, r.conn[d].cur_trans)
                    /\ r.trans[r.conn[d].cur_trans].client = d
    <3>1. CASE d = c
      BY <1>3, <3>1
    <3>2. CASE d # c
      BY <1>2, <1>3, <2>1, <2>3, <3>2 DEF Coupled
    <3> QED
      BY <3>1, <3>2
  <2> QED
    BY <2>4, <2>5 DEF Coupled
<1>5. QueueInv(r) /\ OneRuns(r)
  BY <1>1, <1>2 DEF Core, QueueInv, OneRuns
<1>6. \A t \in Trans : Proper(r.trans[t], S) /\ DumpsAwaited(r.trans[t], S, B)
  BY <1>1, <1>2 DEF Core
<1>7. Core(r, S, B)
  BY <1>2, <1>4, <1>5, <1>6 DEF Core
<1>8. \A t \in Trans, s \in S : Awaits(r, t, s) = Awaits(k, t, s)
  BY <1>2 DEF Awaits, LiveIn
<1>9. ToldInv(r, S)
  <2> SUFFICES ASSUME NEW s \in S
               PROVE  /\ \A d \in Clients : d \in Subscribed(r.start[s]) => r.conn[d].state # "absent"
                      /\ \A t \in Trans : t \in Subscribed(r.start[s]) => Awaits(r, t, s) = "start"
                      /\ \A t \in Trans : t \in Subscribed(r.end[s]) <=> Awaits(r, t, s) \in {"start", "dump"}
    BY DEF ToldInv
  <2>1. /\ \A d \in Clients : d \in Subscribed(k.start[s]) => k.conn[d].state # "absent"
        /\ \A t \in Trans : t \in Subscribed(k.start[s]) => Awaits(k, t, s) = "start"
        /\ \A t \in Trans : t \in Subscribed(k.end[s]) <=> Awaits(k, t, s) \in {"start", "dump"}
    BY <1>1 DEF ToldInv
  <2>2. ASSUME NEW d \in Clients, d \in Subscribed(r.start[s])
        PROVE  r.conn[d].state # "absent"
    BY <1>2, <1>3, <2>1, <2>2
  <2> QED
    BY <1>2, <1>8, <2>1, <2>2
<1>10. QuietBut(r, S, S)
  BY <1>1, <1>2 DEF QuietBut
<1> QED
  BY <1>7, <1>9, <1>10 DEF Good, r

\* Nothing is told of dumps of the given subsystems to a client that is there.
LEMMA ForgetKeeps ==
  ASSUME NEW B, NEW k, Good(k, Subsystems, B), NEW c \in Clients, k.conn[c].state # "absent", NEW A
  PROVE  LET r == Forget(k, c, A) IN
         /\ Good(r, Subsystems, B) /\ r.conn = k.conn
         /\ \A s \in Subsystems \cap A : c \notin Subscribed(r.start[s])
<1> DEFINE S == Subsystems
           start == [s \in S |-> IF s \in A THEN RemoveClient(k.start[s], c) ELSE k.start[s]]
           end == [s \in S |-> IF s \in A THEN RemoveClient(k.end[s], c) ELSE k.end[s]]
           r == Forget(k, c, A)
<1>1. r = [k EXCEPT !.start = start, !.end = end]
  BY DEF Forget
<1>2. k \in Ctls(S) /\ QuietBut(k, S, S)
  BY DEF Good, Core
<1>3. ASSUME NEW s \in S
      PROVE  /\ start[s] \in Notifiers /\ Quiet(start[s]) /\ end[s] \in Notifiers /\ Quiet(end[s])
             /\ Subscribed(start[s]) = IF s \in A THEN Subscribed(k.start[s]) \ {c} ELSE Subscribed(k.start[s])
             /\ Subscribed(end[s]) = IF s \in A THEN Subscribed(k.end[s]) \ {c} ELSE Subscribed(k.end[s])
  <2> DEFINE a == k.start[s]
             e == k.end[s]
  <2>1. a \in Notifiers /\ Quiet(a) /\ e \in Notifiers /\ Quiet(e)
    BY <1>2, CtlFields DEF QuietBut
  <2>2. /\ start[s] = IF s \in A THEN RemoveClient(a, c) ELSE a
        /\ end[s] = IF s \in A THEN RemoveClient(e, c) ELSE e
    OBVIOUS
  <2> HIDE DEF a, e, start, end
  <2>3. /\ RemoveClient(a, c) \in Notifiers /\ Quiet(RemoveClient(a, c))
        /\ Subscribed(RemoveClient(a, c)) = Subscribed(a) \ {c}
        /\ RemoveClient(e, c) \in Notifiers /\ Quiet(RemoveClient(e, c))
        /\ Subscribed(RemoveClient(e, c)) = Subscribed(e) \ {c}
    BY <2>1, ErasedFromQuiet
  <2> QED
    BY <2>1, <2>2, <2>3 DEF a, e
<1>4. start = [s \in S |-> start[s]] /\ end = [s \in S |-> end[s]]
  OBVIOUS
<1> HIDE DEF start, end, r
<1>5. start \in [S -> Notifiers] /\ end \in [S -> Notifiers]
  BY <1>3, <1>4
<1>6. /\ r \in Ctls(S) /\ r.conn = k.conn /\ r.trans = k.trans /\ r.transactions = k.transactions
      /\ r.start = start /\ r.end = end
  BY <1>1, <1>2, <1>5 DEF Ctls
<1>7. \A s \in S : /\ Quiet(r.start[s]) /\ Quiet(r.end[s])
                   /\ Subscribed(r.start[s]) \ {c} = Subscribed(k.start[s]) \ {c}
                   /\ Subscribed(r.end[s]) \ {c} = Subscribed(k.end[s]) \ {c}
  BY <1>3, <1>6
<1>8. Good(r, S, B)
  BY <1>6, <1>7, ClientListsChange
<1>9. \A s \in S \cap A : c \notin Subscribed(r.start[s])
  BY <1>3, <1>6
<1> QED
  BY <1>6, <1>8, <1>9 DEF r

LEMMA ConnectKeeps ==
  ASSUME IInv, NEW c \in Clients, Connect(c)
  PROVE  IInv'
<1> DEFINE x == [Absent EXCEPT !.state = "CTS_IDLE", !.reading = TRUE]
<1>1. /\ ctl.conn[c].state = "absent" /\ ctl' = [ctl EXCEPT !.conn[c] = x]
      /\ UNCHANGED <<modeVars, cpVars>> /\ Good(ctl, Subsystems, Dumping)
  BY DEF Connect, IInv
<1>2. x \in Conns /\ x.reading /\ x.state = "CTS_IDLE"
  BY DEF Absent, Conns
<1> HIDE DEF x
<1>3. Good(ctl', Subsystems, Dumping)
  BY <1>1, <1>2, ConnChanges
<1> QED
  BY <1>1, <1>3, ControlOnlyStep

LEMMA ClientIsThere ==
  ASSUME IInv, NEW c \in Clients, ctl.conn[c].reading
  PROVE  Good(ctl, Subsystems, Dumping) /\ ctl.conn[c].state = "CTS_IDLE"
BY DEF IInv, Good, Core, Coupled

LEMMA ProcessConnClosedKeeps ==
  ASSUME IInv, NEW c \in Clients, ProcessConnClosed(c)
  PROVE  IInv'
<1> DEFINE k == Forget(ctl, c, Subsystems)
<1>1. /\ ctl.conn[c].reading /\ ctl' = [k EXCEPT !.conn[c] = Absent]
      /\ UNCHANGED <<modeVars, cpVars>>
  BY DEF ProcessConnClosed
<1>2. Good(ctl, Subsystems, Dumping) /\ ctl.conn[c].state = "CTS_IDLE"
  BY <1>1, ClientIsThere
<1>3. /\ Good(k, Subsystems, Dumping) /\ k.conn = ctl.conn
      /\ \A s \in Subsystems : c \notin Subscribed(k.start[s])
  BY <1>2, ForgetKeeps
<1>4. Absent \in Conns /\ ~Absent.reading /\ Absent.state = "absent"
  BY DEF Absent, Conns
<1> HIDE DEF k
<1>5. Good(ctl', Subsystems, Dumping)
  BY <1>1, <1>2, <1>3, <1>4, ConnChanges
<1> QED
  BY <1>1, <1>5, ControlOnlyStep

LEMMA ProcSubscribeKeeps ==
  ASSUME IInv, NEW c \in Clients, ProcSubscribe(c)
  PROVE  IInv'
<1>1. PICK s \in Subsystems :
        ctl' = [ctl EXCEPT !.start[s] = AddClient(@, c), !.end[s] = AddClient(@, c)]
  BY DEF ProcSubscribe
<1>2. Good(ctl, Subsystems, Dumping) /\ ctl.conn[c].state = "CTS_IDLE"
      /\ UNCHANGED <<modeVars, cpVars>>
  BY ClientIsThere DEF ProcSubscribe, Requesting
<1> DEFINE a == ctl.start[s]
           e == ctl.end[s]
           a1 == AddClient(a, c)
           e1 == AddClient(e, c)
           r == [ctl EXCEPT !.start[s] = a1, !.end[s] = e1]
<1>3. ctl \in Ctls(Subsystems) /\ QuietBut(ctl, Subsystems, Subsystems)
  BY <1>2 DEF Good, Core
<1>4. a \in Notifiers /\ Quiet(a) /\ e \in Notifiers /\ Quiet(e)
  BY <1>3, CtlFields DEF QuietBut
<1>5. /\ a1 \in Notifiers /\ Quiet(a1) /\ Subscribed(a1) = Subscribed(a) \cup {c}
      /\ e1 \in Notifiers /\ Quiet(e1) /\ Subscribed(e1) = Subscribed(e) \cup {c}
  <2> HIDE DEF a, e
  <2> QED
    BY <1>4, AddedToQuiet
<1>6. ctl' = r
  BY <1>1
<1> HIDE DEF a1, e1
<1>7. /\ r \in Ctls(Subsystems) /\ r.conn = ctl.conn /\ r.trans = ctl.trans
      /\ r.transactions = ctl.transactions
      /\ r.start = [ctl.start EXCEPT ![s] = a1] /\ r.end = [ctl.end EXCEPT ![s] = e1]
  BY <1>3, <1>5 DEF Ctls
<1> HIDE DEF r
<1>8. /\ r.start[s] = a1 /\ r.end[s] = e1
      /\ \A x \in Subsystems : x # s => r.start[x] = ctl.start[x] /\ r.end[x] = ctl.end[x]
  BY <1>3, <1>7, CtlFields
<1>9. \A x \in Subsystems :
        /\ Quiet(r.start[x]) /\ Quiet(r.end[x])
        /\ Subscribed(r.start[x]) \ {c} = Subscribed(ctl.start[x]) \ {c}
        /\ Subscribed(r.end[x]) \ {c} = Subscribed(ctl.end[x]) \ {c}
  <2> SUFFICES ASSUME NEW x \in Subsystems
               PROVE  /\ Quiet(r.start[x]) /\ Quiet(r.end[x])
                      /\ Subscribed(r.start[x]) \ {c} = Subscribed(ctl.start[x]) \ {c}
                      /\ Subscribed(r.end[x]) \ {c} = Subscribed(ctl.end[x]) \ {c}
    OBVIOUS
  <2>1. CASE x = s
    BY <1>5, <1>8, <2>1
  <2>2. CASE x # s
    BY <1>3, <1>8, <2>2 DEF QuietBut
  <2> QED
    BY <2>1, <2>2
<1>10. Good(r, Subsystems, Dumping)
  BY <1>2, <1>7, <1>9, ClientListsChange
<1> QED
  BY <1>2, <1>6, <1>10, ControlOnlyStep

LEMMA ProcUnsubscribeKeeps ==
  ASSUME IInv, NEW c \in Clients, ProcUnsubscribe(c)
  PROVE  IInv'
<1>1. PICK s \in Subsystems : ctl' = Forget(ctl, c, {s})
  BY DEF ProcUnsubscribe
<1>2. Good(ctl, Subsystems, Dumping) /\ ctl.conn[c].state = "CTS_IDLE"
      /\ UNCHANGED <<modeVars, cpVars>>
  BY ClientIsThere DEF ProcUnsubscribe, Requesting
<1>3. Good(ctl', Subsystems, Dumping)
  BY <1>1, <1>2, ForgetKeeps
<1> QED
  BY <1>2, <1>3, ControlOnlyStep

LEMMA ProcEnableLogKeeps ==
  ASSUME IInv, NEW c \in Clients, ProcEnableLog(c)
  PROVE  IInv'
<1>1. PICK want \in Switched : EnableLog(c, want)
  BY DEF ProcEnableLog
<1>2. Requesting(c) /\ FreeTrans # {} /\ UNCHANGED cpVars
  BY DEF ProcEnableLog
<1> DEFINE subsys == {s \in want \cap Subsystems : log_mode[s] # "LM_NORMAL"}
<1>3. Good(ctl', Subsystems, Dumping) /\ ModesGood(log_mode', config', Subsystems)
  <2>1. CASE ctl.transactions = <<>>
    <3>1. ExecuteEnableLog(c, subsys) /\ subsys \in SUBSET Subsystems
      BY <1>1, <2>1 DEF EnableLog
    <3> HIDE DEF subsys
    <3> QED
      BY <1>2, <2>1, <3>1, ExecuteEnableLogKeeps
  <2>2. CASE ctl.transactions # <<>>
    <3>1. ctl' = Enqueued(c, "ENABLE_LOG") /\ log_mode' = log_mode /\ config' = config
      BY <1>1, <2>2 DEF EnableLog, modeVars
    <3>2. Good(Enqueued(c, "ENABLE_LOG"), Subsystems, Dumping)
      BY <1>2, EnqueuedIsGood DEF IInv
    <3> QED
      BY <3>1, <3>2 DEF IInv
  <2> QED
    BY <2>1, <2>2
<1> QED
  BY <1>2, <1>3, ControlStep

LEMMA ProcDisableLogKeeps ==
  ASSUME IInv, NEW c \in Clients, ProcDisableLog(c)
  PROVE  IInv'
<1>1. PICK want \in Switched : DisableLog(c, want)
  BY DEF ProcDisableLog
<1>2. Requesting(c) /\ FreeTrans # {} /\ UNCHANGED cpVars
  BY DEF ProcDisableLog
<1> DEFINE subsys == {s \in want \cap Subsystems : log_mode[s] # "LM_OFF"}
<1>3. Good(ctl', Subsystems, Dumping) /\ ModesGood(log_mode', config', Subsystems)
  <2>1. CASE ctl.transactions = <<>>
    <3>1. ExecuteDisableLog(c, subsys) /\ subsys \in SUBSET Subsystems
      BY <1>1, <2>1 DEF DisableLog
    <3> HIDE DEF subsys
    <3> QED
      BY <1>2, <2>1, <3>1, ExecuteDisableLogKeeps
  <2>2. CASE ctl.transactions # <<>>
    <3>1. ctl' = Enqueued(c, "DISABLE_LOG") /\ log_mode' = log_mode /\ config' = config
      BY <1>1, <2>2 DEF DisableLog, modeVars
    <3>2. Good(Enqueued(c, "DISABLE_LOG"), Subsystems, Dumping)
      BY <1>2, EnqueuedIsGood DEF IInv
    <3> QED
      BY <3>1, <3>2 DEF IInv
  <2> QED
    BY <2>1, <2>2
<1> QED
  BY <1>2, <1>3, ControlStep

LEMMA ProcCollectLogKeeps ==
  ASSUME IInv, NEW c \in Clients, ProcCollectLog(c)
  PROVE  IInv'
<1>1. PICK want \in Collected : StartLogCollect(c, want)
  BY DEF ProcCollectLog
<1>2. Requesting(c) /\ FreeTrans # {} /\ UNCHANGED <<modeVars, cpVars>>
  BY DEF ProcCollectLog
<1> DEFINE cps == IF want = {} THEN Subsystems ELSE want \cap Subsystems
           May(s) == IF s \in cps THEN StartSubsysCol(s) ELSE {"none"}
<1>3. PICK wait \in [Subsystems -> UNION {May(s) : s \in Subsystems}] :
        (\A s \in Subsystems : wait[s] \in May(s)) /\ ctl' = ExecuteLogCollect(c, wait)
  BY <1>1 DEF StartLogCollect
<1>4. ASSUME NEW s \in Subsystems
      PROVE  /\ wait[s] \in Parts \cup {"none"} /\ MayAwait("LOG_COLLECT", s, wait[s])
             /\ wait[s] # "wcn" /\ (wait[s] = "dump" => s \in Dumping)
  <2>1. wait[s] \in StartSubsysCol(s) \/ wait[s] = "none"
    BY <1>3
  <2>2. CASE wait[s] \in StartSubsysCol(s)
    BY <2>2, CollectionAwaits
  <2>3. CASE wait[s] = "none"
    BY <2>3 DEF MayAwait
  <2> QED
    BY <2>1, <2>2, <2>3
<1>5. wait \in [Subsystems -> Parts \cup {"none"}]
  BY <1>4
<1>6. Good(ctl', Subsystems, Dumping)
  BY <1>2, <1>3, <1>4, <1>5, ExecuteLogCollectKeeps
<1> QED
  BY <1>2, <1>6, ControlOnlyStep

\* A request that the MODEM is to do for the client.
LEMMA ModemStartsKeeps ==
  ASSUME IInv, NEW c \in Clients, Requesting(c), FreeTrans # {}, "MODEM" \in Subsystems,
         NEW type \in OfModem
  PROVE  Good(ModemStarts(c, type), Subsystems, Dumping)
<1>1. type \in Global \cup OfModem /\ type # "LOG_COLLECT" /\ type \notin Exclusive
      /\ MayAwait(type, "MODEM", "modem") /\ Good(ctl, Subsystems, Dumping)
  BY DEF OfModem, Exclusive, MayAwait, IInv
<1>2. Good(Created(c, type, "TS_EXECUTING", [NoParts EXCEPT !["MODEM"] = "modem"], 0),
           Subsystems, Dumping)
  BY <1>1, OnePartIsGood
<1> QED
  BY <1>2 DEF ModemStarts

LEMMA ProcSaveLastLogKeeps ==
  ASSUME IInv, NEW c \in Clients, ProcSaveLastLog(c)
  PROVE  IInv'
<1>1. /\ Requesting(c) /\ FreeTrans # {} /\ UNCHANGED <<modeVars, cpVars>>
      /\ \/ "WCN" \in Subsystems /\ ctl' = SaveWcnLastLog(c)
         \/ "MODEM" \in Subsystems /\ ctl' \in SaveLastLog(c)
  BY DEF ProcSaveLastLog
<1>2. Good(ctl, Subsystems, Dumping)
  BY DEF IInv
<1>3. CASE "WCN" \in Subsystems /\ ctl' = SaveWcnLastLog(c)
  <2> DEFINE r == Created(c, "WCN_LAST_LOG", "TS_EXECUTING", [NoParts EXCEPT !["WCN"] = "timer"], 0)
             q == Enqueued(c, "WCN_LAST_LOG")
  <2>1. "WCN_LAST_LOG" \in Global \cup OfModem /\ MayAwait("WCN_LAST_LOG", "WCN", "timer")
    BY DEF Global, MayAwait
  <2>2. ctl.transactions = <<>> => Good(r, Subsystems, Dumping)
    BY <1>1, <1>2, <1>3, <2>1, OnePartIsGood
  <2>3. Good(q, Subsystems, Dumping)
    BY <1>1, <1>2, EnqueuedIsGood
  <2>4. ctl' = ctl \/ (ctl' = r /\ ctl.transactions = <<>>) \/ ctl' = q
    BY <1>3 DEF SaveWcnLastLog, ExecuteWcnLastLog
  <2> HIDE DEF r, q
  <2>5. Good(ctl', Subsystems, Dumping)
    BY <1>2, <2>2, <2>3, <2>4
  <2> QED
    BY <1>1, <2>5, ControlOnlyStep
<1>4. CASE "MODEM" \in Subsystems /\ ctl' \in SaveLastLog(c)
  <2>1. Good(ModemStarts(c, "SAVE_MODEM_LAST_LOG"), Subsystems, Dumping)
    BY <1>1, <1>4, ModemStartsKeeps DEF OfModem
  <2>2. ctl' = ctl \/ ctl' = ModemStarts(c, "SAVE_MODEM_LAST_LOG")
    BY <1>4 DEF SaveLastLog, ExecuteModemLastLog
  <2>3. Good(ctl', Subsystems, Dumping)
    BY <1>2, <2>1, <2>2
  <2> QED
    BY <1>1, <2>3, ControlOnlyStep
<1> QED
  BY <1>1, <1>3, <1>4

LEMMA ProcEnableEvtLogKeeps ==
  ASSUME IInv, NEW c \in Clients, ProcEnableEvtLog(c)
  PROVE  IInv'
<1>1. /\ Requesting(c) /\ FreeTrans # {} /\ UNCHANGED <<modeVars, cpVars>>
      /\ "MODEM" \in Subsystems /\ ctl' \in StartEventLog(c)
  BY DEF ProcEnableEvtLog
<1>2. Good(ModemStarts(c, "START_EVENT_LOG"), Subsystems, Dumping)
  BY <1>1, ModemStartsKeeps DEF OfModem
<1>3. ctl' = ctl \/ ctl' = ModemStarts(c, "START_EVENT_LOG")
  BY <1>1 DEF StartEventLog
<1>4. Good(ctl', Subsystems, Dumping)
  BY <1>2, <1>3 DEF IInv
<1> QED
  BY <1>1, <1>4, ControlOnlyStep

------------------------------------------------------------------------------
(* Parts report.                                                           *)

\* What a transaction waits for tells its type.
LEMMA WaitingFor ==
  ASSUME IInv, NEW t \in Trans, NEW s \in Subsystems, NEW w, Waiting(t, s, w), w # "none"
  PROVE  /\ Good(ctl, Subsystems, Dumping) /\ Core(ctl, Subsystems, Dumping)
         /\ IsFiniteSet(Subsystems) /\ LiveIn(ctl, t)
         /\ ctl.trans[t].wait[s] = w /\ Awaits(ctl, t, s) = w
         /\ MayAwait(ctl.trans[t].type, s, w)
<1>1. Core(ctl, Subsystems, Dumping) /\ IsFiniteSet(Subsystems) /\ Good(ctl, Subsystems, Dumping)
  BY SubsystemsFinite DEF IInv, Good
<1>2. LiveIn(ctl, t) /\ ctl.trans[t].wait[s] = w /\ Awaits(ctl, t, s) = w
  BY DEF Waiting, LiveIn, Awaits
<1>3. MayAwait(ctl.trans[t].type, s, w)
  BY <1>1, <1>2 DEF Core, Proper, LiveIn
<1> QED
  BY <1>1, <1>2, <1>3

LEMMA LogFlushCallbackKeeps ==
  ASSUME IInv, NEW t \in Trans, "MODEM" \in Subsystems, LogFlushCallback(t)
  PROVE  IInv'
<1>1. /\ Waiting(t, "MODEM", "timer") /\ UNCHANGED <<modeVars, cpVars>>
      /\ \E out \in {"done", "move"} : ctl' = StartLogConvey(ctl, t, "MODEM", out)
  BY DEF LogFlushCallback
<1>2. /\ Good(ctl, Subsystems, Dumping) /\ Core(ctl, Subsystems, Dumping) /\ IsFiniteSet(Subsystems)
      /\ ctl.trans[t].wait["MODEM"] = "timer" /\ Awaits(ctl, t, "MODEM") = "timer"
      /\ MayAwait(ctl.trans[t].type, "MODEM", "timer")
  BY <1>1, WaitingFor
<1>3. ctl.trans[t].type = "LOG_COLLECT"
  BY <1>2 DEF MayAwait
<1>4. PICK out \in {"done", "move"} : ctl' = StartLogConvey(ctl, t, "MODEM", out)
  BY <1>1
<1> DEFINE r == StartLogConvey(ctl, t, "MODEM", out)
<1>5. /\ Core(r, Subsystems, Dumping) /\ Apart(ctl, r, t)
      /\ \E w \in {"none", "move"} : Reported(ctl, r, t, "MODEM", Subsystems, w)
  BY <1>2, <1>3, StartLogConveyKeeps
<1> HIDE DEF r
<1>6. Awaits(ctl, t, "MODEM") \notin {"start", "dump"}
  BY <1>2
<1>7. Good(r, Subsystems, Dumping)
  BY <1>2, <1>5, <1>6, PartOfCollection
<1> QED
  BY <1>1, <1>4, <1>7, ControlOnlyStep DEF r

LEMMA LogConveyFinKeeps ==
  ASSUME IInv, NEW t \in Trans, NEW s \in Subsystems, LogConveyFin(t, s)
  PROVE  IInv'
<1>1. /\ Waiting(t, s, "move") /\ UNCHANGED <<modeVars, cpVars>> /\ ctl' = LogColResult(ctl, t, s)
  BY DEF LogConveyFin
<1>2. /\ Good(ctl, Subsystems, Dumping) /\ Core(ctl, Subsystems, Dumping) /\ IsFiniteSet(Subsystems)
      /\ ctl.trans[t].wait[s] = "move" /\ Awaits(ctl, t, s) = "move"
      /\ MayAwait(ctl.trans[t].type, s, "move")
  BY <1>1, WaitingFor
<1>3. ctl.trans[t].type = "LOG_COLLECT"
  BY <1>2 DEF MayAwait
<1> DEFINE r == LogColResult(ctl, t, s)
<1>4. Core(r, Subsystems, Dumping) /\ Apart(ctl, r, t) /\ Reported(ctl, r, t, s, Subsystems, "none")
  BY <1>2, <1>3, LogColResultKeeps
<1> HIDE DEF r
<1>5. Awaits(ctl, t, s) \notin {"start", "dump"}
  BY <1>2
<1>6. Good(r, Subsystems, Dumping)
  BY <1>2, <1>4, <1>5, PartOfCollection
<1> QED
  BY <1>1, <1>6, ControlOnlyStep DEF r

LEMMA LastLogTimeoutKeeps ==
  ASSUME IInv, NEW t \in Trans, "WCN" \in Subsystems, LastLogTimeout(t)
  PROVE  IInv'
<1> DEFINE k1 == [ctl EXCEPT !.trans[t] = [@ EXCEPT !.wait["WCN"] = "none"]]
<1>1. /\ Waiting(t, "WCN", "timer") /\ UNCHANGED <<modeVars, cpVars>> /\ ctl' = Finish(k1, t)
  BY DEF LastLogTimeout
<1>2. /\ Good(ctl, Subsystems, Dumping) /\ LiveIn(ctl, t)
      /\ MayAwait(ctl.trans[t].type, "WCN", "timer")
  BY <1>1, WaitingFor
<1>3. ctl.trans[t].type = "WCN_LAST_LOG" /\ ctl.trans[t].type \in Global
      /\ ctl.trans[t].type # "LOG_COLLECT"
  BY <1>2 DEF MayAwait, Global
<1> DEFINE r == IF ctl.trans[t].type \in Global THEN Finish(k1, t) ELSE TransResult(k1, t)
<1>4. Good(r, Subsystems, Dumping)
  BY <1>2, <1>3, EndsKeeps
<1>5. ctl' = r
  BY <1>1, <1>3
<1> QED
  BY <1>1, <1>4, <1>5, ControlOnlyStep

LEMMA ModemReportsKeeps ==
  ASSUME IInv, NEW t \in Trans, "MODEM" \in Subsystems,
         NEW type \in OfModem \cup {"ENABLE_LOG", "DISABLE_LOG"}, ModemReports(t, type)
  PROVE  Good(ctl', Subsystems, Dumping) /\ UNCHANGED cpVars
<1> DEFINE k1 == [ctl EXCEPT !.trans[t] = [@ EXCEPT !.wait["MODEM"] = "none"]]
           r == IF ctl.trans[t].type \in Global THEN Finish(k1, t) ELSE TransResult(k1, t)
<1>1. /\ Waiting(t, "MODEM", "modem") /\ UNCHANGED cpVars /\ ctl.trans[t].type = type /\ ctl' = r
  BY DEF ModemReports
<1>2. Good(ctl, Subsystems, Dumping) /\ LiveIn(ctl, t)
  BY <1>1, WaitingFor
<1>3. ctl.trans[t].type # "LOG_COLLECT"
  BY <1>1 DEF OfModem
<1>4. Good(r, Subsystems, Dumping)
  BY <1>2, <1>3, EndsKeeps
<1> QED
  BY <1>1, <1>4

LEMMA ModemDoneKeeps ==
  ASSUME IInv, NEW t \in Trans, "MODEM" \in Subsystems, ModemDone(t)
  PROVE  IInv'
<1>1. ModesGood(log_mode, config, Subsystems)
  BY DEF IInv
<1>2. ASSUME NEW mode \in Modes, SetModemMode(mode)
      PROVE  ModesGood(log_mode', config', Subsystems)
  BY <1>1, <1>2 DEF SetModemMode, ModesGood
<1>3. ASSUME UNCHANGED modeVars
      PROVE  ModesGood(log_mode', config', Subsystems)
  BY <1>1, <1>3 DEF modeVars
<1>4. CASE StartNormalLogResult(t)
  <2>1. Good(ctl', Subsystems, Dumping) /\ UNCHANGED cpVars
    BY <1>4, ModemReportsKeeps DEF StartNormalLogResult
  <2>2. UNCHANGED modeVars \/ SetModemMode("LM_NORMAL")
    BY <1>4 DEF StartNormalLogResult
  <2> QED
    BY <1>2, <1>3, <2>1, <2>2, ControlStep DEF Modes
<1>5. CASE StopCellularLogResult(t)
  <2>1. Good(ctl', Subsystems, Dumping) /\ UNCHANGED cpVars
    BY <1>5, ModemReportsKeeps DEF StopCellularLogResult
  <2>2. UNCHANGED modeVars \/ SetModemMode("LM_OFF")
    BY <1>5 DEF StopCellularLogResult
  <2> QED
    BY <1>2, <1>3, <2>1, <2>2, ControlStep DEF Modes
<1>6. CASE SubscribeResult(t)
  <2>1. Good(ctl', Subsystems, Dumping) /\ UNCHANGED cpVars
    BY <1>6, ModemReportsKeeps DEF SubscribeResult, OfModem
  <2>2. UNCHANGED modeVars \/ SetModemMode("LM_EVENT")
    BY <1>6 DEF SubscribeResult
  <2> QED
    BY <1>2, <1>3, <2>1, <2>2, ControlStep DEF Modes
<1>7. CASE ModemLastLogTimeout(t)
  <2>1. Good(ctl', Subsystems, Dumping) /\ UNCHANGED cpVars
    BY <1>7, ModemReportsKeeps DEF ModemLastLogTimeout, OfModem
  <2>2. UNCHANGED modeVars
    BY <1>7 DEF ModemLastLogTimeout
  <2> QED
    BY <1>3, <2>1, <2>2, ControlStep
<1>8. CASE LogFlushCallback(t)
  BY <1>8, LogFlushCallbackKeeps
<1> QED
  BY <1>4, <1>5, <1>6, <1>7, <1>8 DEF ModemDone

\* The dump that was expected does not come: the collection is not told of it.
LEMMA DumpTimerKeeps ==
  ASSUME IInv, NEW t \in Trans, NEW s \in Subsystems, DumpTimer(t, s)
  PROVE  IInv'
<1> DEFINE S == Subsystems
           a == ctl.start[s]
           e == ctl.end[s]
           a1 == RemoveClient(a, t)
           e1 == RemoveClient(e, t)
           k == [ctl EXCEPT !.start[s] = a1, !.end[s] = e1]
           r == LogColResult(k, t, s)
<1>1. /\ Waiting(t, s, "start") /\ UNCHANGED <<modeVars, cpVars>> /\ ctl' = r
  BY DEF DumpTimer
<1>2. /\ Good(ctl, S, Dumping) /\ Core(ctl, S, Dumping) /\ IsFiniteSet(S)
      /\ Awaits(ctl, t, s) = "start" /\ ctl \in Ctls(S) /\ ToldInv(ctl, S) /\ QuietBut(ctl, S, S)
  BY <1>1, WaitingFor DEF Core, Good
<1>3. ctl.trans[t].type = "LOG_COLLECT" /\ ctl.trans[t].wait[s] # "none"
  BY <1>2, AwaitsDump
<1>4. a \in Notifiers /\ Quiet(a) /\ e \in Notifiers /\ Quiet(e)
  BY <1>2, CtlFields DEF QuietBut
<1>5. /\ a1 \in Notifiers /\ Quiet(a1) /\ Subscribed(a1) = Subscribed(a) \ {t}
      /\ e1 \in Notifiers /\ Quiet(e1) /\ Subscribed(e1) = Subscribed(e) \ {t}
  <2> HIDE DEF a, e
  <2> QED
    BY <1>4, ErasedFromQuiet
<1> HIDE DEF a1, e1, r
<1>6. /\ k \in Ctls(S) /\ k.conn = ctl.conn /\ k.trans = ctl.trans
      /\ k.transactions = ctl.transactions
      /\ k.start = [ctl.start EXCEPT ![s] = a1] /\ k.end = [ctl.end EXCEPT ![s] = e1]
  BY <1>2, <1>5 DEF Ctls
<1>7. r = LogColResult(k, t, s)
  BY DEF r
<1> HIDE DEF k
<1>8. /\ k.start[s] = a1 /\ k.end[s] = e1
      /\ \A x \in S : x # s => k.start[x] = ctl.start[x] /\ k.end[x] = ctl.end[x]
  BY <1>2, <1>6, CtlFields
<1>9. Core(k, S, Dumping) /\ \A u \in Trans, x \in S : Awaits(k, u, x) = Awaits(ctl, u, x)
  BY <1>2, <1>6, CoreFrom
<1>10. k.trans[t].type = "LOG_COLLECT" /\ k.trans[t].wait[s] # "none"
  BY <1>3, <1>6
<1>11. Core(r, S, Dumping) /\ Apart(k, r, t) /\ Reported(k, r, t, s, S, "none")
  BY <1>2, <1>7, <1>9, <1>10, LogColResultKeeps
<1>12. /\ r.start = k.start /\ r.end = k.end
       /\ \A c \in Clients : r.conn[c].state = "absent" <=> ctl.conn[c].state = "absent"
       /\ \A u \in Trans, x \in S : Awaits(r, u, x) = IF u = t /\ x = s THEN "none" ELSE Awaits(ctl, u, x)
  BY <1>6, <1>9, <1>11 DEF Apart, Reported
<1>13. ToldInv(r, S)
  <2> SUFFICES ASSUME NEW x \in S
               PROVE  /\ \A c \in Clients : c \in Subscribed(r.start[x]) => r.conn[c].state # "absent"
                      /\ \A u \in Trans : u \in Subscribed(r.start[x]) => Awaits(r, u, x) = "start"
                      /\ \A u \in Trans : u \in Subscribed(r.end[x]) <=> Awaits(r, u, x) \in {"start", "dump"}
    BY DEF ToldInv
  <2>1. /\ \A c \in Clients : c \in Subscribed(ctl.start[x]) => ctl.conn[c].state # "absent"
        /\ \A u \in Trans : u \in Subscribed(ctl.start[x]) => Awaits(ctl, u, x) = "start"
        /\ \A u \in Trans : u \in Subscribed(ctl.end[x]) <=> Awaits(ctl, u, x) \in {"start", "dump"}
    BY <1>2 DEF ToldInv
  <2>2. CASE x = s
    <3>1. /\ Subscribed(r.start[x]) = Subscribed(ctl.start[x]) \ {t}
          /\ Subscribed(r.end[x]) = Subscribed(ctl.end[x]) \ {t}
      BY <1>5, <1>8, <1>12, <2>2
    <3> QED
      BY <1>12, <2>1, <2>2, <3>1
  <2>3. CASE x # s
    <3>1. r.start[x] = ctl.start[x] /\ r.end[x] = ctl.end[x]
      BY <1>8, <1>12, <2>3
    <3> QED
      BY <1>12, <2>1, <2>3, <3>1
  <2> QED
    BY <2>2, <2>3
<1>14. QuietBut(r, S, S)
  <2> SUFFICES ASSUME NEW x \in S
               PROVE  Quiet(r.start[x]) /\ Quiet(r.end[x])
    BY DEF QuietBut
  <2>1. CASE x = s
    BY <1>5, <1>8, <1>12, <2>1
  <2>2. CASE x # s
    BY <1>2, <1>8, <1>12, <2>2 DEF QuietBut
  <2> QED
    BY <2>1, <2>2
<1>15. Good(ctl', S, Dumping)
  BY <1>1, <1>11, <1>13, <1>14 DEF Good
<1> QED
  BY <1>1, <1>15, ControlOnlyStep

------------------------------------------------------------------------------
(* The subsystems.                                                         *)

LEMMA GoodBound ==
  ASSUME NEW S, NEW B, NEW C, NEW k, Good(k, S, B),
         \A t \in Trans, s \in S : Awaits(k, t, s) \in {"dump", "wcn"} => s \in C
  PROVE  Good(k, S, C)
<1>1. Core(k, S, B) /\ ToldInv(k, S) /\ QuietBut(k, S, S)
  BY DEF Good
<1>2. Core(k, S, C)
  BY <1>1, CoreBound
<1> QED
  BY <1>1, <1>2 DEF Good

LEMMA AwaitedDumps ==
  ASSUME NEW S, NEW B, NEW k, Good(k, S, B), NEW t \in Trans, NEW s \in S,
         Awaits(k, t, s) \in {"dump", "wcn"}
  PROVE  s \in B
BY DEF Good, Core, DumpsAwaited, Awaits, LiveIn

\* Those who wait for the WCN to stop are not touched by the callbacks.
LEMMA StopsAreLeft ==
  ASSUME NEW S, NEW B, NEW k, NEW r, OnlyCollections(k, r), Good(r, S, B), NEW t \in Trans, NEW s \in S,
         Awaits(r, t, s) = "wcn"
  PROVE  Awaits(k, t, s) = "wcn" /\ r.trans[t] = k.trans[t] /\ s = "WCN"
<1>1. LiveIn(r, t) /\ r.trans[t].wait[s] = "wcn" /\ Proper(r.trans[t], S)
  BY DEF Awaits, Good, Core
<1>2. r.trans[t].type = "DISABLE_LOG" /\ s = "WCN"
  BY <1>1 DEF Proper, MayAwait, LiveIn
<1>3. k.trans[t].type = "DISABLE_LOG"
  BY <1>2 DEF OnlyCollections
<1>4. r.trans[t] = k.trans[t]
  BY <1>3 DEF OnlyCollections
<1> QED
  BY <1>1, <1>2, <1>4 DEF Awaits, LiveIn

\* After the end of a dump of s has been announced no collection waits for it.
LEMMA EndAnnounced ==
  ASSUME NEW B, NEW k, Good(k, Subsystems, B), IsFiniteSet(Subsystems), NEW s \in Subsystems, NEW out
  PROVE  LET r == NotifyDumpEnd(k, s, out) IN
         /\ Good(r, Subsystems, B) /\ OnlyCollections(k, r)
         /\ \A t \in Trans : Awaits(r, t, s) \notin {"start", "dump"}
<1> DEFINE r == NotifyDumpEnd(k, s, out)
<1>1. Core(k, Subsystems, B) /\ ToldInv(k, Subsystems) /\ QuietBut(k, Subsystems, Subsystems)
  BY DEF Good
<1>2. /\ Core(r, Subsystems, B) /\ ToldInv(r, Subsystems)
      /\ QuietBut(r, Subsystems, Subsystems) /\ OnlyCollections(k, r)
      /\ \A t \in Trans : t \notin Subscribed(r.end[s])
  BY <1>1, NotifyDumpEndKeeps
<1> HIDE DEF r
<1>3. \A t \in Trans : Awaits(r, t, s) \notin {"start", "dump"}
  BY <1>2 DEF ToldInv
<1> QED
  BY <1>2, <1>3 DEF Good, r

\* Steps of the subsystems: the handlers and the builds stay.
LEMMA SubsystemStep ==
  ASSUME IInv, UNCHANGED buildVars,
         Good(ctl', Subsystems, {s \in Subsystems : dumps'[s] > 0}),
         CpGood(cp_state', dumps', Subsystems), ModesGood(log_mode', config', Subsystems)
  PROVE  IInv'
<1>1. Subsystems' = Subsystems
  BY DEF buildVars, Subsystems
<1>2. Dumping' = {s \in Subsystems : dumps'[s] > 0}
  BY <1>1 DEF Dumping
<1> QED
  BY <1>1, <1>2 DEF IInv

LEMMA AssertedKeeps ==
  ASSUME IInv, NEW s \in Subsystems, Asserted(s)
  PROVE  IInv'
<1> DEFINE S == Subsystems
           B == Dumping
           C == {x \in S : dumps'[x] > 0}
           D == B \cup {s}
<1>1. PICK a \in ProcessAssert(s), out \in Outcomes(s) :
        /\ cp_state' = [cp_state EXCEPT ![s] = a.cp]
        /\ dumps' = [dumps EXCEPT ![s] = @ + a.dump]
        /\ LET k == IF a.start THEN NotifyDumpStart(ctl, s) ELSE ctl
           IN ctl' = IF a.end THEN NotifyDumpEnd(k, s, out) ELSE k
  BY DEF Asserted
<1>2. UNCHANGED <<modeVars, buildVars>>
  BY DEF Asserted
<1>3. a \in {Dead, DumpFailed, DumpBegun, DumpQueued}
  BY <1>1 DEF ProcessAssert, AssertModem, AssertIntWcn, AssertExtWcn, AssertPmSh
<1>4. /\ a.cp \in {"CWS_NOT_WORKING", "CWS_DUMP"} /\ a.dump \in {0, 1}
      /\ a.cp = "CWS_DUMP" => a.dump = 1
      /\ ~a.end => a.dump = 1
  <2>1. CASE a = Dead
    BY <2>1 DEF Dead
  <2>2. CASE a = DumpFailed
    BY <2>2 DEF Dead, DumpFailed
  <2>3. CASE a = DumpBegun
    BY <2>3 DEF DumpBegun
  <2>4. CASE a = DumpQueued
    BY <2>4 DEF Dead, DumpFailed, DumpQueued
  <2> QED
    BY <1>3, <2>1, <2>2, <2>3, <2>4
<1>5. /\ S \subseteq AllSubsystems /\ Good(ctl, S, B) /\ CpGood(cp_state, dumps, S)
      /\ ModesGood(log_mode, config, S) /\ IsFiniteSet(S)
  BY SubsystemsFinite DEF IInv
<1>6. dumps \in [S -> Nat] /\ dumps' \in [S -> Nat]
      /\ dumps'[s] = dumps[s] + a.dump /\ \A x \in S : x # s => dumps'[x] = dumps[x]
  BY <1>1, <1>4, <1>5 DEF CpGood
<1>7. CpGood(cp_state', dumps', S)
  BY <1>1, <1>4, <1>5, <1>6 DEF CpGood
<1>8. /\ \A x \in S : x \in B => x \in C
      /\ a.dump = 1 => s \in C
      /\ \A x \in S : x \in D => x \in B \/ x = s
  <2>1. \A x \in S : x \in B <=> dumps[x] > 0
    BY DEF Dumping
  <2>2. \A x \in S : x \in C <=> dumps'[x] > 0
    OBVIOUS
  <2>3. a.dump = 1 => dumps'[s] > 0
    BY <1>6
  <2>4. \A x \in S : dumps[x] > 0 => dumps'[x] > 0
    BY <1>4, <1>6
  <2> QED
    BY <2>1, <2>2, <2>3, <2>4
<1> HIDE DEF C
<1>9. Good(ctl, S, D)
  <2>1. \A t \in Trans, x \in S : Awaits(ctl, t, x) \in {"dump", "wcn"} => x \in D
    BY <1>5, AwaitedDumps
  <2> QED
    BY <1>5, <2>1, GoodBound
<1> DEFINE k == IF a.start THEN NotifyDumpStart(ctl, s) ELSE ctl
<1>10. Good(k, S, D) /\ OnlyCollections(ctl, k)
  <2>1. CASE a.start
    <3> DEFINE q == NotifyDumpStart(ctl, s)
    <3>1. Core(ctl, S, D) /\ ToldInv(ctl, S) /\ QuietBut(ctl, S, S) /\ s \in D
      BY <1>9 DEF Good
    <3>2. Core(q, S, D) /\ ToldInv(q, S) /\ QuietBut(q, S, S) /\ OnlyCollections(ctl, q)
      <4> HIDE DEF D
      <4> QED
        BY <1>5, <3>1, NotifyDumpStartKeeps
    <3>3. k = q
      BY <2>1
    <3> HIDE DEF q, D
    <3> QED
      BY <3>2, <3>3 DEF Good
  <2>2. CASE ~a.start
    BY <1>9, <2>2 DEF OnlyCollections
  <2> QED
    BY <2>1, <2>2
<1>11. ctl' = IF a.end THEN NotifyDumpEnd(k, s, out) ELSE k
  BY <1>1
<1> HIDE DEF k
<1>12. Good(ctl', S, C)
  <2>1. CASE a.end
    <3> DEFINE r == NotifyDumpEnd(k, s, out)
    <3>1. /\ Good(r, S, D) /\ OnlyCollections(k, r)
          /\ \A t \in Trans : Awaits(r, t, s) \notin {"start", "dump"}
      <4> HIDE DEF D
      <4> QED
        BY <1>5, <1>10, EndAnnounced
    <3>2. OnlyCollections(ctl, r)
      <4> HIDE DEF r
      <4> QED
        BY <1>10, <3>1, OnlyCollectionsThen
    <3> HIDE DEF r
    <3>3. ASSUME NEW t \in Trans, NEW x \in S, Awaits(r, t, x) \in {"dump", "wcn"}
          PROVE  x \in C
      <4>1. CASE Awaits(r, t, x) = "wcn"
        <5>1. Awaits(ctl, t, x) = "wcn"
          BY <3>1, <3>2, <4>1, StopsAreLeft
        <5>2. x \in B
          BY <1>5, <5>1, AwaitedDumps
        <5> QED
          BY <1>8, <5>2
      <4>2. CASE Awaits(r, t, x) = "dump"
        <5>1. x \in D /\ x # s
          <6>1. x # s
            BY <3>1, <4>2
          <6>2. x \in D
            <7> HIDE DEF D
            <7> QED
              BY <3>1, <4>2, AwaitedDumps
          <6> QED
            BY <6>1, <6>2
        <5> QED
          BY <1>8, <5>1
      <4> QED
        BY <3>3, <4>1, <4>2
    <3>4. Good(r, S, C)
      <4> HIDE DEF D
      <4> QED
        BY <3>1, <3>3, GoodBound
    <3> QED
      BY <1>11, <2>1, <3>4 DEF r
  <2>2. CASE ~a.end
    <3>1. \A t \in Trans, x \in S : Awaits(k, t, x) \in {"dump", "wcn"} => x \in D
      <4> HIDE DEF D
      <4> QED
        BY <1>10, AwaitedDumps
    <3>2. \A x \in S : x \in D => x \in C
      BY <1>4, <1>8, <2>2
    <3>3. Good(k, S, C)
      <4> HIDE DEF D
      <4> QED
        BY <1>10, <3>1, <3>2, GoodBound
    <3> QED
      BY <1>11, <2>2, <3>3
  <2> QED
    BY <2>1, <2>2
<1>13. ModesGood(log_mode', config', S)
  BY <1>2, <1>5 DEF modeVars
<1> QED
  BY <1>2, <1>7, <1>12, <1>13, SubsystemStep DEF C

\* A dump ends: those that are left of it, if any, are in progress or queued.
LEMMA DumpResultKeeps ==
  ASSUME IInv, NEW s \in Subsystems, DumpResult(s)
  PROVE  /\ CpGood(cp_state', dumps', Subsystems)
         /\ \A x \in Dumping : x # s => dumps'[x] > 0
         /\ UNCHANGED buildVars
<1>1. /\ dumps[s] > 0 /\ dumps' = [dumps EXCEPT ![s] = @ - 1]
      /\ cp_state' = [cp_state EXCEPT ![s] = "CWS_NOT_WORKING"] /\ UNCHANGED buildVars
  BY DEF DumpResult
<1>2. CpGood(cp_state, dumps, Subsystems)
  BY DEF IInv
<1>3. dumps \in [Subsystems -> Nat] /\ dumps[s] - 1 \in Nat
  BY <1>1, <1>2 DEF CpGood
<1>4. /\ dumps' \in [Subsystems -> Nat]
      /\ \A x \in Subsystems : x # s => dumps'[x] = dumps[x]
  BY <1>1, <1>3
<1>5. CpGood(cp_state', dumps', Subsystems)
  BY <1>1, <1>2, <1>4 DEF CpGood
<1>6. \A x \in Dumping : x # s => dumps'[x] > 0
  BY <1>4 DEF Dumping
<1> QED
  BY <1>1, <1>5, <1>6

\* A dump of s ends, and nobody waits for one.
LEMMA NobodyAwaits ==
  ASSUME IInv, NEW s \in Subsystems, DumpResult(s), NEW r, Good(r, Subsystems, Dumping),
         \A t \in Trans : Awaits(r, t, s) \notin {"dump", "wcn"}
  PROVE  Good(r, Subsystems, {x \in Subsystems : dumps'[x] > 0})
<1> DEFINE C == {x \in Subsystems : dumps'[x] > 0}
<1>1. \A x \in Dumping : x # s => dumps'[x] > 0
  BY DumpResultKeeps
<1>2. ASSUME NEW t \in Trans, NEW x \in Subsystems, Awaits(r, t, x) \in {"dump", "wcn"}
      PROVE  x \in C
  <2>1. x \in Dumping
    BY <1>2, AwaitedDumps
  <2> QED
    BY <1>1, <1>2, <2>1
<1> HIDE DEF C
<1>3. Good(r, Subsystems, C)
  BY <1>2, GoodBound
<1> QED
  BY <1>3 DEF C

\* Those who wait for the WCN to stop, of which there is at most one.
LEMMA StopWaiting ==
  ASSUME NEW B, Good(ctl, Subsystems, B), NEW t \in Trans, "WCN" \in Subsystems,
         Awaits(ctl, t, "WCN") = "wcn"
  PROVE  t \in StopWaits /\ ctl.trans[t].type = "DISABLE_LOG" /\ Runs(ctl.trans[t])
<1> DEFINE r == ctl.trans[t]
<1>1. LiveIn(ctl, t) /\ r.wait["WCN"] = "wcn" /\ Proper(r, Subsystems) /\ r \in Records(Subsystems)
  BY CtlFields DEF Awaits, Good, Core
<1>2. r.type = "DISABLE_LOG"
  BY <1>1 DEF Proper, MayAwait, LiveIn
<1>3. "WCN" \in Awaited(r, Subsystems)
  BY <1>1 DEF Awaited
<1>4. r.state = "TS_EXECUTING"
  BY <1>1, <1>2, <1>3, RecordFields DEF Proper
<1> QED
  BY <1>1, <1>2, <1>4 DEF StopWaits, Runs, Exclusive

LEMMA DumpEndKeeps ==
  ASSUME IInv, NEW s \in Subsystems, DumpEnd(s)
  PROVE  IInv'
<1>1. /\ DumpResult(s) /\ UNCHANGED modeVars /\ (s = "WCN" => StopWaits = {})
      /\ \E out \in Outcomes(s) : ctl' = NotifyDumpEnd(ctl, s, out)
  BY DEF DumpEnd
<1>2. PICK out : ctl' = NotifyDumpEnd(ctl, s, out)
  BY <1>1
<1>3. Good(ctl, Subsystems, Dumping) /\ IsFiniteSet(Subsystems)
  BY SubsystemsFinite DEF IInv
<1> DEFINE r == NotifyDumpEnd(ctl, s, out)
<1>4. /\ Good(r, Subsystems, Dumping) /\ OnlyCollections(ctl, r)
      /\ \A t \in Trans : Awaits(r, t, s) \notin {"start", "dump"}
  BY <1>3, EndAnnounced
<1> HIDE DEF r
<1>5. ASSUME NEW t \in Trans
      PROVE  Awaits(r, t, s) # "wcn"
  <2> SUFFICES ASSUME Awaits(r, t, s) = "wcn"
               PROVE  FALSE
    OBVIOUS
  <2>1. Awaits(ctl, t, s) = "wcn" /\ s = "WCN"
    BY <1>4, StopsAreLeft
  <2>2. t \in StopWaits
    BY <1>3, <2>1, StopWaiting
  <2> QED
    BY <1>1, <2>1, <2>2
<1>6. Good(r, Subsystems, {x \in Subsystems : dumps'[x] > 0})
  <2>1. \A t \in Trans : Awaits(r, t, s) \notin {"dump", "wcn"}
    BY <1>4, <1>5
  <2> QED
    BY <1>1, <1>4, <2>1, NobodyAwaits
<1>7. ModesGood(log_mode', config', Subsystems)
  BY <1>1 DEF IInv, modeVars
<1>8. CpGood(cp_state', dumps', Subsystems) /\ UNCHANGED buildVars
  BY <1>1, DumpResultKeeps
<1> QED
  BY <1>2, <1>6, <1>7, <1>8, SubsystemStep DEF r

LEMMA DumpEndStopKeeps ==
  ASSUME IInv, "WCN" \in Subsystems, DumpEndStop
  PROVE  IInv'
<1>1. /\ DumpResult("WCN") /\ \A t \in StopWaits : ctl.trans[t].type # "none"
      /\ log_mode' = [log_mode EXCEPT !["WCN"] = "LM_OFF"]
      /\ config' = [config EXCEPT !["WCN"] = "LM_OFF"]
  BY DEF DumpEndStop
<1>2. PICK t \in StopWaits, out \in Outcomes("WCN") :
        LET k == NotifyDumpEnd(ctl, "WCN", out) IN
        ctl' = Finish([k EXCEPT !.trans[t] = [@ EXCEPT !.wait["WCN"] = "none"]], t)
  BY DEF DumpEndStop
<1>3. Good(ctl, Subsystems, Dumping) /\ IsFiniteSet(Subsystems) /\ OneRuns(ctl)
  BY SubsystemsFinite DEF IInv, Good, Core
<1> DEFINE k == NotifyDumpEnd(ctl, "WCN", out)
           k1 == [k EXCEPT !.trans[t] = [@ EXCEPT !.wait["WCN"] = "none"]]
           r == IF k.trans[t].type \in Global THEN Finish(k1, t) ELSE TransResult(k1, t)
<1>4. ctl' = Finish(k1, t)
  BY <1>2
<1>5. t \in Trans /\ Awaits(ctl, t, "WCN") = "wcn"
  BY <1>1, <1>2 DEF StopWaits, Awaits, LiveIn
<1>6. ctl.trans[t].type = "DISABLE_LOG" /\ Runs(ctl.trans[t])
  BY <1>3, <1>5, StopWaiting
<1>7. /\ Good(k, Subsystems, Dumping) /\ OnlyCollections(ctl, k)
      /\ \A u \in Trans : Awaits(k, u, "WCN") \notin {"start", "dump"}
  BY <1>3, EndAnnounced
<1> HIDE DEF k
<1>8. k.trans[t] = ctl.trans[t]
  BY <1>5, <1>6, <1>7 DEF OnlyCollections
<1>9. LiveIn(k, t) /\ k.trans[t].type # "LOG_COLLECT" /\ k.trans[t].type \in Global
  BY <1>6, <1>8 DEF LiveIn, Global
<1>10. ctl' = r
  BY <1>4, <1>9
<1>11. Good(r, Subsystems, Dumping) /\ Apart(k, r, t) /\ ~LiveIn(r, t)
  BY <1>5, <1>7, <1>9, EndsKeeps
<1> HIDE DEF k1, r
<1>12. ASSUME NEW u \in Trans
       PROVE  Awaits(r, u, "WCN") \notin {"dump", "wcn"}
  <2>1. CASE u = t
    BY <1>11, <2>1 DEF Awaits
  <2>2. CASE u # t
    <3>1. Awaits(r, u, "WCN") = Awaits(k, u, "WCN")
      BY <1>11, <2>2 DEF Apart, Awaits, LiveIn
    <3>2. ASSUME Awaits(k, u, "WCN") = "wcn"
          PROVE  FALSE
      <4>1. Awaits(ctl, u, "WCN") = "wcn"
        BY <1>7, <3>2, StopsAreLeft
      <4>2. Runs(ctl.trans[u])
        BY <1>3, <4>1, StopWaiting
      <4> QED
        BY <1>3, <1>5, <1>6, <2>2, <4>2 DEF OneRuns
    <3> QED
      BY <1>7, <3>1, <3>2
  <2> QED
    BY <2>1, <2>2
<1>13. Good(r, Subsystems, {x \in Subsystems : dumps'[x] > 0})
  BY <1>1, <1>11, <1>12, NobodyAwaits
<1>14. ModesGood(log_mode', config', Subsystems)
  BY <1>1 DEF IInv, ModesGood, Modes
<1>15. CpGood(cp_state', dumps', Subsystems) /\ UNCHANGED buildVars
  BY <1>1, DumpResultKeeps
<1> QED
  BY <1>10, <1>13, <1>14, <1>15, SubsystemStep

LEMMA AliveKeeps ==
  ASSUME IInv, NEW s \in Subsystems, Alive(s)
  PROVE  IInv'
<1>1. /\ cp_state' = [cp_state EXCEPT ![s] = "CWS_WORKING"]
      /\ ctl' = ctl /\ log_mode' = log_mode /\ config' = config /\ dumps' = dumps
      /\ UNCHANGED buildVars
  BY DEF Alive, modeVars
<1>2. CpGood(cp_state', dumps', Subsystems)
  BY <1>1 DEF IInv, CpGood
<1>3. Good(ctl', Subsystems, {x \in Subsystems : dumps'[x] > 0})
  BY <1>1 DEF IInv, Dumping
<1>4. ModesGood(log_mode', config', Subsystems)
  BY <1>1 DEF IInv
<1> QED
  BY <1>1, <1>2, <1>3, <1>4, SubsystemStep

------------------------------------------------------------------------------
(* The theorems.                                                           *)

LEMMA InitIInv ==
  ASSUME Init
  PROVE  IInv
<1> DEFINE S == Subsystems
<1>1. /\ S \in Handlers
      /\ ctl.conn = [c \in Clients |-> Absent] /\ ctl.trans = [t \in Trans |-> NoTransaction]
      /\ ctl.transactions = <<>>
      /\ ctl.start = [s \in S |-> EmptyNotifier] /\ ctl.end = [s \in S |-> EmptyNotifier]
      /\ ctl = [conn |-> ctl.conn, trans |-> ctl.trans, transactions |-> ctl.transactions,
                start |-> ctl.start, end |-> ctl.end]
  BY DEF Init, Subsystems
<1>2. S \subseteq AllSubsystems
  BY <1>1, ControlAssumption
<1>3. /\ log_mode \in [S -> {"LM_OFF", "LM_NORMAL"}] /\ config = log_mode
      /\ cp_state = [s \in S |-> "CWS_WORKING"] /\ dumps = [s \in S |-> 0]
  BY DEF Init, Subsystems
<1>4. ModesGood(log_mode, config, S) /\ CpGood(cp_state, dumps, S)
  BY <1>3 DEF ModesGood, CpGood, Modes
<1>5. Absent \in Conns /\ ~Absent.reading /\ Absent.state = "absent"
  BY DEF Absent, Conns
<1>6. NoTransaction \in Records(S) /\ NoTransaction.type = "none"
  <2>1. NoParts \in [S -> Parts \cup {"none"}]
    BY DEF NoParts
  <2> QED
    BY <2>1 DEF NoTransaction, Records
<1>7. EmptyNotifier \in Notifiers /\ Quiet(EmptyNotifier) /\ Subscribed(EmptyNotifier) = {}
  <2>1. EmptyNotifier \in Notifiers /\ EmptyNotifier.evt_subs = <<>> /\ ~EmptyNotifier.is_notifying
    BY DEF EmptyNotifier, Notifiers
  <2> QED
    BY <2>1 DEF Quiet, Subscribed
<1>8. ctl \in Ctls(S)
  <2>1. /\ ctl.conn \in [Clients -> Conns] /\ ctl.trans \in [Trans -> Records(S)]
        /\ ctl.transactions \in Seq(Trans)
        /\ ctl.start \in [S -> Notifiers] /\ ctl.end \in [S -> Notifiers]
    BY <1>1, <1>5, <1>6, <1>7
  <2> QED
    BY <1>1, <2>1 DEF Ctls
<1>9. \A t \in Trans : ctl.trans[t].type = "none"
  BY <1>1, <1>6
<1>10. \A c \in Clients : ~ctl.conn[c].reading /\ ctl.conn[c].state = "absent"
  BY <1>1, <1>5
<1>11. Core(ctl, S, Dumping)
  <2>1. Coupled(ctl)
    BY <1>9, <1>10 DEF Coupled, LiveIn
  <2>2. \A t \in Trans : Proper(ctl.trans[t], S) /\ DumpsAwaited(ctl.trans[t], S, Dumping)
    BY <1>9 DEF Proper, DumpsAwaited
  <2>3. QueueInv(ctl)
    BY <1>1, <1>9 DEF QueueInv, IsInjective, Range, Global
  <2>4. OneRuns(ctl)
    BY <1>9 DEF OneRuns, Runs, Exclusive
  <2> QED
    BY <1>8, <2>1, <2>2, <2>3, <2>4 DEF Core
<1>12. ToldInv(ctl, S) /\ QuietBut(ctl, S, S)
  <2>1. \A t \in Trans, s \in S : Awaits(ctl, t, s) = "none"
    BY <1>9 DEF Awaits, LiveIn
  <2>2. \A s \in S : ctl.start[s] = EmptyNotifier /\ ctl.end[s] = EmptyNotifier
    BY <1>1
  <2> QED
    BY <1>7, <2>1, <2>2 DEF ToldInv, QuietBut
<1> QED
  BY <1>2, <1>4, <1>11, <1>12 DEF IInv, Good

LEMMA NextIInv ==
  ASSUME IInv, [Next]_vars
  PROVE  IInv'
<1>1. ASSUME NEW c \in Clients, Connect(c) \/ ProcessConnClosed(c) \/ Request(c)
      PROVE  IInv'
  <2>1. CASE Connect(c)
    BY <2>1, ConnectKeeps
  <2>2. CASE ProcessConnClosed(c)
    BY <2>2, ProcessConnClosedKeeps
  <2>3. CASE ProcEnableLog(c)
    BY <2>3, ProcEnableLogKeeps
  <2>4. CASE ProcDisableLog(c)
    BY <2>4, ProcDisableLogKeeps
  <2>5. CASE ProcCollectLog(c)
    BY <2>5, ProcCollectLogKeeps
  <2>6. CASE ProcSaveLastLog(c)
    BY <2>6, ProcSaveLastLogKeeps
  <2>7. CASE ProcEnableEvtLog(c)
    BY <2>7, ProcEnableEvtLogKeeps
  <2>8. CASE ProcSubscribe(c)
    BY <2>8, ProcSubscribeKeeps
  <2>9. CASE ProcUnsubscribe(c)
    BY <2>9, ProcUnsubscribeKeeps
  <2> QED
    BY <1>1, <2>1, <2>2, <2>3, <2>4, <2>5, <2>6, <2>7, <2>8, <2>9 DEF Request
<1>2. ASSUME NEW t \in Trans, PartReports(t)
      PROVE  IInv'
  <2>1. ASSUME NEW s \in Subsystems, DumpTimer(t, s) \/ LogConveyFin(t, s)
        PROVE  IInv'
    BY <2>1, DumpTimerKeeps, LogConveyFinKeeps
  <2>2. CASE "MODEM" \in Subsystems /\ ModemDone(t)
    BY <2>2, ModemDoneKeeps
  <2>3. CASE "WCN" \in Subsystems /\ LastLogTimeout(t)
    BY <2>3, LastLogTimeoutKeeps
  <2> QED
    BY <1>2, <2>1, <2>2, <2>3 DEF PartReports
<1>3. ASSUME NEW s \in Subsystems, Asserted(s) \/ DumpEnd(s) \/ Alive(s)
      PROVE  IInv'
  BY <1>3, AssertedKeeps, DumpEndKeeps, AliveKeeps
<1>4. CASE "WCN" \in Subsystems /\ DumpEndStop
  BY <1>4, DumpEndStopKeeps
<1>5. CASE UNCHANGED vars
  <2>1. UNCHANGED <<modeVars, cpVars>> /\ ctl' = ctl
    BY <1>5 DEF vars
  <2>2. Good(ctl', Subsystems, Dumping)
    BY <2>1 DEF IInv
  <2> QED
    BY <2>1, <2>2, ControlOnlyStep
<1> QED
  BY <1>1, <1>2, <1>3, <1>4, <1>5 DEF Next

\* The inductive invariant: in every state between two callbacks transactions and
\* clients know each other, what each transaction waits for goes with its type and
\* with the dumps, the lists of those who are told of dumps have exactly the
\* transactions that wait for one and connected clients, and no entry of theirs is
\* marked.
THEOREM Invariance == Spec => []IInv
<1>1. Init => IInv
  BY InitIInv
<1>2. IInv /\ [Next]_vars => IInv'
  BY NextIInv
<1> QED
  BY <1>1, <1>2, PTL DEF Spec

\* A transaction belongs to a client that is connected and waits for it, and a
\* client from which nothing is read has one: trans_result() reaches its client.
THEOREM EveryTransHasClient == Spec => []TransHasClient
<1>1. IInv => TransHasClient
  <2> SUFFICES ASSUME IInv
               PROVE  TransHasClient
    OBVIOUS
  <2>1. Coupled(ctl) /\ ctl \in Ctls(Subsystems)
    BY DEF IInv, Good, Core
  <2>2. \A t \in Trans : Live(t) <=> LiveIn(ctl, t)
    BY DEF Live, LiveIn
  <2>3. ASSUME NEW c \in Clients, ~ctl.conn[c].reading, ctl.conn[c].state # "absent"
        PROVE  ctl.conn[c].cur_trans # NoTrans /\ Live(ctl.conn[c].cur_trans)
    <3>1. ctl.conn[c].state = "CTS_EXECUTING"
      <4>1. ctl.conn[c] \in Conns
        BY <2>1, CtlFields
      <4>2. ctl.conn[c].state \in {"absent", "CTS_IDLE", "CTS_EXECUTING"}
        BY <4>1 DEF Conns
      <4> QED
        BY <2>1, <2>3, <4>2 DEF Coupled
    <3>2. ctl.conn[c].cur_trans \in Trans
      BY <2>1, <3>1 DEF Coupled
    <3>3. ctl.conn[c].cur_trans # NoTrans
      BY <3>2 DEF Trans, NoTrans
    <3> QED
      BY <2>1, <2>2, <3>1, <3>2, <3>3 DEF Coupled
  <2> QED
    BY <2>1, <2>2, <2>3 DEF TransHasClient, Coupled
<1> QED
  BY <1>1, Invariance, PTL

\* A transaction that has begun waits for a part that will report; the count of a
\* collection is that of the parts it waits for, and the controller's queue has the
\* global transactions.
THEOREM EveryTransWaits == Spec => []WaitsForParts
<1>1. IInv => WaitsForParts
  <2> SUFFICES ASSUME IInv
               PROVE  WaitsForParts
    OBVIOUS
  <2>1. Core(ctl, Subsystems, Dumping)
    BY DEF IInv, Good
  <2>2. ASSUME NEW t \in Trans, Live(t), ctl.trans[t].state = "TS_EXECUTING"
        PROVE  LET parts == {s \in Subsystems : ctl.trans[t].wait[s] # "none"} IN
               /\ parts # {}
               /\ ctl.trans[t].type = "LOG_COLLECT" => ctl.trans[t].missing = Cardinality(parts)
               /\ \A s \in parts : ctl.trans[t].wait[s] \in {"dump", "wcn"} => dumps[s] > 0
    <3>1. {s \in Subsystems : ctl.trans[t].wait[s] # "none"} = Awaited(ctl.trans[t], Subsystems)
      BY DEF Awaited
    <3>2. Proper(ctl.trans[t], Subsystems) /\ DumpsAwaited(ctl.trans[t], Subsystems, Dumping)
      BY <2>1 DEF Core
    <3>3. \A s \in Awaited(ctl.trans[t], Subsystems) :
            ctl.trans[t].wait[s] \in {"dump", "wcn"} => dumps[s] > 0
      BY <2>2, <3>2 DEF DumpsAwaited, Dumping, Awaited, Live
    <3> QED
      BY <2>2, <3>1, <3>2, <3>3 DEF Proper, Live
  <2>3. QueueInv(ctl)
    BY <2>1 DEF Core
  <2> QED
    BY <2>2, <2>3 DEF WaitsForParts, QueueInv
<1> QED
  BY <1>1, Invariance, PTL

\* Those who are told of dumps exist, and the transactions that are told are the
\* ones that wait for the dump: no callback goes to an object that is deleted.
THEOREM EverySubscriberExists == Spec => []SubscribersExist
<1>1. IInv => SubscribersExist
  <2> SUFFICES ASSUME IInv, NEW s \in Subsystems
               PROVE  /\ \A x \in Subscribed(ctl.start[s]) :
                           IF x \in Clients THEN ctl.conn[x].state # "absent"
                           ELSE Live(x) /\ ctl.trans[x].wait[s] = "start"
                      /\ Subscribed(ctl.end[s]) \ Clients =
                           {t \in Trans : Live(t) /\ ctl.trans[t].wait[s] \in {"start", "dump"}}
    BY DEF SubscribersExist
  <2>1. ToldInv(ctl, Subsystems) /\ ctl \in Ctls(Subsystems)
    BY DEF IInv, Good, Core
  <2>2. \A n \in Notifiers : Subscribed(n) \subseteq Clients \cup Trans
    BY NotifierFields, SubscribedBy
  <2>3. ctl.start[s] \in Notifiers /\ ctl.end[s] \in Notifiers
    BY <2>1, CtlFields
  <2>4. \A t \in Trans, w \in {"start", "dump"} :
          Awaits(ctl, t, s) = w <=> Live(t) /\ ctl.trans[t].wait[s] = w
    BY DEF Awaits, LiveIn, Live
  <2>5. \A t \in Trans : t \notin Clients
    BY ControlAssumption DEF Trans
  <2>6. ASSUME NEW x \in Subscribed(ctl.start[s])
        PROVE  IF x \in Clients THEN ctl.conn[x].state # "absent"
               ELSE Live(x) /\ ctl.trans[x].wait[s] = "start"
    BY <2>1, <2>2, <2>3, <2>4 DEF ToldInv
  <2>7. \A t \in Trans : t \in Subscribed(ctl.end[s]) <=>
                           Live(t) /\ ctl.trans[t].wait[s] \in {"start", "dump"}
    BY <2>1, <2>4 DEF ToldInv
  <2>8. Subscribed(ctl.end[s]) \ Clients =
          {t \in Trans : Live(t) /\ ctl.trans[t].wait[s] \in {"start", "dump"}}
    BY <2>2, <2>3, <2>5, <2>7
  <2> QED
    BY <2>6, <2>8
<1> QED
  BY <1>1, Invariance, PTL

\* The log modes that are written down are those of the handlers, but of a MODEM
\* whose event log could not be stopped.
THEOREM ModesAreWrittenDown == Spec => []ModeWrittenDown
<1>1. IInv => ModeWrittenDown
  BY DEF IInv, ModesGood, ModeWrittenDown
<1> QED
  BY <1>1, Invariance, PTL

==============================================================================
