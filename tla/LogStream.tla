------------------------------ MODULE LogStream ------------------------------
(***************************************************************************)
(* What the storage write path promises about the log of one subsystem:    *)
(* the accepted units reach the storage in the order they were accepted,   *)
(* none of them twice.  A unit may be lost, because a write failed or the  *)
(* queue was discarded for want of quota, but what is lost at a time is    *)
(* one contiguous run of what was pending: the rest keeps its order.       *)
(***************************************************************************)
EXTENDS Naturals, Sequences

VARIABLES
  pending,    \* accepted units that are not on the storage yet
  stored      \* the units on the storage, in the order they got there

streamVars == <<pending, stored>>

Init == pending = <<>> /\ stored = <<>>

\* Units join at the tail.
Accept ==
  /\ Len(pending') > Len(pending)
  /\ SubSeq(pending', 1, Len(pending)) = pending
  /\ UNCHANGED stored

\* The oldest n units are written.
Store ==
  \E n \in 1 .. Len(pending) :
    /\ stored' = stored \o SubSeq(pending, 1, n)
    /\ pending' = SubSeq(pending, n + 1, Len(pending))

\* The units from i to j are lost.
Lose ==
  /\ \E i, j \in 1 .. Len(pending) :
       /\ i <= j
       /\ pending' = SubSeq(pending, 1, i - 1) \o SubSeq(pending, j + 1, Len(pending))
  /\ UNCHANGED stored

Next == Accept \/ Store \/ Lose

Spec == Init /\ [][Next]_streamVars
==============================================================================
