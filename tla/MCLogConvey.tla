----------------------------- MODULE MCLogConvey -----------------------------
(* Instances of LogConvey for TLC.                                            *)
EXTENDS LogConvey, TLC

CONSTANTS c1, c2, u1, u2

\* Each request moves one directory.
OneEach == (c1 :> {u1}) @@ (c2 :> {u2})

\* One request moves two.
OneOfTwo == c1 :> {u1, u2}

Symmetry == Permutations(Workers) \cup Permutations(Media)
==============================================================================
