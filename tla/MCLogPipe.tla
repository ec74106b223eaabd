------------------------------ MODULE MCLogPipe ------------------------------
(* Instances of LogPipe for TLC.                                              *)
EXTENDS LogPipe, TLC

Symmetry ==
  Permutations(Buffers) \cup Permutations(Files) \cup Permutations(Media)
==============================================================================
