---------------------------- MODULE MCIoScheduler ----------------------------
(* Instances of IoScheduler for TLC.  Blocks are interchangeable, and so are  *)
(* the files.                                                                 *)
EXTENDS IoScheduler, TLC

Symmetry == Permutations(Buffers) \cup Permutations(Files)
==============================================================================
