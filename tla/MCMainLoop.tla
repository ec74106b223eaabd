------------------------------ MODULE MCMainLoop ------------------------------
(* Instances of MainLoop for TLC.                                              *)
EXTENDS MainLoop, TLC

Symmetry ==
  Permutations(Pipes) \cup Permutations(Conns) \cup Permutations(TimerIds)
===============================================================================
