---------------------------- MODULE MCModemTrans ----------------------------
(* Instances of ModemTrans for TLC.                                           *)
EXTENDS ModemTrans, TLC

Symmetry == Permutations(Timer)
==============================================================================
