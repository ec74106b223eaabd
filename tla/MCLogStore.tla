----------------------------- MODULE MCLogStore -----------------------------
(* The MODEM, whose logs have a limit of size, and the MODEM while the      *)
(* phone is starting, when they have one of number: the two have different  *)
(* directories and are taken as two subsystems that may both write, which   *)
(* is more than happens.  Two media of the internal storage, an external one. *)
EXTENDS LogStore

MCMedia == <<"data", "mtp", "sd">>
MCTypeOf == [c \in {"data", "mtp", "sd"} |-> IF c = "sd" THEN "external" ELSE "internal"]
MCClassOf == [p \in Cps |-> IF p = "modem" THEN "CLASS_MODEM" ELSE "CLASS_MIX"]

Start(permitted, overwrite, before, ready, spent) ==
  [permitted |-> permitted, overwrite |-> overwrite, before |-> before, ready |-> ready, events |-> spent]
MCStarts == {Start(AllMedia, TRUE, {"mtp"}, TRUE, 0), Start(AllMedia, FALSE, {}, FALSE, 1),
             Start({"sd"}, TRUE, {}, FALSE, 1)}
=============================================================================
