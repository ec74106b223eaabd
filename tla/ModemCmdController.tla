------------------------- MODULE ModemCmdController -------------------------
(***************************************************************************)
(* ModemCmdController (modem_cmd_ctrl.cpp): settings of the audio DSP, of  *)
(* the other cores and of the MIPI log are written to a device of the      *)
(* MODEM, which may appear later than this program.  Until it does the     *)
(* last value of each setting is kept, and a timer opens the device.       *)
(*                                                                         *)
(* "told" is what was written to the device since it was opened.  "owed"   *)
(* is, for each setting, the last value the handler of the MODEM asked     *)
(* for, unless it could not be written.                                    *)
(***************************************************************************)
EXTENDS Naturals, Sequences, FiniteSets, SequencesExt

\* The settings with one value each, and the MIPI log, a list of entries.
Switches == {"pcm", "dest", "miniap", "orcadp"}
Settings == Switches \cup {"mipi"}
Nothing == <<>>

\* ModemCmdController::ModemCmdController(): three of the flags, and the values
\* they guard, are not initialized.
CmdInit(flags) ==
  [opened |-> FALSE, timer |-> FALSE,
   suspended |-> [x \in Settings |-> IF x \in flags THEN TRUE ELSE FALSE],
   value |-> [x \in Settings |-> IF x \in {"miniap", "orcadp"} /\ x \in flags THEN <<"on">> ELSE Nothing],
   told |-> [x \in Settings |-> Nothing],
   owed |-> [x \in Settings |-> Nothing]]

\* try_open(): there is a device or the timer is set.
TryOpen(c, exists) ==
  IF c.opened THEN c
  ELSE IF exists THEN [c EXCEPT !.opened = TRUE]
  ELSE [c EXCEPT !.timer = TRUE]

\* The entries of a list are written one by one, until one cannot be.  The MODEM
\* has the last of each type.
WriteEntry(told, e) == Append(RemoveFirstMatch(told, LAMBDA old : old[1] = e[1]), e)
Written(told, value) == FoldLeft(WriteEntry, told, value)

Tell(c, x, value) ==
  [c EXCEPT !.told[x] = IF x = "mipi" THEN Written(@, value) ELSE value, !.owed[x] = value]

Suspend(c, x, value) ==
  [c EXCEPT !.suspended[x] = TRUE, !.value[x] = value, !.owed[x] = value]

\* set_agdsp_log_dest(), set_agdsp_pcm_dump(), set_miniap_log_status(),
\* set_orcadp_log_status() and set_mipi_log_info() return 0 if Accepts.
Accepts(c, writable) == c.opened /\ writable

\* What cannot be written is given up.
GivenUp(c, x) == [c EXCEPT !.owed[x] = c.told[x]]

SetAgdspLogDest(c, dest, writable) ==
  IF ~c.opened THEN Suspend(c, "dest", dest)
  ELSE IF writable THEN Tell(c, "dest", dest) ELSE GivenUp(c, "dest")

SetAgdspPcmDump(c, pcm, writable) ==
  IF ~c.opened THEN Suspend(c, "pcm", pcm)
  ELSE IF writable THEN Tell(c, "pcm", pcm) ELSE GivenUp(c, "pcm")

SetMiniapLogStatus(c, status, writable) ==
  IF ~c.opened THEN Suspend(c, "miniap", status)
  ELSE IF writable THEN Tell(c, "miniap", status) ELSE GivenUp(c, "miniap")

SetOrcadpLogStatus(c, status, writable) ==
  IF ~c.opened THEN Suspend(c, "orcadp", status)
  ELSE IF writable THEN Tell(c, "orcadp", status) ELSE GivenUp(c, "orcadp")

SetMipiLogInfo(c, list, writable) ==
  IF ~c.opened THEN Suspend(c, "mipi", list)
  ELSE IF writable THEN Tell(c, "mipi", list) ELSE GivenUp(c, "mipi")

\* resume_set_agdsp_pcm_dump() and the others: the kept value is written.
ResumeSetAgdspPcmDump(c) ==
  IF c.suspended["pcm"]
  THEN SetAgdspPcmDump([c EXCEPT !.suspended["pcm"] = FALSE], c.value["pcm"], TRUE) ELSE c

ResumeSetAgdspLogDest(c) ==
  IF c.suspended["dest"]
  THEN SetAgdspLogDest([c EXCEPT !.suspended["dest"] = FALSE], c.value["dest"], TRUE) ELSE c

ResumeSetMiniapLogStatus(c) ==
  IF c.suspended["miniap"]
  THEN SetMiniapLogStatus([c EXCEPT !.suspended["miniap"] = FALSE], c.value["miniap"], TRUE) ELSE c

ResumeSetOrcadpLogStatus(c) ==
  IF c.suspended["orcadp"]
  THEN SetOrcadpLogStatus([c EXCEPT !.suspended["orcadp"] = FALSE], c.value["orcadp"], TRUE) ELSE c

ResumeSetMipiLogInfo(c) ==
  IF c.suspended["mipi"]
  THEN SetMipiLogInfo([c EXCEPT !.suspended["mipi"] = FALSE], c.value["mipi"], TRUE) ELSE c

\* Fault: one setting is forgotten.
DoSuspendActions_partly(c) ==
  ResumeSetMipiLogInfo(ResumeSetMiniapLogStatus(
    ResumeSetAgdspLogDest(ResumeSetAgdspPcmDump(c))))

DoSuspendActions(c) ==
  ResumeSetMipiLogInfo(ResumeSetOrcadpLogStatus(ResumeSetMiniapLogStatus(
    ResumeSetAgdspLogDest(ResumeSetAgdspPcmDump(c)))))

\* reopen_cmd_dev(): the timer has fired.
ReopenCmdDev(c, exists) ==
  LET c1 == TryOpen([c EXCEPT !.timer = FALSE], exists) IN
  IF c1.opened THEN DoSuspendActions(c1) ELSE c1

\* The MODEM restarts and knows nothing.
ModemForgot(c) == [c EXCEPT !.told = [x \in Settings |-> Nothing]]

\* A setting that was asked for has reached the MODEM, or is kept until the
\* device is open, and the device is tried again.
Delivered(c, x) ==
  IF c.opened
  THEN IF x = "mipi" THEN Range(c.owed[x]) \subseteq Range(c.told[x]) ELSE c.told[x] = c.owed[x]
  ELSE c.timer /\ c.suspended[x] /\ c.value[x] = c.owed[x]
=============================================================================
