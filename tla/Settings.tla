------------------------------ MODULE Settings ------------------------------
(***************************************************************************)
(* Settings: requests of clients (client_hdl*.cpp) that read and change    *)
(* them, the log controller (log_ctrl*.cpp), which gives a new value to    *)
(* the log handlers, to the configuration (LogConfig) and through it to    *)
(* the working file, and to the MODEM (ModemCmdController); and the start  *)
(* of the program, which makes the handlers from the configuration.        *)
(*                                                                         *)
(* A request is the sequence of its tokens, and is one step.  Saving may   *)
(* fail, or the file be cut off; devices may not be there.  Logs are       *)
(* turned on and off at once; what takes longer is in ClientTrans.         *)
(***************************************************************************)
EXTENDS LogConfig

CONSTANTS
  Initial,       \* the lines of the file that is shipped
  Builds,        \* "userdebug", "user" and "cmcc", a user build for an operator
  DeviceSets,    \* the sets of subsystems that may have devices
  Requests,      \* what clients may send
  Numbers,       \* the tokens that are numbers
  Cuts,          \* where the file may be cut off: lines, and tokens of the next
  Garbage,       \* the sets of flags that may be set without being initialized
  PowerOn,       \* whether the log may be started while the phone is starting
  MaxRequests, MaxFaults, MaxRestarts   \* bounds

ASSUME SettingsAssumption ==
  /\ Builds \subseteq {"userdebug", "user", "cmcc"} /\ Builds # {}
  /\ DeviceSets \subseteq SUBSET Types /\ DeviceSets # {}
  /\ Initial \in Seq(Seq(STRING))
  /\ Requests \subseteq Seq(STRING) \ {<<>>}
  /\ "0" \in Numbers
  /\ Cuts \subseteq Nat \X Nat
  /\ PowerOn \subseteq BOOLEAN /\ PowerOn # {}
  /\ {MaxRequests, MaxFaults, MaxRestarts} \subseteq Nat

Cmd == INSTANCE ModemCmdController

VARIABLES
  program,   \* the memory of the program (Started), or <<>> when it has ended
  work,      \* the working file: [exists, lines, torn]
  answer,    \* the last answer
  build, devices,               \* of this phone
  requests, faults, restarts    \* counted against the bounds

vars == <<program, work, answer, build, devices, requests, faults, restarts>>

Ended == [ended |-> TRUE]
Runs == ~program.ended
NoFile == [exists |-> FALSE, lines |-> <<>>, torn |-> FALSE]
UserBuild == build # "userdebug"

\* What the environment does during a step: how saving ends, whether the device
\* of the audio DSP opens, whether the device for commands is there and can be
\* written, whether the phone is still starting, and what uninitialized memory has.
Fine(early, exists, garbage) ==
  [save |-> "saved", cut |-> <<0, 0>>, dsp |-> TRUE, exists |-> exists, writable |-> TRUE,
   early |-> early, garbage |-> garbage]
FineOnes == {Fine(early, TRUE, {}) : early \in PowerOn}
Faults ==
  {[Fine(FALSE, TRUE, {}) EXCEPT !.save = "not opened"],
   [Fine(FALSE, TRUE, {}) EXCEPT !.dsp = FALSE],
   [Fine(FALSE, TRUE, {}) EXCEPT !.writable = FALSE]}
  \cup {[Fine(FALSE, TRUE, {}) EXCEPT !.save = "cut off", !.cut = c] : c \in Cuts}

------------------------------------------------------------------------------
(* The working file.  "saved" is what the settings were when they were     *)
(* last read or written.                                                   *)

\* save(): a file that cannot be opened is an error, one that is cut off is not.
Save(w, env) ==
  CASE env.save = "not opened" -> w
    [] env.save = "cut off" ->
         [w EXCEPT !.work = [exists |-> TRUE, lines |-> CutOff(Lines(w.conf), env.cut[1], env.cut[2]),
                             torn |-> TRUE],
                   !.conf.m_dirty = FALSE, !.saved = Content(w.conf)]
    [] OTHER ->
         [w EXCEPT !.work = [exists |-> TRUE, lines |-> Lines(w.conf), torn |-> FALSE],
                   !.conf.m_dirty = FALSE, !.saved = Content(w.conf)]

SaveIfDirty(w, env) == IF w.conf.m_dirty THEN Save(w, env) ELSE w

------------------------------------------------------------------------------
(* Handlers.                                                               *)

NoPipe == [present |-> FALSE]

\* LogPipeHandler::LogPipeHandler() and reset_external_max_size().
Pipe(e, capped) ==
  [present |-> TRUE, log_mode |-> "LM_OFF", m_internal_max_size |-> e.internal_limit,
   m_external_max_size |-> IF capped THEN "50" ELSE e.external_limit,
   tmp_external_max_size |-> IF capped THEN e.external_limit ELSE "0",
   m_max_log_file_size |-> e.file_size_limit, overwrite |-> e.overwrite]

\* start_logging() and stop_logging() of a log handler.
StartLogging(w, t) ==
  LET h == w.pipes[t]
      tmp == h.tmp_external_max_size
  IN [w EXCEPT !.pipes[t] = [h EXCEPT !.log_mode = "LM_NORMAL",
                                      !.m_external_max_size = IF tmp # "0" THEN tmp ELSE @,
                                      !.tmp_external_max_size = "0"]]
StopLogging(w, t) == [w EXCEPT !.pipes[t].log_mode = "LM_OFF"]

\* WanModemLogHandler::start(): while the phone is starting nothing is overwritten.
StartModem(w, env) ==
  LET w1 == StartLogging(w, WanModem)
      w2 == IF w1.modem.poweron_period /\ env.early
            THEN [w1 EXCEPT !.modem.mix = TRUE, !.pipes[WanModem].overwrite = FALSE] ELSE w1
  IN [w2 EXCEPT !.modem.poweron_period = FALSE,
                !.cmd = Cmd!SetMipiLogInfo(@, w.conf.m_mipilog, env.writable)]

\* WanModemLogHandler::WanModemLogHandler() and what create_handler() gives it.
CreateModem(w, env) ==
  LET cmd == Cmd!TryOpen(Cmd!CmdInit(env.garbage), env.exists) IN
  [w EXCEPT !.modem = [save_wcdma_iq |-> WcdmaIqEnabled(w.conf, WanModem), poweron_period |-> TRUE,
                       mix |-> FALSE, save_md |-> w.conf.m_enable_md,
                       md_to_int |-> w.conf.m_md_save_to_int, working |-> TRUE, restarted |-> FALSE,
                       mini_ap_log |-> "miniap" \in env.garbage,
                       orcadp_log |-> "orcadp" \in env.garbage],
            !.cmd = Cmd!SetAgdspLogDest(
                      Cmd!SetAgdspPcmDump(cmd, <<OnOff(w.conf.agdsp_pcm_dump)>>, env.writable),
                      <<w.conf.agdsp_log_dest>>, env.writable)]

\* AgDspLogHandler::init_log_output(): the device is opened if it is not open.
InitLogOutput(w, env) ==
  IF env.dsp THEN [w EXCEPT !.dsp = [dest |-> w.conf.agdsp_log_dest, pcm |-> w.conf.agdsp_pcm_dump,
                                     heard |-> TRUE]]
  ELSE [w EXCEPT !.dsp.heard = FALSE]

\* create_handler(), and init() for the audio DSP.  (That a shipped file asks for
\* the event log of the MODEM is left out.)
CreateHandler(w, e, env) ==
  IF e.type \notin devices THEN w
  ELSE LET w1 == [w EXCEPT !.pipes[e.type] = Pipe(e, UserBuild /\ ~w.conf.use_work_conf_file)]
           w2 == IF e.type = WanModem THEN CreateModem(w1, env) ELSE w1
           w3 == IF e.mode # "LM_NORMAL" THEN w2
                 ELSE IF e.type = WanModem THEN StartModem(w2, env) ELSE StartLogging(w2, e.type)
       IN IF e.type = "CT_AGDSP" THEN InitLogOutput(w3, env) ELSE w3

\* main() and LogController::init().
Started(file, env) ==
  LET c == ReadConfig(Initial, file, build = "cmcc")
      w == [ended |-> FALSE, conf |-> c, work |-> file, saved |-> Content(c),
            pipes |-> [t \in Types |-> NoPipe], permit |-> c.ext_stor_active,
            modem |-> [working |-> FALSE], dsp |-> [dest |-> "off", pcm |-> FALSE, heard |-> TRUE],
            cmd |-> Cmd!CmdInit({}), answer |-> <<>>]
  IN FoldLeft(LAMBDA a, e : CreateHandler(a, e, env), w, c.m_config)

\* find_log_handler().
Present(w, t) == t \in Types /\ w.pipes[t].present
HasModem(w) == Present(w, WanModem)

------------------------------------------------------------------------------
(* The log controller.  A result is answered as trans_result_to_req_result *)
(* says.                                                                   *)

Answered(w, rec) == [w EXCEPT !.answer = <<rec>>]
Ok(w) == Answered(w, "REC_SUCCESS")
Text(w, t) == [w EXCEPT !.answer = <<"OK", t>>]

SetLogFileSize(w, t, len, env) ==
  IF Present(w, t)
  THEN Save([w EXCEPT !.pipes[t].m_max_log_file_size = len, !.conf = SetCpLogFileSize(@, t, len)], env)
  ELSE w

SetLogOverwrite(w, t, en, env) ==
  IF Present(w, t)
  THEN SaveIfDirty([w EXCEPT !.pipes[t].overwrite = en, !.conf = SetCpLogOverwrite(@, t, en)], env)
  ELSE w

\* enable_media() of the storage manager is given the permission.
ActiveExternalStorage(w, active, env) ==
  IF active # w.conf.ext_stor_active
  THEN SaveIfDirty([w EXCEPT !.permit = active, !.conf = SetExternalStor(@, active)], env) ELSE w

SetMdStor(w, int, env) ==
  IF int # w.conf.m_md_save_to_int /\ HasModem(w)
  THEN SaveIfDirty([w EXCEPT !.modem.md_to_int = int, !.conf = SetMdIntStor(@, int)], env) ELSE w

SetCpLogSize(w, t, mt, sz, env) ==
  IF Present(w, t)
  THEN Ok(Save([w EXCEPT !.pipes[t] = IF mt = "internal" THEN [@ EXCEPT !.m_internal_max_size = sz]
                                      ELSE [@ EXCEPT !.m_external_max_size = sz],
                         !.conf = SetCpStorageLimit(@, t, mt, sz)], env))
  ELSE Answered(w, "REC_CP_NONEXISTENT")

\* Fault: the settings are changed before the handler is looked for.
SetMd_early(w, en, env) ==
  IF w.conf.m_enable_md = en THEN Ok(w)
  ELSE LET w1 == Save([w EXCEPT !.conf = EnableMd(@, en)], env) IN
       IF ~HasModem(w) THEN Answered(w1, "REC_FAILURE") ELSE Ok([w1 EXCEPT !.modem.save_md = en])

\* enable_md() and disable_md().
SetMd(w, en, env) ==
  IF w.conf.m_enable_md = en THEN Ok(w)
  ELSE IF ~HasModem(w) THEN Answered(w, "REC_FAILURE")
  ELSE Ok(Save([w EXCEPT !.modem.save_md = en, !.conf = EnableMd(@, en)], env))

\* enable_wcdma_iq() and disable_wcdma_iq(); the result of saving is not looked at.
EnableWcdmaIq(w, t, env) ==
  IF t \in {"CT_WCN", "CT_PM_SH", "CT_GNSS", "CT_AGDSP"} THEN Answered(w, "REC_FAILURE")
  ELSE IF ~Present(w, t) THEN Answered(w, "REC_CP_NONEXISTENT")
  ELSE Ok(Save([w EXCEPT !.modem.save_wcdma_iq = TRUE, !.conf = EnableIq(@, t)], env))
DisableWcdmaIq(w, t, env) ==
  IF t \in {"CT_WCN", "CT_PM_SH", "CT_GNSS", "CT_AGDSP"} THEN Answered(w, "REC_FAILURE")
  ELSE IF ~Present(w, t) THEN Answered(w, "REC_CP_NONEXISTENT")
  ELSE Ok(Save([w EXCEPT !.modem.save_wcdma_iq = FALSE, !.conf = DisableIq(@, t)], env))

\* set_log_dest() and set_pcm_dump() of the handler of the audio DSP, whose
\* results are not looked at.  The device is open while its log is on.
DspLogDest(w, dest, env) ==
  IF env.dsp \/ w.pipes["CT_AGDSP"].log_mode = "LM_NORMAL"
  THEN [w EXCEPT !.dsp.dest = dest] ELSE [w EXCEPT !.dsp.heard = FALSE]

\* While the phone is starting the handler of the MODEM has another class, and
\* is not found.
SetDspLogDest(w, dest, env) ==
  LET w1 == IF Present(w, "CT_AGDSP")
            THEN Ok(SaveIfDirty([DspLogDest(w, dest, env) EXCEPT !.conf = SetAgdspLogDest(@, dest)], env))
            ELSE Answered(w, "REC_NO_AGDSP")
  IN IF HasModem(w) /\ ~w.modem.mix
     THEN [w1 EXCEPT !.cmd = Cmd!SetAgdspLogDest(@, <<dest>>, env.writable)] ELSE w1

SetDspPcmDump(w, pcm, env) ==
  LET w1 == IF Present(w, "CT_AGDSP")
            THEN Ok(SaveIfDirty([w EXCEPT !.dsp.pcm = pcm, !.conf = EnableAgdspPcmDump(@, pcm)], env))
            ELSE Answered(w, "REC_NO_AGDSP")
  IN IF HasModem(w) /\ ~w.modem.mix
     THEN [w1 EXCEPT !.cmd = Cmd!SetAgdspPcmDump(@, <<OnOff(pcm)>>, env.writable)] ELSE w1

\* set_orca_log() of the log controller and of the handler of the MODEM.
TellMiniap(w, status, env) ==
  [w EXCEPT !.modem.mini_ap_log = status,
            !.cmd = Cmd!SetMiniapLogStatus(@, <<OnOff(status)>>, env.writable)]
TellOrcadp(w, status, env) ==
  [w EXCEPT !.modem.orcadp_log = status,
            !.cmd = Cmd!SetOrcadpLogStatus(@, <<OnOff(status)>>, env.writable)]

SetOrcaLog(w, cmd, status, env) ==
  IF ~HasModem(w) THEN Answered(w, "REC_FAILURE")
  ELSE Ok(IF cmd = "SET_MINIAP_LOG" THEN TellMiniap(w, status, env) ELSE TellOrcadp(w, status, env))

\* The entry takes the place of the one of its type only if the MODEM was told.
SetMipiLog(w, e, env) ==
  IF ~HasModem(w) THEN Answered(w, "REC_FAILURE")
  ELSE LET w1 == [w EXCEPT !.cmd = Cmd!SetMipiLogInfo(@, <<e>>, env.writable)] IN
       IF ~Cmd!Accepts(w.cmd, env.writable) THEN Answered(w1, "REC_FAILURE")
       ELSE Ok(Save([w1 EXCEPT !.conf = SetMipiLogInfo(@, WithMipi(@.m_mipilog, e))], env))

\* enable_log() and disable_log() of one subsystem, done at once.
StartOne(w, t, env) ==
  IF ~Present(w, t) \/ w.pipes[t].log_mode = "LM_NORMAL" THEN w
  ELSE LET w1 == IF t = WanModem THEN StartModem(w, env) ELSE StartLogging(w, t)
       IN [w1 EXCEPT !.conf = SetLogMode(@, t, "LM_NORMAL")]
StopOne(w, t) ==
  IF ~Present(w, t) \/ w.pipes[t].log_mode = "LM_OFF" THEN w
  ELSE [StopLogging(w, t) EXCEPT !.conf = SetLogMode(@, t, "LM_OFF")]

------------------------------------------------------------------------------
(* Requests: p has the tokens after the first one.                         *)

GetCpType(tok) ==
  CASE tok = "5MODE" -> "CT_5MODE" [] tok = "WCN" -> "CT_WCN" [] tok = "GNSS" -> "CT_GNSS"
    [] tok = "PM_SH" -> "CT_PM_SH" [] tok = "AG-DSP" -> "CT_AGDSP" [] tok = "TD" -> "CT_TD"
    [] OTHER -> Unknown

Inval(w) == Answered(w, "REC_INVAL_PARAM")
TypeFirst(p) == Len(p) > 0 /\ GetCpType(p[1]) # Unknown

ProcSetLogFileSize(w, p, env) ==
  IF ~TypeFirst(p) \/ Len(p) # 2 \/ p[2] \notin Numbers \ {"0"} THEN Inval(w)
  ELSE Ok(SetLogFileSize(w, GetCpType(p[1]), p[2], env))

ProcGetLogFileSize(w, p) ==
  IF ~TypeFirst(p) THEN Inval(w)
  ELSE IF Present(w, GetCpType(p[1])) THEN Text(w, w.pipes[GetCpType(p[1])].m_max_log_file_size)
  ELSE Answered(w, "REC_CP_NONEXISTENT")

ProcSetStorageChoice(w, p, env) ==
  IF Len(p) # 1 \/ p[1] \notin {"INTERNAL", "EXTERNAL"} THEN Inval(w)
  ELSE Ok(ActiveExternalStorage(w, p[1] = "EXTERNAL", env))

ProcGetStorageChoice(w, p) ==
  IF Len(p) > 0 THEN Inval(w)
  ELSE Text(w, IF w.conf.ext_stor_active THEN "EXTERNAL" ELSE "INTERNAL")

\* The result of set_md_int_stor() is not looked at.
ProcSetMdPos(w, p, env) ==
  IF Len(p) = 0 \/ p[1] \notin {"INTERNAL", "EXTERNAL"} THEN Inval(w)
  ELSE Ok(SetMdStor(w, p[1] = "INTERNAL", env))

ProcGetMdPos(w, p) ==
  IF Len(p) > 0 THEN Inval(w)
  ELSE Text(w, IF w.conf.m_md_save_to_int THEN "INTERNAL" ELSE "EXTERNAL")

ProcSetCpLogSize(w, p, env) ==
  IF ~TypeFirst(p) \/ Len(p) # 3 \/ p[2] \notin {"internal", "external"} \/ p[3] \notin Numbers
  THEN Inval(w) ELSE SetCpLogSize(w, GetCpType(p[1]), p[2], p[3], env)

ProcGetCpLogSize(w, p) ==
  IF ~TypeFirst(p) \/ Len(p) < 2 \/ p[2] \notin {"internal", "external"} THEN Inval(w)
  ELSE LET t == GetCpType(p[1]) IN
       IF ~Present(w, t) THEN Answered(w, "REC_CP_NONEXISTENT")
       ELSE Text(w, IF p[2] = "internal" THEN w.pipes[t].m_internal_max_size
                    ELSE w.pipes[t].m_external_max_size)

ProcSetLogOverwrite(w, p, en, env) ==
  IF ~TypeFirst(p) \/ Len(p) # 1 THEN Inval(w) ELSE Ok(SetLogOverwrite(w, GetCpType(p[1]), en, env))

ProcGetLogOverwrite(w, p) ==
  IF ~TypeFirst(p) \/ Len(p) # 1 THEN Inval(w)
  ELSE LET t == GetCpType(p[1]) IN
       IF ~Present(w, t) THEN Answered(w, "REC_CP_NONEXISTENT")
       ELSE Text(w, IF Find(w.conf.m_config, t).overwrite THEN "ENABLE" ELSE "DISABLE")

ProcEnableMd(w, p, env) == IF Len(p) > 0 THEN Inval(w) ELSE SetMd(w, TRUE, env)
ProcDisableMd(w, p, env) == IF Len(p) > 0 THEN Inval(w) ELSE SetMd(w, FALSE, env)
ProcMiniDump(w, p) == IF Len(p) > 0 THEN Inval(w) ELSE Answered(w, "REC_FAILURE")

ProcEnableIq(w, p, env) ==
  IF ~TypeFirst(p) \/ Len(p) < 2 \/ p[2] # "WCDMA" THEN Inval(w)
  ELSE EnableWcdmaIq(w, GetCpType(p[1]), env)
ProcDisableIq(w, p, env) ==
  IF ~TypeFirst(p) \/ (Len(p) > 1 /\ p[2] # "WCDMA") THEN Inval(w)
  ELSE DisableWcdmaIq(w, GetCpType(p[1]), env)

ProcGetLogState(w, p) ==
  IF Len(p) = 0 THEN Inval(w)
  ELSE LET t == GetCpType(p[1]) IN
       IF t = Unknown THEN Answered(w, "REC_UNKNOWN_CP_TYPE")
       ELSE Text(w, IF Present(w, t) THEN w.pipes[t].log_mode ELSE "LM_OFF")

\* parse_modem_set(): known types, none of them twice.
ModemSet(p) ==
  Len(p) > 0 /\ (\A i \in DOMAIN p : GetCpType(p[i]) # Unknown) /\ IsInjective(p)

ProcEnableLog(w, p, env) ==
  IF ~ModemSet(p) THEN Inval(w)
  ELSE Ok(SaveIfDirty(FoldLeft(LAMBDA a, tok : StartOne(a, GetCpType(tok), env), w, p), env))
ProcDisableLog(w, p, env) ==
  IF ~ModemSet(p) THEN Inval(w)
  ELSE Ok(SaveIfDirty(FoldLeft(LAMBDA a, tok : StopOne(a, GetCpType(tok)), w, p), env))

ProcSetAgdspLogDest(w, p, env) ==
  IF Len(p) # 1 \/ p[1] \notin {"OFF", "UART", "USB"} THEN Inval(w)
  ELSE SetDspLogDest(w, CASE p[1] = "OFF" -> "off" [] p[1] = "UART" -> "uart" [] OTHER -> "ap", env)
ProcGetAgdspLogDest(w, p) ==
  IF Len(p) > 0 THEN Inval(w)
  ELSE Text(w, CASE w.conf.agdsp_log_dest = "off" -> "OFF" [] w.conf.agdsp_log_dest = "uart" -> "UART"
                 [] OTHER -> "USB")
ProcSetAgdspPcm(w, p, env) ==
  IF Len(p) # 1 \/ p[1] \notin {"ON", "OFF"} THEN Inval(w) ELSE SetDspPcmDump(w, p[1] = "ON", env)
ProcGetAgdspPcm(w, p) ==
  IF Len(p) > 0 THEN Inval(w) ELSE Text(w, IF w.conf.agdsp_pcm_dump THEN "ON" ELSE "OFF")

ProcSetOrcaLog(w, cmd, p, env) ==
  IF Len(p) # 1 \/ p[1] \notin {"ON", "OFF"} THEN Inval(w) ELSE SetOrcaLog(w, cmd, p[1] = "ON", env)

\* Which types, channels and frequencies there are is not checked.
ProcSetMipiLogInfo(w, p, env) == IF Len(p) # 3 THEN Inval(w) ELSE SetMipiLog(w, p, env)
ProcGetMipiLogInfo(w, p) ==
  IF Len(p) # 1 THEN Inval(w)
  ELSE [w EXCEPT !.answer = p \o FlattenSeq([i \in DOMAIN w.conf.m_mipilog |->
          IF w.conf.m_mipilog[i][1] = p[1] THEN Tail(w.conf.m_mipilog[i]) ELSE <<>>])]

\* reset(): the file is removed and the program kills itself.
Reset(w) == [w EXCEPT !.ended = TRUE, !.work = NoFile]

ProcessReq(w, r, env) ==
  LET p == Tail(r)
      cmd == r[1]
  IN CASE cmd = "SET_LOG_FILE_SIZE" -> ProcSetLogFileSize(w, p, env)
       [] cmd = "GET_LOG_FILE_SIZE" -> ProcGetLogFileSize(w, p)
       [] cmd = "SET_STORAGE_CHOICE" -> ProcSetStorageChoice(w, p, env)
       [] cmd = "GET_STORAGE_CHOICE" -> ProcGetStorageChoice(w, p)
       [] cmd = "SET_MD_STOR_POS" -> ProcSetMdPos(w, p, env)
       [] cmd = "GET_MD_STOR_POS" -> ProcGetMdPos(w, p)
       [] cmd = "SET_CP_LOG_SIZE" -> ProcSetCpLogSize(w, p, env)
       [] cmd = "GET_CP_LOG_SIZE" -> ProcGetCpLogSize(w, p)
       [] cmd = "ENABLE_LOG_OVERWRITE" -> ProcSetLogOverwrite(w, p, TRUE, env)
       [] cmd = "DISABLE_LOG_OVERWRITE" -> ProcSetLogOverwrite(w, p, FALSE, env)
       [] cmd = "GET_LOG_OVERWRITE" -> ProcGetLogOverwrite(w, p)
       [] cmd = "ENABLE_MD" -> ProcEnableMd(w, p, env)
       [] cmd = "DISABLE_MD" -> ProcDisableMd(w, p, env)
       [] cmd = "MINI_DUMP" -> ProcMiniDump(w, p)
       [] cmd = "ENABLE_IQ" -> ProcEnableIq(w, p, env)
       [] cmd = "DISABLE_IQ" -> ProcDisableIq(w, p, env)
       [] cmd = "GET_LOG_STATE" -> ProcGetLogState(w, p)
       [] cmd = "ENABLE_LOG" -> ProcEnableLog(w, p, env)
       [] cmd = "DISABLE_LOG" -> ProcDisableLog(w, p, env)
       [] cmd = "SET_AGDSP_LOG_OUTPUT" -> ProcSetAgdspLogDest(w, p, env)
       [] cmd = "GET_AGDSP_LOG_OUTPUT" -> ProcGetAgdspLogDest(w, p)
       [] cmd = "SET_AGDSP_PCM_OUTPUT" -> ProcSetAgdspPcm(w, p, env)
       [] cmd = "GET_AGDSP_PCM_OUTPUT" -> ProcGetAgdspPcm(w, p)
       [] cmd \in {"SET_MINIAP_LOG", "SET_ORCADP_LOG"} -> ProcSetOrcaLog(w, cmd, p, env)
       [] cmd = "SET_MIPI_LOG_INFO" -> ProcSetMipiLogInfo(w, p, env)
       [] cmd = "GET_MIPI_LOG_INFO" -> ProcGetMipiLogInfo(w, p)
       [] cmd = "RESET_SETTING" -> Reset(w)
       [] OTHER -> Answered(w, "REC_UNKNOWN_REQ")

------------------------------------------------------------------------------
(* Steps.                                                                  *)

phone == <<build, devices>>

\* What the step leaves in memory, in the file and on the connection.
Becomes(w) ==
  /\ program' = IF w.ended THEN Ended ELSE [w EXCEPT !.work = NoFile, !.answer = <<>>]
  /\ work' = w.work
  /\ answer' = w.answer
  /\ UNCHANGED phone

\* No client is answered in the step, and the file stays as it is.
NoRequest == answer' = <<>> /\ UNCHANGED <<work, build, devices, requests, faults, restarts>>

World == [program EXCEPT !.work = work, !.answer = <<>>]

Init ==
  /\ build \in Builds
  /\ devices \in DeviceSets
  /\ work = NoFile
  /\ answer = <<>>
  /\ requests = 0 /\ faults = 0 /\ restarts = 0
  /\ \E early \in PowerOn, exists \in BOOLEAN, g \in Garbage :
       program = [Started(NoFile, Fine(early, exists, g)) EXCEPT !.work = NoFile]

\* Requests that only ask are not counted.
Asks == {"GET_LOG_FILE_SIZE", "GET_STORAGE_CHOICE", "GET_MD_STOR_POS", "GET_CP_LOG_SIZE",
         "GET_LOG_OVERWRITE", "GET_LOG_STATE", "GET_AGDSP_LOG_OUTPUT", "GET_AGDSP_PCM_OUTPUT",
         "GET_MIPI_LOG_INFO", "MINI_DUMP"}

\* A request is processed.
Request(r) ==
  /\ Runs
  /\ r[1] \in Asks \/ requests < MaxRequests
  /\ r[1] = "RESET_SETTING" => restarts < MaxRestarts
  /\ \/ \E env \in FineOnes : Becomes(ProcessReq(World, r, env)) /\ UNCHANGED faults
     \/ /\ faults < MaxFaults /\ r[1] \notin Asks
        /\ faults' = faults + 1
        /\ \E env \in Faults : Becomes(ProcessReq(World, r, env))
  /\ requests' = IF r[1] \in Asks THEN requests ELSE requests + 1
  /\ UNCHANGED restarts

\* The timer for the device for commands has fired.
ReopenCmdDev ==
  /\ Runs /\ program.cmd.timer
  /\ \E exists \in BOOLEAN :
       program' = [program EXCEPT !.cmd = Cmd!ReopenCmdDev(@, exists)]
  /\ NoRequest

\* Fault: what the client wants is not looked at.
PowerOnStorFinish_off ==
  /\ Runs /\ HasModem(program) /\ program.modem.mix
  /\ program' = [program EXCEPT !.modem.mix = FALSE, !.pipes[WanModem].overwrite = FALSE]
  /\ NoRequest

\* power_on_stor_finish(): the phone has started.
PowerOnStorFinish ==
  /\ Runs /\ HasModem(program) /\ program.modem.mix
  /\ program' = [program EXCEPT !.modem.mix = FALSE,
                                !.pipes[WanModem].overwrite =
                                   Find(program.conf.m_config, WanModem).overwrite]
  /\ NoRequest

\* The MODEM asserts; it knows nothing when it is alive again, and is told of
\* three settings: process_alive().
ModemAssert ==
  /\ Runs /\ HasModem(program) /\ program.modem.working
  /\ program' = [program EXCEPT !.modem.working = FALSE, !.modem.restarted = TRUE]
  /\ NoRequest

ModemAlive ==
  /\ Runs /\ HasModem(program) /\ ~program.modem.working
  /\ LET env == Fine(FALSE, TRUE, {})
         w == [program EXCEPT !.cmd = Cmd!SetMipiLogInfo(Cmd!ModemForgot(@), program.conf.m_mipilog, TRUE)]
     IN program' = [TellOrcadp(TellMiniap(w, w.modem.mini_ap_log, env), w.modem.orcadp_log, env)
                      EXCEPT !.modem.working = TRUE]
  /\ NoRequest

\* The program is killed, and started again by init.
Kill ==
  /\ Runs /\ restarts < MaxRestarts
  /\ program' = Ended
  /\ NoRequest

Restart ==
  /\ ~Runs
  /\ restarts' = restarts + 1
  /\ \E early \in PowerOn, exists \in BOOLEAN, g \in Garbage :
       Becomes(Started(work, Fine(early, exists, g)))
  /\ UNCHANGED <<requests, faults>>

Next ==
  \/ \E r \in Requests : Request(r)
  \/ ReopenCmdDev
  \/ PowerOnStorFinish
  \/ ModemAssert
  \/ ModemAlive
  \/ Kill
  \/ Restart

Spec == Init /\ [][Next]_vars

------------------------------------------------------------------------------
(* Properties.                                                             *)

\* What the settings mean: a subsystem without I/Q need not be listed, and the
\* internal size of a build for an operator is not kept.
Meaning(c) ==
  LET iqs == {iq \in Range(c.m_iq_config) : iq.gsm_iq \/ iq.wcdma_iq}
      streams == [i \in DOMAIN c.m_config |->
                    IF build = "cmcc" THEN [c.m_config[i] EXCEPT !.internal_limit = "0"]
                    ELSE c.m_config[i]]
  IN [Content(c) EXCEPT !.m_iq_config = iqs, !.m_config = streams]

ValidMipi(e) == e[1] \in MipiTypes /\ e[2] \in MipiChannels /\ e[3] \in MipiFreqs

\* An entry without any I/Q is written as a line that is not accepted, so that it
\* does not undo what the shipped file says of its type.
Readable(c) ==
  /\ \A e \in Range(c.m_mipilog) : ValidMipi(e)
  /\ \A iq \in Range(c.m_iq_config) :
       iq.gsm_iq \/ iq.wcdma_iq \/
         ~Has(ParseConfigFile(DefaultConfig, Initial, build = "cmcc").m_iq_config, iq.type)

\* A restart brings back the settings of clients: what is read from the shipped
\* and the working file means what the program has in memory, unless saving
\* failed (then the settings are marked), the file was cut off, or the settings
\* have an entry of the MIPI log that reading does not accept, or none of the I/Q
\* the shipped file asks for.
SettingsSurvive ==
  Runs /\ ~program.conf.m_dirty /\ ~work.torn /\ Readable(program.conf)
    => Meaning(ReadConfig(Initial, work, build = "cmcc")) = Meaning(program.conf)

\* What differs from what was last read or saved is marked, so that the next
\* request that looks at the mark saves it.
UnsavedIsDirty == Runs => program.conf.m_dirty \/ program.saved = Content(program.conf)

\* Handlers, storage manager and audio DSP have the values of the configuration.
\* The external size may be another one in user builds, what
\* is overwritten while the phone is starting, and the DSP if its device could
\* not be opened when it was last told.  The mode may, if the shipped file asks
\* for the event log.
HandlersFollow ==
  Runs =>
    /\ \A t \in Types : Present(program, t) =>
         LET h == program.pipes[t]
             e == Find(program.conf.m_config, t)
         IN /\ h.log_mode = e.mode \/ e.mode = "LM_EVENT"
            /\ h.m_internal_max_size = e.internal_limit
            /\ UserBuild \/ h.m_external_max_size = e.external_limit
            /\ h.m_max_log_file_size = e.file_size_limit
            /\ h.overwrite = e.overwrite \/ (t = WanModem /\ program.modem.mix)
    /\ program.permit = program.conf.ext_stor_active
    /\ HasModem(program) =>
         /\ program.modem.save_md = program.conf.m_enable_md
         /\ program.modem.md_to_int = program.conf.m_md_save_to_int
         /\ program.modem.save_wcdma_iq = WcdmaIqEnabled(program.conf, WanModem)
    /\ Present(program, "CT_AGDSP") /\ program.dsp.heard =>
         program.dsp.dest = program.conf.agdsp_log_dest /\ program.dsp.pcm = program.conf.agdsp_pcm_dump

\* What the handler of the MODEM was asked to tell it has reached it or is kept
\* until the device is there, also when the MODEM has started again.  (It is not
\* told again where the audio DSP sends its log.)
CommandsReachModem ==
  Runs /\ HasModem(program) /\ program.modem.working =>
    \A x \in Cmd!Settings :
      \/ program.cmd.owed[x] = Cmd!Nothing
      \/ x \in {"dest", "pcm"} /\ program.modem.restarted
      \/ Cmd!Delivered(program.cmd, x)

Errors == {"REC_INVAL_PARAM", "REC_CP_NONEXISTENT", "REC_FAILURE", "REC_NO_AGDSP",
           "REC_UNKNOWN_CP_TYPE", "REC_UNKNOWN_REQ"}
Kept(p) == [f \in {"conf", "saved", "pipes", "permit", "modem", "dsp"} |-> p[f]]

\* A request that is answered with an error has changed neither the settings nor
\* the file nor a handler.
ErrorChangesNothing ==
  [][answer' # <<>> /\ answer'[1] \in Errors
       => work' = work /\ Kept(program') = Kept(program)]_vars
=============================================================================
