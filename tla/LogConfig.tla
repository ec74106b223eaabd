----------------------------- MODULE LogConfig -----------------------------
(***************************************************************************)
(* LogConfig (log_config.cpp): the settings, read at start from the file   *)
(* that is shipped and then from the working file, which save() rewrites.  *)
(* A line is the sequence of its tokens; a file that is cut off has lost   *)
(* lines, and tokens of the last one.                                      *)
(*                                                                         *)
(* The settings are a record; the operators give it after a call.          *)
(***************************************************************************)
EXTENDS Naturals, Sequences, FiniteSets, SequencesExt

Types == {"CT_5MODE", "CT_WCN", "CT_GNSS", "CT_AGDSP", "CT_PM_SH"}
Unknown == "CT_UNKNOWN"
WanModem == "CT_5MODE"      \* s_wan_modem_type

\* cp_type_to_name() and get_modem_type().
CpTypeToName == [t \in Types |->
  CASE t = "CT_5MODE" -> "cp_5mode" [] t = "CT_WCN" -> "cp_wcn" [] t = "CT_GNSS" -> "cp_gnss"
    [] t = "CT_AGDSP" -> "agdsp" [] t = "CT_PM_SH" -> "pm_sh"]
GetModemType(name) ==
  IF \E t \in Types : CpTypeToName[t] = name THEN CHOOSE t \in Types : CpTypeToName[t] = name
  ELSE Unknown

\* get_log_mode() and log_mode_to_string().
LogModeToString(mode) ==
  CASE mode = "LM_OFF" -> "off" [] mode = "LM_NORMAL" -> "on" [] OTHER -> "evt"
GetLogMode == [t \in {"on", "evt", "off"} |->
  CASE t = "on" -> "LM_NORMAL" [] t = "evt" -> "LM_EVENT" [] t = "off" -> "LM_OFF"]

\* LogConfig::LogConfig().
DefaultConfig ==
  [m_dirty |-> FALSE, m_enable_md |-> FALSE, m_md_save_to_int |-> FALSE,
   agdsp_log_dest |-> "off", agdsp_pcm_dump |-> FALSE, ext_stor_active |-> TRUE,
   use_work_conf_file |-> FALSE, m_config |-> <<>>, m_iq_config |-> <<>>, m_mipilog |-> <<>>]

\* find(), find_iq().
Index(list, t) == SelectInSeq(list, LAMBDA e : e.type = t)
Has(list, t) == Index(list, t) # 0
Find(list, t) == list[Index(list, t)]

\* The entry of t, if there is one, becomes Op(entry).
With(list, t, Op(_)) == [i \in DOMAIN list |-> IF i = Index(list, t) THEN Op(list[i]) ELSE list[i]]

------------------------------------------------------------------------------
(* Lines are read.                                                         *)

MipiTypes == {"serdes0", "serdes1", "serdes2"}
MipiChannels == {"nr", "v3", "dbus", "tpiu", "close", "disable", "training"}
MipiFreqs == {"500000", "1500000", "2000000", "2500000"}

\* The entry takes the place of the one of its type, at the end.
WithMipi(list, e) == Append(RemoveFirstMatch(list, LAMBDA old : old[1] = e[1]), e)

ParseMipilogLine(c, p) ==
  IF /\ Len(p) >= 3
     /\ p[1] \in MipiTypes /\ p[2] \in MipiChannels /\ p[3] \in MipiFreqs
  THEN [c EXCEPT !.m_mipilog = WithMipi(@, SubSeq(p, 1, 3))]
  ELSE c

\* The first token counts even if the second is missing.
ParseMinidumpLine(c, p) ==
  CASE Len(p) = 0 -> c
    [] Len(p) = 1 -> [c EXCEPT !.m_enable_md = p[1] = "enable"]
    [] OTHER -> [c EXCEPT !.m_enable_md = p[1] = "enable", !.m_md_save_to_int = p[2] = "internal"]

\* name, mode, internal and external size, file size, level and overwrite.
\* The builds for one operator do not keep the internal size.
ParseStreamLine(c, p, cmcc) ==
  IF Len(p) < 7 \/ GetModemType(p[1]) = Unknown \/ p[2] \notin DOMAIN GetLogMode THEN c
  ELSE LET t == GetModemType(p[1])
           e == [type |-> t, mode |-> GetLogMode[p[2]], internal_limit |-> p[3],
                 external_limit |-> p[4], file_size_limit |-> p[5], overwrite |-> p[7] = "on"]
           Again(old) == IF cmcc THEN [e EXCEPT !.internal_limit = "1024"] ELSE e
       IN IF Has(c.m_config, t) THEN [c EXCEPT !.m_config = With(@, t, Again)]
          ELSE [c EXCEPT !.m_config = Append(@, e)]

ParseStorageLine(c, p) ==
  IF Len(p) > 0 /\ p[1] \in {"internal", "external"}
  THEN [c EXCEPT !.ext_stor_active = p[1] # "internal"] ELSE c

ParseIqLine(c, p) ==
  LET types == Range(Tail(p)) IN
  IF \/ Len(p) < 2
     \/ GetModemType(p[1]) = Unknown
     \/ ~(types \subseteq {"GSM", "WCDMA"})
  THEN c
  ELSE LET t == GetModemType(p[1])
           iq == [type |-> t, gsm_iq |-> "GSM" \in types, wcdma_iq |-> "WCDMA" \in types]
           Again(old) == iq
       IN IF Has(c.m_iq_config, t) THEN [c EXCEPT !.m_iq_config = With(@, t, Again)]
          ELSE [c EXCEPT !.m_iq_config = Append(@, iq)]

ParseAgdspLogDest(c, p) ==
  IF Len(p) > 0 /\ p[1] \in {"off", "uart", "ap"} THEN [c EXCEPT !.agdsp_log_dest = p[1]] ELSE c

ParseOnOff(c, p) ==
  IF Len(p) > 0 /\ p[1] \in {"on", "off"} THEN [c EXCEPT !.agdsp_pcm_dump = p[1] = "on"] ELSE c

ParseLine(c, line, cmcc) ==
  LET p == Tail(line) IN
  CASE line[1] = "iq" -> ParseIqLine(c, p)
    [] line[1] = "stream" -> ParseStreamLine(c, p, cmcc)
    [] line[1] = "storage" -> ParseStorageLine(c, p)
    [] line[1] = "mipilog" -> ParseMipilogLine(c, p)
    [] line[1] = "minidump" -> ParseMinidumpLine(c, p)
    [] line[1] = "agdsp_log_dest" -> ParseAgdspLogDest(c, p)
    [] line[1] = "agdsp_pcm_dump" -> ParseOnOff(c, p)
    [] OTHER -> c

\* parse_config_file(): an empty line says nothing.
ParseConfigFile(c, lines, cmcc) ==
  FoldLeft(LAMBDA a, line : IF line = <<>> THEN a ELSE ParseLine(a, line, cmcc), c, lines)

\* read_config(): the shipped file, then the working file if it can be opened.
ReadConfig(initial, work, cmcc) ==
  LET c == ParseConfigFile(DefaultConfig, initial, cmcc) IN
  IF work.exists
  THEN [ParseConfigFile(c, work.lines, cmcc) EXCEPT !.use_work_conf_file = TRUE] ELSE c

------------------------------------------------------------------------------
(* ... and written.                                                        *)

OnOff(b) == IF b THEN "on" ELSE "off"

IqLine(iq) ==
  <<"iq", CpTypeToName[iq.type]>> \o (IF iq.gsm_iq THEN <<"GSM">> ELSE <<>>)
                                  \o (IF iq.wcdma_iq THEN <<"WCDMA">> ELSE <<>>)

\* Fault: the sizes are written in another order than they are read.
StreamLine_order(e) ==
  <<"stream", CpTypeToName[e.type], LogModeToString(e.mode), e.internal_limit, e.file_size_limit,
    e.external_limit, "level", OnOff(e.overwrite)>>

StreamLine(e) ==
  <<"stream", CpTypeToName[e.type], LogModeToString(e.mode), e.internal_limit, e.external_limit,
    e.file_size_limit, "level", OnOff(e.overwrite)>>

MipiLine(e) == <<"mipilog">> \o e

\* The lines save() writes.
Lines(c) ==
  << <<"storage", IF c.ext_stor_active THEN "external" ELSE "internal">>,
     <<"minidump", IF c.m_enable_md THEN "enable" ELSE "disable",
       IF c.m_md_save_to_int THEN "internal" ELSE "external">> >>
  \o [i \in DOMAIN c.m_mipilog |-> MipiLine(c.m_mipilog[i])]
  \o [i \in DOMAIN c.m_iq_config |-> IqLine(c.m_iq_config[i])]
  \o [i \in DOMAIN c.m_config |-> StreamLine(c.m_config[i])]
  \o << <<"agdsp_log_dest", c.agdsp_log_dest>>, <<"agdsp_pcm_dump", OnOff(c.agdsp_pcm_dump)>> >>

\* What is left of them: n whole lines and some tokens of the next one.
CutOff(lines, n, tokens) ==
  IF n >= Len(lines) THEN lines
  ELSE LET next == lines[n + 1] IN
       SubSeq(lines, 1, n) \o << IF tokens < Len(next) THEN SubSeq(next, 1, tokens) ELSE next >>

------------------------------------------------------------------------------
(* Settings are changed.                                                   *)

\* set_external_stor(), set_md_int_stor(), enable_md(), set_agdsp_log_dest(),
\* enable_agdsp_pcm_dump().
SetExternalStor(c, use) ==
  IF c.ext_stor_active = use THEN c ELSE [c EXCEPT !.ext_stor_active = use, !.m_dirty = TRUE]

SetMdIntStor(c, int) ==
  IF c.m_md_save_to_int = int THEN c ELSE [c EXCEPT !.m_md_save_to_int = int, !.m_dirty = TRUE]

EnableMd(c, en) ==
  IF c.m_enable_md = en THEN c ELSE [c EXCEPT !.m_enable_md = en, !.m_dirty = TRUE]

SetAgdspLogDest(c, dest) ==
  IF c.agdsp_log_dest = dest THEN c ELSE [c EXCEPT !.agdsp_log_dest = dest, !.m_dirty = TRUE]

EnableAgdspPcmDump(c, en) ==
  IF c.agdsp_pcm_dump = en THEN c ELSE [c EXCEPT !.agdsp_pcm_dump = en, !.m_dirty = TRUE]

\* The entry of t becomes Op(entry).
Changed(c, t, Op(_)) ==
  IF Has(c.m_config, t) THEN [c EXCEPT !.m_config = With(@, t, Op), !.m_dirty = TRUE] ELSE c

SetCpStorageLimit(c, t, mt, sz) ==
  LET Limit(e) == IF mt = "internal" THEN [e EXCEPT !.internal_limit = sz]
                  ELSE [e EXCEPT !.external_limit = sz]
  IN Changed(c, t, Limit)

SetCpLogFileSize(c, t, sz) ==
  LET Size(e) == [e EXCEPT !.file_size_limit = sz] IN Changed(c, t, Size)

\* Fault: the change is not marked.
SetCpLogOverwrite_clean(c, t, en) ==
  LET Overwrite(e) == [e EXCEPT !.overwrite = en] IN [c EXCEPT !.m_config = With(@, t, Overwrite)]

SetCpLogOverwrite(c, t, en) ==
  LET Overwrite(e) == [e EXCEPT !.overwrite = en] IN
  IF Has(c.m_config, t) /\ Find(c.m_config, t).overwrite # en THEN Changed(c, t, Overwrite) ELSE c

SetLogMode(c, t, mode) ==
  LET Mode(e) == [e EXCEPT !.mode = mode] IN
  IF Has(c.m_config, t) /\ Find(c.m_config, t).mode # mode THEN Changed(c, t, Mode) ELSE c

SetMipiLogInfo(c, list) == [c EXCEPT !.m_mipilog = list, !.m_dirty = TRUE]

\* enable_iq() and disable_iq(), which are called for WCDMA only.
EnableIq(c, t) ==
  LET On(iq) == [iq EXCEPT !.wcdma_iq = TRUE]
      new == [type |-> t, gsm_iq |-> FALSE, wcdma_iq |-> FALSE]
      list == IF Has(c.m_iq_config, t) THEN c.m_iq_config ELSE Append(c.m_iq_config, new)
  IN IF Find(list, t).wcdma_iq THEN c
     ELSE [c EXCEPT !.m_iq_config = With(list, t, On), !.m_dirty = TRUE]

DisableIq(c, t) ==
  LET Off(iq) == [iq EXCEPT !.wcdma_iq = FALSE] IN
  IF Has(c.m_iq_config, t) /\ Find(c.m_iq_config, t).wcdma_iq
  THEN [c EXCEPT !.m_iq_config = With(@, t, Off), !.m_dirty = TRUE] ELSE c

WcdmaIqEnabled(c, t) == Has(c.m_iq_config, t) /\ Find(c.m_iq_config, t).wcdma_iq

\* What the settings say, without what they are marked with.
Content(c) == [f \in DOMAIN c \ {"m_dirty", "use_work_conf_file"} |-> c[f]]
=============================================================================
