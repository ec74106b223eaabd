----------------------------- MODULE MCSettings -----------------------------
(* A shipped file, and requests of clients, some of them malformed.        *)
EXTENDS Settings

MCInitial ==
  << <<"storage", "internal">>, <<"minidump", "enable", "external">>, <<>>,
     <<"mipilog", "serdes0", "nr", "500000">>,
     <<"stream", "cp_5mode", "off", "100", "200", "10", "5", "on">>,
     <<"stream", "cp_gnss", "on", "100", "200", "10", "5", "off">>,
     <<"iq", "cp_5mode", "WCDMA">>,
     <<"stream", "cp_unknown", "on", "100", "200", "10", "5", "on">>,
     <<"stream", "agdsp", "evt", "100", "200", "10", "5", "on">>,
     <<"agdsp_log_dest", "ap">>, <<"agdsp_pcm_dump", "off">> >>

MCRequests ==
  { <<"SET_LOG_FILE_SIZE", "5MODE", "20">>, <<"GET_LOG_FILE_SIZE", "5MODE">>,
    <<"SET_STORAGE_CHOICE", "EXTERNAL">>, <<"GET_STORAGE_CHOICE">>,
    <<"SET_MD_STOR_POS", "INTERNAL">>, <<"GET_MD_STOR_POS">>,
    <<"SET_CP_LOG_SIZE", "5MODE", "external", "300">>, <<"SET_CP_LOG_SIZE", "TD", "internal", "20">>,
    <<"GET_CP_LOG_SIZE", "5MODE", "external">>,
    <<"ENABLE_LOG_OVERWRITE", "GNSS">>, <<"DISABLE_LOG_OVERWRITE", "5MODE">>,
    <<"GET_LOG_OVERWRITE", "5MODE">>, <<"ENABLE_MD">>, <<"DISABLE_MD">>, <<"MINI_DUMP">>,
    <<"ENABLE_IQ", "5MODE", "WCDMA">>, <<"DISABLE_IQ", "5MODE">>,
    <<"GET_LOG_STATE", "5MODE">>, <<"ENABLE_LOG", "5MODE", "AG-DSP">>,
    <<"DISABLE_LOG", "GNSS", "5MODE">>, <<"SET_AGDSP_LOG_OUTPUT", "UART">>, <<"GET_AGDSP_LOG_OUTPUT">>,
    <<"SET_AGDSP_PCM_OUTPUT", "ON">>, <<"GET_AGDSP_PCM_OUTPUT">>, <<"SET_MINIAP_LOG", "ON">>,
    <<"SET_ORCADP_LOG", "OFF">>, <<"SET_MIPI_LOG_INFO", "serdes1", "v3", "500000">>,
    <<"SET_MIPI_LOG_INFO", "serdes9", "v3", "0">>, <<"GET_MIPI_LOG_INFO", "serdes1">>,
    <<"RESET_SETTING">>, <<"ENABLE_LOG", "WCN", "WCN">>, <<"REBOOT">>,
    <<"SET_LOG_FILE_SIZE", "GNSS", "0">>, <<"ENABLE_IQ", "GNSS", "WCDMA">> }

MCCuts == {<<0, 0>>, <<3, 2>>}
MCDevices == {{"CT_5MODE", "CT_GNSS", "CT_AGDSP"}, {"CT_GNSS"}}
MCGarbage == {{}, {"miniap"}}

\* The last answer decides nothing: states that differ in it only are one.
MCView == <<program, work, build, devices, requests, faults, restarts>>
=============================================================================
