\* Two clients; the devices with a MODEM and a WCN, or the other subsystems
CONSTANTS
  Clients = {c1, c2}
  NoClient = NoClient
  MaxTrans = 2
  Handlers = {{"MODEM", "WCN"}, {"PM_SH", "GNSS"}, {"WCN", "AGDSP"}}
  Builds = {TRUE, FALSE}
  Switched = {{"MODEM", "WCN"}, {"WCN"}}
  Collected = {{}, {"WCN"}}
  Watched = {"WCN", "PM_SH"}
  Watchers = {c1}
  MaxDumps = 2
SPECIFICATION Spec
INVARIANTS
  TransHasClient
  WaitsForParts
  SubscribersExist
  ModeWrittenDown
