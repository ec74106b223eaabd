\* Two clients; the requests overlap
CONSTANTS
  Clients = {c1, c2}
  NoClient = NoClient
  MaxTrans = 2
  Handlers = {{"MODEM", "WCN"}}
  Builds = {TRUE, FALSE}
  Switched = {{"MODEM"}, {"WCN"}}
  Collected = {{}, {"WCN"}}
  Watched = {"WCN"}
  Watchers = {c1}
  MaxDumps = 2
SPECIFICATION Spec
INVARIANT
  FirstHasBegun
