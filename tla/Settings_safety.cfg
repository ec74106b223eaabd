CONSTANTS
  Initial <- MCInitial
  Builds = {"userdebug", "cmcc"}
  DeviceSets <- MCDevices
  Requests <- MCRequests
  Numbers = {"0", "10", "20", "300"}
  Cuts <- MCCuts
  Garbage <- MCGarbage
  PowerOn = {TRUE, FALSE}
  MaxRequests = 2
  MaxFaults = 1
  MaxRestarts = 1
SPECIFICATION Spec
INVARIANT SettingsSurvive
INVARIANT UnsavedIsDirty
INVARIANT HandlersFollow
INVARIANT CommandsReachModem
PROPERTY ErrorChangesNothing
VIEW MCView
