CONSTANTS
  Media <- MCMedia
  TypeOf <- MCTypeOf
  ClassOf <- MCClassOf
  Cps = {"modem", "starting"}
  MaxFileNum = 1
  Capacity = 3
  MaxFileSize = 2
  SizeBits = 6
  NoMedia = "none"
  Data = "data"
  External = "sd"
  Kinds = {"dump"}
  Removals = {"file", "dir", "set", "top"}
  Starts <- MCStarts
  OtherSize = 2
  MaxUnits = 3
  MaxEvents = 3
  MaxFaults = 1
  MaxTogether = 5
SPECIFICATION Spec
INVARIANTS
  WritesToCurrent
  FileIsHeld
  SizesCover
  NothingForgotten
PROPERTY QuotaKept
CHECK_DEADLOCK FALSE
