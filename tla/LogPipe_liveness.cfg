\* A block is a unit; no symmetry, which is not sound for liveness.
CONSTANTS
  Buffers = {b1, b2}
  Files = {f1}
  NoFile = NoFile
  Errors = {"FIO_ERROR"}
  CommitThreshold = 2
  BlockLen = 1
  MaxUnits = 3
  Media = {internal}
  NoMedia = NoMedia
  MaxFileSize = 2
  NoBuffer = NoBuffer
  BufThreshold = 1
  MaxTimers = 1
SPECIFICATION FairPathSpec
PROPERTIES
  DeviceWakes
\* The main thread may block for good in IoChannel::process() (see README).
CHECK_DEADLOCK FALSE
