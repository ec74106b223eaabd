\* Two blocks, so that the device is paused as soon as both wait for the I/O thread.
CONSTANTS
  Buffers = {b1, b2}
  Files = {f1, f2}
  NoFile = NoFile
  Errors = {"FIO_ERROR"}
  CommitThreshold = 2
  BlockLen = 2
  MaxUnits = 3
  Media = {internal, external}
  NoMedia = NoMedia
  MaxFileSize = 2
  NoBuffer = NoBuffer
  BufThreshold = 2
  MaxTimers = 1
SYMMETRY Symmetry
SPECIFICATION PathSpec
INVARIANTS
  FileAgreement
  NoLostWakeup
PROPERTIES
  ImplementsIoScheduler
\* The main thread may block for good in IoChannel::process().
CHECK_DEADLOCK FALSE
