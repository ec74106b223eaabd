\* A batch is committed at two of the four blocks, or at CommitThreshold units.
CONSTANTS
  Buffers = {b1, b2, b3, b4}
  Files = {f1, f2}
  NoFile = NoFile
  Errors = {"FIO_ERROR"}
  CommitThreshold = 3
  BlockLen = 2
  MaxUnits = 3
SYMMETRY Symmetry
SPECIFICATION Spec
INVARIANTS
  BuffersAccounted
  Control
  SizeMatchesDisk
PROPERTIES
  RequestUndisturbed
  ImplementsLogStream
\* The main thread may block for good in IoChannel::process() (see README).
CHECK_DEADLOCK FALSE
