SPECIFICATION Spec
CONSTANTS
  Batched = Batched
  Giant = Giant
  Actors <- MCActors
  NRows = 5
  BatchSize <- MCBatchSize
  BatchChSize = 0
  MaxRecycled = 2
  Bufs = {b1, b2, b3, b4}
  NoErr = NoErr
  NoBuf = NoBuf
INVARIANTS OneOwner RowsDelivered ErrorReported StopCopyLive
PROPERTY Termination
CHECK_DEADLOCK FALSE
