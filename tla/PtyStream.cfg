CONSTANTS
  Bytes = {7, 27, 32, 48, 59, 92, 93}
  MaxChunk = 2
  MaxBytes = 6
  MaxCaptures = 1
SPECIFICATION PtySpec
INVARIANTS ChunkIndependent OthersPass LineDecoded
CHECK_DEADLOCK FALSE
