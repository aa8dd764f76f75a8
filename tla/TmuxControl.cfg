CONSTANTS
  Cmds = {n1, n2, n3}
  PipeCap = 2
  None = None
SPECIFICATION FairSpec
INVARIANTS IInv RepliesAligned
PROPERTIES ReaderNotStuck CommandsReturn
CHECK_DEADLOCK FALSE
