CONSTANTS
  Workers = {"ext", "tmux"}
  Slots = {k1, k2}
  NoSlot = NoSlot
  MaxSeq = 2
  MaxWire = 3
  MaxBreaks = 0
  MaxCrashes = 0
  MaxRestarts = 1
  MaxFailures = 1
SPECIFICATION Spec
INVARIANT SeqPreserved
CHECK_DEADLOCK FALSE
