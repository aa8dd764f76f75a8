CONSTANTS
  Workers = {"ext", "tmux"}
  Slots = {k1, k2}
  NoSlot = NoSlot
  MaxSeq = 1
  MaxWire = 1
  MaxBreaks = 1
  MaxCrashes = 1
  MaxRestarts = 1
  MaxFailures = 1
SPECIFICATION EndlessSpec
PROPERTY Announced
CHECK_DEADLOCK FALSE
