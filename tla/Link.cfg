CONSTANTS
  Workers = {"ext", "tmux", "sweep"}
  Slots = {k1, k2}
  NoSlot = NoSlot
  MaxSeq = 2
  MaxWire = 2
  MaxBreaks = 1
  MaxCrashes = 1
  MaxRestarts = 0
  MaxFailures = 2
SPECIFICATION Spec
SYMMETRY Interchangeable
INVARIANTS IInv NeverAhead OneLiveLink AcceptedInOrder
CHECK_DEADLOCK FALSE
