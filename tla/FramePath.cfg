CONSTANTS
  MaxInputs = 7
  MaxUp = 4
  RingCap = 1
SPECIFICATION Spec
INVARIANTS LinkNotRefused DeliveredDecodes
CHECK_DEADLOCK FALSE
