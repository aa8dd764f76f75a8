CONSTANTS
  Reqs = {r1}
  Locals = {l1, l2}
  LocalPane = LocalPane
  None = None
  MaxFaults = 1
  MaxStarts = 2
SPECIFICATION FairSpec
INVARIANTS IInv AnsweredOnce KeysReachOwnPane
PROPERTIES SpawnAnswered SuccessRegisters RegistrationCompletes
CHECK_DEADLOCK FALSE
