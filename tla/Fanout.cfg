CONSTANTS
  Clients = {c1}
  Ingests = {d1}
  MaxSeq = 2
  MaxObjs = 2
  ChanCap = 1
  Free = Free
SPECIFICATION FairSpec
INVARIANTS ReplayThenLive IInv
PROPERTIES AttachCompletes IngestReturns
