SPECIFICATION Spec
CONSTANTS
  Handlers = {h1, h2}
  Conns = {k1}
  Clients = {a}
  None = None
  Reported = {"unresponsive"}
  MaxFrames = 3
  MaxQueue = 2
  MaxPushes = 1
  MaxToggles = 2
INVARIANTS IInv CurrentListWasSent PushDecision
CHECK_DEADLOCK FALSE
