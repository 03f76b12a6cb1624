SPECIFICATION Spec
CONSTANTS
  Resources = {1}
  Values <- Small
  QueueMsgs = 5
  MaxInFlight = 3
  Scenarios <- OneFault
INVARIANT LatestKept
