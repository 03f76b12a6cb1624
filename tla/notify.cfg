SPECIFICATION Spec
CONSTANTS
  Resources = {1, 2}
  Values <- Small
  QueueMsgs = 2
  MaxInFlight = 2
  Scenarios <- Plain
INVARIANTS TypeOK ObservationsAgree NothingForgotten
PROPERTIES SlotIsFreed EventuallyNotified
