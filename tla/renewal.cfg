SPECIFICATION Spec
CONSTANTS
  MaxChain = 3
  ChainLens = {1, 2}
  MaxGen = 3
  MaxReq = 2
  Budgets <- Faults
INVARIANTS Recoverable Settled OneRenewal
PROPERTY NotBusyForever
