SPECIFICATION Spec
CONSTANTS
  MaxChain = 3
  ChainLens = {2, 3}
  MaxGen = 3
  MaxReq = 2
  Budgets <- NoFaults
INVARIANTS Settled
