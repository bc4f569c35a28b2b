CONSTANTS
  a = a
  b = b
  Miners = {a, b}
  Price = 5
  FnFee = 10
  Epoch = 2
  Funds = {10, 25}
  MaxHead = 4
  Faults = {}
SPECIFICATION Spec
INVARIANTS NonNegative JoinedIsReady
CHECK_DEADLOCK FALSE
