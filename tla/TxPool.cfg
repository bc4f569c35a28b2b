CONSTANTS
  a = a
  b = b
  Accounts = {a, b}
  Prices = {1, 2}
  MaxNonce = 2
  PriceLimit = 1
  MinPrices = {2}
  Balances = {1, 2}
  Spenders = {b}
  MaxBlocks = 1
  MaxReorg = 1
  BlockTxs = 1
  AccountSlots = 1
  GlobalSlots = 1
  AccountQueue = 1
  GlobalQueue = 1
  PriceBump = 10
  LocalSets = {{}, {a}}
  LateLocals = {a}
  Faults = {"restart", "evict"}
SPECIFICATION Spec
INVARIANTS Consistent  Bounded Journaled
 
