SPECIFICATION MCSpec
CONSTANTS
    MaxNonce = 3
    Prices = {1, 2}
    Gases = {1, 2}
    Balances = {1, 2, 4}
    PriceBump = 10
    Nil = Nil
    N = 6
    Local = {2}
    Limit = 5
    MaxCopies = 2
INVARIANTS IndexMatches CacheFresh SkipSound Tracked
PROPERTY CapClears
