SPECIFICATION Spec
CONSTANTS
    m1 = m1
    o1 = o1
    o2 = o2
    Nil = Nil
    Miner = {m1}
    Otprn = {o1, o2}
    MinMiner = 1
    Epoch = 2
    LEAGUE_WAIT_TIME_OUT = 0
    SEND_BLOCK_TIME_OUT = 0
    Base = 0
    MaxHeight = 1
    Sealer = {m1}
    VotePhases = {"VOTE_START", "SEND_BLOCK"}
    Faults = {"delay", "dbError", "restart", "silent"}
SYMMETRY Symmetry
INVARIANTS TypeOK  HashBeforeSend
