SPECIFICATION GroupSpec
CONSTANTS
    Nil = Nil
    Miner = {m1, m2}
    Otprn = {o1}
    MinMiner = 2
    Epoch = 0
    LEAGUE_WAIT_TIME_OUT = 0
    SEND_BLOCK_TIME_OUT = 0
    Base = 0
    MaxHeight = 2
    Sealer = {m1, m2}
    VotePhases = {"VOTE_START"}
    Faults = {"silent"}
    GroupFaults = {"takeover"}
INVARIANTS OnlyElected  GoneStaysGone FinalizedIsKnown
CHECK_DEADLOCK FALSE
