SPECIFICATION FairSpec
CONSTANTS
    m1 = m1
    m2 = m2
    o1 = o1
    o2 = o2
    Nil = Nil
    Miner = {m1, m2}
    Otprn = {o1, o2}
    MinMiner = 2
    Epoch = 2
    LEAGUE_WAIT_TIME_OUT = 1
    SEND_BLOCK_TIME_OUT = 1
    Base = 0
    MaxHeight = 2
    Sealer = {m1}
    VotePhases = {"VOTE_START"}
    Faults = {}
INVARIANTS NoPanic PointersResolve
PROPERTIES ImplementsFinalChain StatusInOrder TermChange LeagueProgress FinalizeAnswered
