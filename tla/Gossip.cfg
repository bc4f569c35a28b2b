SPECIFICATION GossipSpec
CONSTANTS
    Members = {1, 2}
    Relays = {3}
    Links = {{1, 3}, {2, 3}}
    Weights = {1}
    Rounds = 2
    Faults = {"slow", "reject"}
    Nil = Nil
INVARIANTS Converges PrefersOfRound
CHECK_DEADLOCK FALSE
