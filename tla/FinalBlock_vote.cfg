SPECIFICATION Spec
CONSTANTS
    Coinbase = {1, 2, 3}
    fairnode = fairnode
    miner = miner
    Evaluator = {fairnode, miner}
    Numbers = {1, 2}
    MaxCount = 2
    MaxField = 1
    NoBlock = 0
INVARIANTS EvaluationIsMaximum  CountConfirmsPreference
CHECK_DEADLOCK FALSE
