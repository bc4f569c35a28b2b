CONSTANTS
    Node = {1, 2, 3}
    FaultSets = {{}, {"overlap"}, {"lostStream", "stop"}}
    Nil = Nil
SPECIFICATION Spec
INVARIANTS OneLeader SignalHasReceiver
PROPERTY LeaderReturns
CHECK_DEADLOCK FALSE
