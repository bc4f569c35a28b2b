CONSTANTS
    Leagues = 2
    MaxRounds = 3
    Maker = {1, 2}
    Me = 1
    MaxLag = 1
    Scenarios <- MCScenarios
    Nil = Nil
SPECIFICATION Spec
INVARIANTS StaysInLeague WritesFinal ClientIsAnswered WorkerIsHeard
CHECK_DEADLOCK FALSE
