CONSTANTS
    Beats = 4
    MaxTimers = 1
    Faults = {}
SPECIFICATION ClientSpec
INVARIANT RunningIsAlive
 
CHECK_DEADLOCK FALSE
