CONSTANTS
    Launches = {l1}
    Pids = {p1}
    None = none
SPECIFICATION Spec
INVARIANT FailureTerminates
CHECK_DEADLOCK FALSE
