CONSTANTS
    Launches = {l1, l2}
    Pids = {p1, p2}
    None = none
SPECIFICATION FairSpec
INVARIANT UserCodeAfterAgent
INVARIANT ReadyIsReleased
INVARIANT HandleTerminates
PROPERTY AttachedIsSpared
PROPERTY LaunchEnds
CHECK_DEADLOCK FALSE
