SPECIFICATION FairSpec
CONSTANTS
    Callers = {c1, c2}
    NULL = NULL
CHECK_DEADLOCK FALSE
PROPERTY StopWakes
