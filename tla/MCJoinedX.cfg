SPECIFICATION CcSpec
CONSTANTS
    Arg <- MCJoined
    MAX_ARGS = 2
    Installed <- MCInstalled
CHECK_DEADLOCK FALSE
INVARIANT LinksRightRuntime
