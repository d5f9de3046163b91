SPECIFICATION CcSpec
CONSTANTS
    Arg <- MCArg
    MAX_ARGS = 2
    Installed <- MCInstalled
CHECK_DEADLOCK FALSE
INVARIANTS
    CcTypeOK
    LinksRightRuntime
    SanitizersCoherent
