CONSTANTS
    Jits = {"passthrough", "x86_64", "NULL"}
SPECIFICATION LoadSpec
INVARIANT FdMeansLoaded
CHECK_DEADLOCK FALSE
