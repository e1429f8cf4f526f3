CONSTANTS
    MaxLevels = 4
    FileLines = 1
    Breaks = 2
    Recoverable = {"data"}
    Fatal = {"hard"}
SPECIFICATION Spec
INVARIANTS SessionInv NoHandlerInHandler
PROPERTIES BreakHeeded ToplevelIsReached
