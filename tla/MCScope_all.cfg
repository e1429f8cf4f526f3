CONSTANTS
    x = x
    erract = erract
    v = v
    UNBOUND = UNBOUND
    ERRACT = erract
    Name = {x, erract}
    Value = {v}
    Tag = {"t", "error"}
    Construct <- Everything
    CatchTail = FALSE
    MaxDepth = 3
    MaxFrames = 4
    MaxBindings = 2
SPECIFICATION Spec
INVARIANTS ScopeInv Agrees
CHECK_DEADLOCK FALSE
