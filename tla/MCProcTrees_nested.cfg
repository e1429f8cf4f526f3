CONSTANTS
    p = p
    q = q
    b1 = b1
    b2 = b2
    UNDEFINED = UNDEFINED
    Proc = {p, q}
    Arity = {1, 2}
    Body = {b1, b2}
    NumLines = 2
    Calls <- AllCalled
    BadLine <- NoBadLine
    Setter = {q}
    Recursive = TRUE
    Erps = TRUE
    MaxDepth = 2
SPECIFICATION Spec
INVARIANTS TypeOK FreshIsRight LinesAreTrees
PROPERTIES LineIsRight
CONSTANTS
    Numbers = {"a", "0"}
    Operators <- Operators4
    Priority <- PriorityOf
    Procs <- TwoProcs
    Setters = {"setx"}
