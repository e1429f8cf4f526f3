CONSTANTS
    p = p
    lib = lib
    prim = prim
    redefp = redefp
    unburyonedit = unburyonedit
    x = x
    b = b
    Proc = {p, lib, prim}
    Var = {x, redefp, unburyonedit}
    Plist = {x}
    Primitive = {prim}
    Library = {lib}
    Redefp = redefp
    UnburyOnEdit = unburyonedit
    Body = {b}
    Value = {"true", "v"}
    Prop <- TwoProps
    True = "true"
    Empty = "empty"
    LibBody = "library"
    PRIM = PRIM
    UNDEFINED = UNDEFINED
    UNBOUND = UNBOUND
    Args <- SomeArgs
    MaxOps = 4
SPECIFICATION Spec
INVARIANTS WorkspaceInv SaveRestores EditKeeps
CHECK_DEADLOCK FALSE
