CONSTANTS
    l1 = l1
    l2 = l2
    f1 = f1
    f2 = f2
    File <- Files2
    List <- Lists
    VarOf <- TheVar
    Length <- Lengths
    NIL = NIL
    MaxText = 3
    MaxOps = 7
SPECIFICATION Spec
INVARIANTS FilesInv ReadsInOrder TextsComeBack
PROPERTIES StringIsMade
CHECK_DEADLOCK FALSE
