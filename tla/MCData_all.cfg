CONSTANTS
    NODE = {n1, n2, n3, n4}
    Word = {"ab", "AB"}
    Lower <- LowerCase
    Nil = Nil
    Var = {x, y}
    MaxOps = 4
SPECIFICATION DataSpec
INVARIANTS DataInv NumbersAreRight
PROPERTIES ValuesStay SafeIsAcyclic
SYMMETRY Symmetry
CHECK_DEADLOCK FALSE
CONSTANTS
    IntBits = 6
    UnsignedBits = 4
    Precision = 4
    FractionBits = 10
    MAXLOGOINT = 11
    SAFEINT = 3
    Fractions <- MCFractions
