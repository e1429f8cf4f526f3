CONSTANTS
    o1 = o1
    o2 = o2
    o3 = o3
    o4 = o4
    Obj = {o1, o2, o3, o4}
    Spelling = {"foo", "Foo", "bar", "true"}
    Lower <- LowerCase
    Permanent = {"true"}
    NoWord = NoWord
SPECIFICATION OblistSpec
INVARIANTS OblistInv OneSymbol
PROPERTIES GcKeepsValues
SYMMETRY Permute
