CONSTANTS
    Macro = {"m"}
    Times = 2
    Program <- StopInRepeat
SPECIFICATION Spec
INVARIANTS Meaning
