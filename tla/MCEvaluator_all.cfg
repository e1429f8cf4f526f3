CONSTANTS
    Macro = {"m"}
    Times = 2
    Program <- Small
SPECIFICATION FairSpec
INVARIANTS EvalInv Meaning
PROPERTIES Terminates
