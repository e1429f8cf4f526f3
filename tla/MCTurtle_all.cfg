CONSTANTS
    Width = 4
    Height = 2
    Steps <- Small
    Xs <- Columns
    Ys <- Rows
    LabelLens = {5}
    GrSize = 380
    MaxOps = 4
SPECIFICATION Spec
INVARIANTS TurtleInv RecordFits RedrawFaithful
PROPERTIES PictureComesBack ForwardEnds
CHECK_DEADLOCK FALSE
