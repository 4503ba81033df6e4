CONSTANTS
    Nodes = {n1, n2}
    Passes = {p1}
    DownAfter = 1
    UpAfter = 2
    NumChannels = 1
    MaxClock = 4
SPECIFICATION Spec
CONSTRAINT OneNodeLater
SYMMETRY Symmetry
INVARIANTS
    TypeOK
    MirrorAgrees
PROPERTIES
    EvacuatedIffDown
    ProbesRecorded
    DownOnContinuousLoss
    UpAfterQuietWindow
