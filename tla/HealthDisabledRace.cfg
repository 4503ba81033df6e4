CONSTANTS
    Nodes = {n1}
    Passes = {p1}
    DownAfter = 1
    UpAfter = 1
    NumChannels = 1
    MaxClock = 2
SPECIFICATION Spec
SYMMETRY Symmetry
PROPERTIES
    DisabledIsKept
