SPECIFICATION Spec
CONSTANTS
    n1 = n1
    n2 = n2
    e1 = e1
    e2 = e2
    None = None
    Nodes <- MCNodes
    Emitters <- MCEmitters
    MinInterval = 2
    Window = 3
    Budget = 2
    PostTimeout = 1
    MaxTunes = 3
SYMMETRY Permuted
INVARIANTS LimitsHold LatestTuneRuns
PROPERTY AcknowledgedTunesSpaced
