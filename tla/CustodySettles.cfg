SPECIFICATION Spec
CONSTANTS
    t1 = t1
    t2 = t2
    NoNode = NoNode
    Nodes <- TwoNodes
    Tracks <- OneTrack
    Incapable <- NoneMissing
    Merits <- OneMerit
    LoadWeight = 2
    K = 1
    Overlap = 2
    StaleAfter = 1
    Reports <- NoReports
    Removable = {}
PROPERTY ElectionSettles
