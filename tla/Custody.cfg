SPECIFICATION Spec
CONSTANTS
    t1 = t1
    t2 = t2
    NoNode = NoNode
    Nodes <- TwoNodes
    Tracks <- MCTracks
    Incapable <- MCIncapable
    Merits <- MCMerits
    LoadWeight = 2
    K = 1
    Overlap = 2
    StaleAfter = 0
    Reports <- AllReports
    Removable = {1}
INVARIANTS TypeOK CustodyBounded
PROPERTIES KeptThroughOverlap DangerousNeedsGps HandoverEnds
