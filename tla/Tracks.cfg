SPECIFICATION Spec
CONSTANTS
    local = local
    p1 = p1
    Local = local
    Peers <- MCPeers
    Freqs <- MCFreqs
    BucketWidth = 3
    Tolerance = 3
    MergeWindow = 2
    CorrWindow = 1
    SureWithin = 1
    LoseAfter = 0
    ArchiveAfter = 1
    Lateness = 1
    MaxTracks = 3
    MaxHeard = 3
    MaxTime = 1
INVARIANT FoundWhereHeard
PROPERTIES BooksBalance MergeIsComplete FoldedAcross
CHECK_DEADLOCK FALSE
