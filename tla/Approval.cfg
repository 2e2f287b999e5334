SPECIFICATION FairSpec
CONSTANTS
    NoEmitter = NoEmitter
    Emitters = {"e1", "e2"}
    MaxPending = 2
    Expiry = 1
    MinInterval = 2
    MaxItems = 3
INVARIANTS QueueSound LimitedBySent
PROPERTIES DecidedForGood DecisionsAudited
