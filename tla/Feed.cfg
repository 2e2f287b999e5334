SPECIFICATION FeedSpec
CONSTANTS
    NoReply = NoReply
    TailSize = 2
    LogSize = 3
    MaxEvents = 5
    MaxRestarts = 2
INVARIANT NothingSkipped
PROPERTIES RepliesAdvance SavedArrives
