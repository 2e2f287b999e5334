SPECIFICATION Spec
CONSTANTS
    b1 = b1
    b2 = b2
    NoBlock = NoBlock
    Torn = Torn
    Blocks <- MCBlocks
INVARIANTS TypeOK NoTornRead NoLostWakeup WorkersMatchBlocks
PROPERTIES ChannelSpec StopReturns Flows
