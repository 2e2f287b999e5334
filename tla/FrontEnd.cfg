SPECIFICATION Spec
CONSTANTS
    v1 = v1
    v2 = v2
    NoVfo = NoVfo
    Vfos <- OneVfo
    Served <- OneVfo
    Chain <- TwoLinks
INVARIANTS OnlyLiveStreams PathInOrder
PROPERTIES OperationsEnd EverybodyIsFed
