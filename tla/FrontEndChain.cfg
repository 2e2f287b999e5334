SPECIFICATION Spec
CONSTANTS
    v1 = v1
    v2 = v2
    NoVfo = NoVfo
    Vfos = {}
    Served = {}
    Chain <- FullChain
INVARIANT PathInOrder
