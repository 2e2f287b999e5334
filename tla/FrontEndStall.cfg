SPECIFICATION Spec
CONSTANTS
    v1 = v1
    v2 = v2
    NoVfo = NoVfo
    Vfos <- TwoVfos
    Served <- OneVfo
    Chain <- NoChain
PROPERTY HeldIsDecoded
