SPECIFICATION Spec
CONSTANTS
    h1 = h1
    h2 = h2
    Helper = {h1, h2}
    Item = {a}
    Version = {v1, v2}
    Setup <- Machines
    None = None
    Corrupt = Corrupt
SYMMETRY VersionSymmetry
CHECK_DEADLOCK FALSE
INVARIANTS TypeOK AckedDurable
PROPERTIES Atomic GenerationChain
