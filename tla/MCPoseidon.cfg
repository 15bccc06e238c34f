SPECIFICATION MCSpec
CONSTANTS
    Prime = 7
    NROUNDSF = 8
    NROUNDSP <- MCRounds
    C <- MCC
    S <- MCS
    M <- MCM
    P <- MCP
    Inputs = {0, 1, 3, 6, 7}
    Bytes = {o, x}
    ZeroByte = o
    spongeChunkSize = 2
    FrameSizes = {2, 3}
    MaxLength = 9
\* Inputs and messages are bounded.
CHECK_DEADLOCK FALSE
INVARIANTS
    HashIsPoseidon
    HashBytesIsSponge
    OnlyZerosCollide
