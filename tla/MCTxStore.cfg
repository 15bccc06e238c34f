SPECIFICATION TxStoreSpec
CONSTANTS
    Keys = {}
    Word = 4
    TxKeys <- MCKeys
    HeightBits <- MCHeightBits
    TxHashes = {h1, h2}
    SwapPeriod = 2
    MaxHeight = 5
    MaxQueue = 2
CONSTRAINT QueueBound
SYMMETRY HashSymmetry
\* Heights are bounded.
CHECK_DEADLOCK FALSE
INVARIANTS
    TxStoreTypeOK
    RecentTxsRetained
    FrontProofsVerify
    RootsAgree
    AnswersConvince
    NothingElseConvinces
