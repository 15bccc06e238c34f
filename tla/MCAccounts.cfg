SPECIFICATION AccountsSpec
CONSTANTS
    Word = 8
    MaxAccounts = 3
    k1 = k1
    k2 = k2
    b1 = b1
    st = st
    Keys = {k1, k2}
    BlsKeys = {b1}
    States = {st}
    NoState = NoState
    TxAmounts = {2, 7}
    TxFees = {1}
    MaxCounter = 2
    Genesis <- MCGenesis
    Batches <- MCBatches
CONSTRAINT CounterBound
CHECK_DEADLOCK FALSE
INVARIANTS
    AccountsTypeOK
    AddressesDense
    CacheCoherent
    CredentialsAreCommitted
    IndexTargetsExist
PROPERTY
    ImplementsLedger
