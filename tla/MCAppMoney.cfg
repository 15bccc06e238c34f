SPECIFICATION RestartSpec
CONSTANTS
    k1 = k1
    k2 = k2
    k3 = k3
    b1 = b1
    b2 = b2
    st = st
    Keys = {k1, k2, k3}
    BlsKeys = {b1, b2}
    States = {st}
    NoState = NoState
    Word = 4096
    gas = 1
    RawTxs <- MoneyTxs
    Genesis <- MCGenesis
    MaxAccounts = 3
    TxAmounts = {}
    TxFees = {}
    Batches = {}
    GenesisPowers <- MCGenesisPowers
    blockReward = 2
    emptyVoteLeak = 1
    LeakScale = 1
    StakeAmounts = {}
    StakeFees = {}
    Payloads = {"code"}
    ContractAddresses = {}
    MaxContracts = 2
    TxKeys <- MCTxKeys
    TxHashes <- MCTxHashes
    SwapPeriod = 2
    MaxHeight = 2
    MaxBlockTxs = 2
    MaxChecked = 1
    CheckedKinds = {"create"}
CONSTRAINT Bounds
\* Heights are bounded, and the chain stops when the last validator leaves.
CHECK_DEADLOCK FALSE
INVARIANTS
    AppTypeOK
    NoBlockOnOldDatabases
    OnDisk
PROPERTIES
    SupplyConserved
    OwnersPay
