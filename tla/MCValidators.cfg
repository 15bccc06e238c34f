SPECIFICATION FairValidatorsSpec
CONSTANTS
    v1 = v1
    v2 = v2
    Keys = {v1, v2}
    Word = 2
    GenesisPowers <- MCGenesisPowers
    blockReward = 2
    emptyVoteLeak = 1
    LeakScale = 2
    StakeAmounts = {0, 1}
    StakeFees = {1}
    MaxPower = 5
    MaxUpdates = 2
CONSTRAINT PowerBound
\* The chain stops for good when Tendermint cannot apply an update.
CHECK_DEADLOCK FALSE
INVARIANTS
    ValidatorsTypeOK
    TreeMatchesTendermint
    VotersHaveStakes
PROPERTIES
    MintBounded
    NoRewardWithoutStake
    PunishmentIsLast
    LeakUpdatesAccepted
    InactiveDrains
