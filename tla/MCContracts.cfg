SPECIFICATION ContractsSpec
CONSTANTS
    Keys = {}
    Word = 4
    Payloads = {p1, p2}
    ContractAddresses = {0, 1, 2}
    MaxContracts = 2
    MaxCalls = 2
CONSTRAINT CallBound
\* Room for contracts may run out in the middle of a block.
CHECK_DEADLOCK FALSE
INVARIANTS
    ContractsTypeOK
    ContractsDense
    CallsAreNew
    IndexNamesCreator
PROPERTY
    PayloadsOutliveASwap
