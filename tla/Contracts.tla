----------------------------- MODULE Contracts ------------------------------
(***************************************************************************)
(* The contract store (contract.go): a tree from contract addresses to     *)
(* call counters, the caches of the running block, two storage databases   *)
(* of payloads that take turns, and an index from payload digests.         *)
(*                                                                         *)
(* A payload stands for its own digest.  Counters are uint64 and unbounded *)
(* here.                                                                   *)
(***************************************************************************)
EXTENDS Common, FiniteSets

CONSTANTS
    Payloads,
    ContractAddresses,  \* the targets contract transactions may name: 0 .. n
    MaxContracts        \* bound on the number of contracts

ASSUME ContractsAssumption ==
    /\ MaxContracts \in Nat
    /\ ContractAddresses \subseteq Nat

VARIABLES
    contractTree,        \* address -> counter
    tempContractMap,     \* address -> called contract: counter and payload
    tempNewContractMap,  \* address -> payload of a created contract
    contractNumOnDb,     \* the number of leaves at the last commit
    contractStorageDb,   \* <<address, counter>> -> payload, since the last swap
    contractStorageDb2,  \* the same, between the last two swaps
    contractLedgerDb     \* payload -> address of a contract created with it

contractsVars == <<contractTree, tempContractMap, tempNewContractMap, contractNumOnDb,
                   contractStorageDb, contractStorageDb2, contractLedgerDb>>

\* fetchContract: the cached contract, or one with the tree's counter.
CounterOf(c) == IF c \in DOMAIN tempContractMap THEN tempContractMap[c].Counter
                ELSE contractTree[c]

\* Faulty variant: contracts created in one block share an address.
NextContractShared == contractNumOnDb

\* The address createContract hands out next.
NextContract == contractNumOnDb + Cardinality(DOMAIN tempNewContractMap)

With(f, k, v) == [x \in DOMAIN f \cup {k} |-> IF x = k THEN v ELSE f[x]]

\* Faulty variant: a call does not count.
ExecContractUncounted(target, payload) ==
    /\ IF target >= contractNumOnDb
       THEN /\ NextContract < MaxContracts
            /\ tempNewContractMap' = With(tempNewContractMap, NextContract, payload)
            /\ UNCHANGED tempContractMap
       ELSE /\ tempContractMap' = With(tempContractMap, target,
                  [Counter |-> CounterOf(target), Payload |-> payload])
            /\ UNCHANGED tempNewContractMap
    /\ UNCHANGED <<contractTree, contractNumOnDb, contractStorageDb,
                   contractStorageDb2, contractLedgerDb>>

\* A call of a contract there is keeps its last payload of the block only; a
\* target past the last commit's contracts creates one, wherever it points.
ExecContract(target, payload) ==
    /\ IF target >= contractNumOnDb
       THEN /\ NextContract < MaxContracts
            /\ tempNewContractMap' = With(tempNewContractMap, NextContract, payload)
            /\ UNCHANGED tempContractMap
       ELSE /\ tempContractMap' = With(tempContractMap, target,
                  [Counter |-> CounterOf(target) + 1, Payload |-> payload])
            /\ UNCHANGED tempNewContractMap
    /\ UNCHANGED <<contractTree, contractNumOnDb, contractStorageDb,
                   contractStorageDb2, contractLedgerDb>>

\* The address execContract returns and hashes into the transaction.
ContractAddress(target) == IF target >= contractNumOnDb THEN NextContract ELSE target

\* Faulty variant: the counter comes before the address in a storage key.
StoredPayloadsSwapped ==
    [e \in DOMAIN contractStorageDb
           \cup {<<tempContractMap[c].Counter, c>> : c \in DOMAIN tempContractMap}
           \cup {<<c, 0>> : c \in DOMAIN tempNewContractMap} |->
       IF e[1] \in DOMAIN tempNewContractMap THEN tempNewContractMap[e[1]]
       ELSE IF e[2] \in DOMAIN tempContractMap /\ e[1] = tempContractMap[e[2]].Counter
            THEN tempContractMap[e[2]].Payload
            ELSE contractStorageDb[e]]

(***************************************************************************)
(* commitContractsToDb, the recount of Commit, and the swap of storages    *)
(* swapDb makes when the height is a multiple of its period.  watch is     *)
(* accountWatch.  New contracts with one payload reach the index in the    *)
(* random order of a Go map.                                               *)
(***************************************************************************)
StoredPayloads ==
    [e \in DOMAIN contractStorageDb
           \cup {<<c, tempContractMap[c].Counter>> : c \in DOMAIN tempContractMap}
           \cup {<<c, 0>> : c \in DOMAIN tempNewContractMap} |->
       IF e[1] \in DOMAIN tempNewContractMap THEN tempNewContractMap[e[1]]
       ELSE IF e[1] \in DOMAIN tempContractMap /\ e[2] = tempContractMap[e[1]].Counter
            THEN tempContractMap[e[1]].Payload
            ELSE contractStorageDb[e]]

\* Faulty variant: payloads of calls enter the index, too.
CalledContractEntries(watch) ==
    IF watch THEN {<<tempNewContractMap[c], c>> : c \in DOMAIN tempNewContractMap}
                  \cup {<<tempContractMap[c].Payload, c>> : c \in DOMAIN tempContractMap}
    ELSE {}

NewContractEntries(watch) ==
    IF watch THEN {<<tempNewContractMap[c], c>> : c \in DOMAIN tempNewContractMap} ELSE {}

\* Faulty variant: the storage in use is cleared and not exchanged.
ClearContractDb(swap) ==
    IF swap
    THEN contractStorageDb' = EmptyMap /\ UNCHANGED contractStorageDb2
    ELSE contractStorageDb' = StoredPayloads /\ UNCHANGED contractStorageDb2

\* The back storage is cleared and becomes the front one.  Clearing is complete: no
\* Delete fails.  (One that does ends the iteration of clearDb, which commits
\* what it has deleted and returns no error, db.go:41-44.)
SwapContractDb(swap) ==
    IF swap
    THEN contractStorageDb' = EmptyMap /\ contractStorageDb2' = StoredPayloads
    ELSE contractStorageDb' = StoredPayloads /\ UNCHANGED contractStorageDb2

CommitContracts(watch, swap) ==
    /\ contractTree' = [c \in DOMAIN contractTree \cup DOMAIN tempNewContractMap |->
         IF c \in DOMAIN tempContractMap THEN tempContractMap[c].Counter
         ELSE IF c \in DOMAIN contractTree THEN contractTree[c]
         ELSE 0]
    /\ contractNumOnDb' = Cardinality(DOMAIN contractTree')
    /\ \E index \in [DOMAIN contractLedgerDb \cup {e[1] : e \in NewContractEntries(watch)}
                       -> DOMAIN contractTree'] :
         /\ \A p \in DOMAIN index :
              IF \E e \in NewContractEntries(watch) : e[1] = p
              THEN <<p, index[p]>> \in NewContractEntries(watch)
              ELSE index[p] = contractLedgerDb[p]
         /\ contractLedgerDb' = index
    /\ SwapContractDb(swap)
    /\ tempContractMap' = EmptyMap
    /\ tempNewContractMap' = EmptyMap

-----------------------------------------------------------------------------
ContractsInit ==
    /\ contractTree = EmptyMap
    /\ tempContractMap = EmptyMap
    /\ tempNewContractMap = EmptyMap
    /\ contractNumOnDb = 0
    /\ contractStorageDb = EmptyMap
    /\ contractStorageDb2 = EmptyMap
    /\ contractLedgerDb = EmptyMap

ContractsNext ==
    \/ \E c \in ContractAddresses, p \in Payloads : ExecContract(c, p)
    \/ \E watch, swap \in BOOLEAN : CommitContracts(watch, swap)

ContractsSpec == ContractsInit /\ [][ContractsNext]_contractsVars

-----------------------------------------------------------------------------
(***************************************************************************)
(* Properties.                                                             *)
(***************************************************************************)
Addressed == 0 .. MaxContracts - 1

Call == [Counter : Nat, Payload : Payloads]

\* Every variable holds a value of the program's type.
ContractsTypeOK ==
    /\ IsMap(contractTree, Addressed, Nat)
    /\ IsMap(tempContractMap, Addressed, Call)
    /\ IsMap(tempNewContractMap, Addressed, Payloads)
    /\ contractNumOnDb \in 0 .. MaxContracts
    /\ \A db \in {contractStorageDb, contractStorageDb2} : IsMap(db, Addressed \X Nat, Payloads)
    /\ IsMap(contractLedgerDb, Payloads, Addressed)

\* Contract addresses are handed out without gaps and never twice, also when
\* a block mixes calls of old contracts with calls past the last one: the
\* committed ones are 0 .. n-1, those of the block follow, and a call is only
\* ever kept for a committed contract, so the tree's Update finds it.
ContractsDense ==
    /\ DOMAIN contractTree = 0 .. contractNumOnDb - 1
    /\ DOMAIN tempNewContractMap = contractNumOnDb .. NextContract - 1
    /\ DOMAIN tempContractMap \subseteq DOMAIN contractTree

\* A call still to be committed has a counter past every counter of its
\* contract that is stored, so its payload is written beside the earlier ones
\* and not over one of them.
CallsAreNew ==
    \A e \in DOMAIN contractStorageDb \cup DOMAIN contractStorageDb2 :
        /\ e[1] \in DOMAIN contractTree /\ e[2] <= contractTree[e[1]]
        /\ e[1] \in DOMAIN tempContractMap => e[2] < tempContractMap[e[1]].Counter

\* The index leads from a payload to a contract that was created with it, for
\* as long as that first payload can be read back from the front storage.
IndexNamesCreator ==
    \A p \in DOMAIN contractLedgerDb :
        LET c == contractLedgerDb[p] IN
        /\ c \in DOMAIN contractTree
        /\ <<c, 0>> \in DOMAIN contractStorageDb => contractStorageDb[<<c, 0>>] = p

\* Swapping takes a payload from the front storage to the back one and never
\* away: it is readable, unchanged, through all of the period that follows.
PayloadsOutliveASwap ==
    [][\A e \in DOMAIN contractStorageDb :
         \/ e \in DOMAIN contractStorageDb' /\ contractStorageDb'[e] = contractStorageDb[e]
         \/ e \in DOMAIN contractStorageDb2' /\ contractStorageDb2'[e] = contractStorageDb[e]
      ]_contractsVars

\* "write contract payloads to db for data availability" (contract.go:53): the
\* front storage has a payload for every counter a contract has reached since
\* the first one it has.
EveryCallAvailable ==
    \A e \in DOMAIN contractStorageDb : \A n \in e[2] .. contractTree[e[1]] :
        <<e[1], n>> \in DOMAIN contractStorageDb

=============================================================================
