------------------------------ MODULE AppProofs ------------------------------
(***************************************************************************)
(* Proofs about App: the invariants of the four stores hold in the node    *)
(* that is composed of them, whatever is checked, cached and delivered,    *)
(* no checked transaction makes DeliverTx panic, and what is delivered and *)
(* committed neither makes money nor loses it.                             *)
(***************************************************************************)
EXTENDS App, AccountsProofs, ContractsProofs, TxStoreProofs, ValidatorsProofs

\* The transaction trees have room for the keys and hashes the node makes.
RoomForTxs ==
    /\ Addresses \X UInt32 \subseteq TxKeys
    /\ \A raw \in RawTxs : Digest(raw.data) \in TxHashes
    /\ \A hash \in TxHashes, c \in Addressed : Extended(hash, c) \in TxHashes

\* As it has in the instances, by the definition of their keys and hashes.
LEMMA RoomInInstances ==
    ASSUME TxKeys = Addresses \X UInt32,
           TxHashes = [data : {raw.data : raw \in RawTxs}, calls : Seq(Addressed)]
    PROVE  RoomForTxs
<1>1. \A hash \in TxHashes, c \in Addressed : Extended(hash, c) \in TxHashes
  <2> TAKE hash \in TxHashes, c \in Addressed
  <2>1. Append(hash.calls, c) \in Seq(Addressed)
    OBVIOUS
  <2> QED
    BY <2>1 DEF Extended
<1>2. \A raw \in RawTxs : Digest(raw.data) \in TxHashes
  BY DEF Digest
<1> QED
  BY <1>1, <1>2 DEF RoomForTxs

TxData == {raw.data : raw \in RawTxs}

\* What CheckTx has let into txMap.
CheckedTxs ==
    /\ IsMap(txMap, TxData, [counter : UInt32, hash : TxHashes])
    /\ \A d \in DOMAIN txMap : selectTxType(d) \notin {"none", "delegate"} /\ ~TooShort(d)

\* Between EndBlock and Commit there is a height nothing is filed for.
HeightInPhase == Running => (Committing <=> phase = "ended")

\* The invariant of a node that has had its InitChain.
NodeInv ==
    /\ AccountsInv
    /\ ContractsInv
    /\ TxStoreInv
    /\ ValidatorsInv
    /\ CheckedTxs
    /\ HeightInPhase
    /\ DOMAIN GenesisPowers \subseteq DOMAIN validatorTree

-----------------------------------------------------------------------------
(***************************************************************************)
(* Steps that leave a store alone.                                         *)
(***************************************************************************)
LEMMA SameAccounts == AccountsInv /\ UNCHANGED accountsVars => AccountsInv'
BY DEF accountsVars, AccountsInv, AccountsTypeOK, AddressesDense,
       CacheCoherent, CredentialsAreCommitted, IndexTargetsExist

LEMMA SameContracts == ContractsInv /\ UNCHANGED contractsVars => ContractsInv'
BY NextContracts

LEMMA SameTxStore == TxStoreInv /\ UNCHANGED txStoreVars => TxStoreInv' /\ Committing' = Committing
BY NextTxStore DEF txStoreVars, Committing

LEMMA SameValidators == ValidatorsInv /\ UNCHANGED chainVars => ValidatorsInv'
BY NextValidators

-----------------------------------------------------------------------------
(***************************************************************************)
(* Transactions.                                                           *)
(***************************************************************************)
\* The fields of transactions clients send.
LEMMA FieldTypes ==
    ASSUME NEW d \in TxData
    PROVE  /\ d.amount \in UInt32
           /\ d.state \in States \cup {NoState}
           /\ d.schnorr \in Keys
           /\ d.bls \in BlsKeys
           /\ d.payload \in Payloads
           /\ d.addresses \in Seq(Addresses)
           /\ d.tail \in BOOLEAN
           /\ Fee(d) \in UInt32
           /\ Digest(d) \in [data : TxData, calls : {<<>>}]
<1>1. PICK raw \in RawTxs : d = raw.data
  BY DEF TxData
<1>2. gas * d.length \in Int
  <2>1. gas \in Nat /\ d.length \in Nat
    BY <1>1, RawTxsAssumption
  <2> QED
    BY <2>1, SMTT(30)
<1>3. Fee(d) \in UInt32
  BY <1>2, WrapType DEF Fee
<1> QED
  BY <1>1, <1>3, FieldsAssumption DEF Digest

\* Every transaction is of one of the kinds.
LEMMA KindOf == \A d : selectTxType(d) \in Kinds
BY DEF selectTxType, Kinds

\* The accounts of a transaction accountsCode lets through are there.
LEMMA AccountsFound ==
    ASSUME AccountsInv, NEW d, accountsCode(d) = 0
    PROVE  /\ d.source \in DOMAIN accountTree /\ d.source \in Addresses
           /\ \A t \in TargetsOf(d) : t \in Addresses
           /\ selectTxType(d) # "delegate"
<1>1. Found(d.source) /\ (\A t \in TargetsOf(d) : Found(t)) /\ selectTxType(d) # "delegate"
  BY DEF accountsCode, Panic
<1> QED
  BY <1>1 DEF Found, AccountsInv, AccountsTypeOK, CacheCoherent, IsMap

\* What CheckTx accepts has passed the check of its accounts, and has a kind.
LEMMA CheckedCode ==
    ASSUME NEW raw, CheckTxCode(raw) = 0
    PROVE  /\ accountsCode(raw.data) = 0 /\ selectTxType(raw.data) # "none"
           /\ ~TooShort(raw.data)
BY DEF CheckTxCode, isValid, fetchTx, Panic

\* So has what DeliverTx accepts.
LEMMA DeliveredCode ==
    ASSUME CheckedTxs, NEW raw, DeliverTxCode(raw) = 0
    PROVE  accountsCode(raw.data) = 0 /\ selectTxType(raw.data) # "none"
BY CheckedCode DEF DeliverTxCode, CheckedTxs, inCache

\* The counter a fetched account shows is a number of 32 bits, its key a key.
LEMMA FetchedTypes ==
    ASSUME AccountsInv, NEW a \in DOMAIN accountTree
    PROVE  fetchAccount(a).schnorrPubKey \in Keys /\ fetchAccount(a).counter \in UInt32
<1>1. fetchAccount(a) \in CachedAccount
  <2>1. GoodCache(Fetched({a})) /\ a \in DOMAIN Fetched({a})
    BY FetchedGood DEF Found
  <2>2. Fetched({a})[a] = fetchAccount(a)
    BY <2>1 DEF Fetched
  <2> QED
    BY <2>1, <2>2 DEF GoodCache, IsMap
<1> QED
  BY <1>1 DEF CachedAccount

-----------------------------------------------------------------------------
(***************************************************************************)
(* What an accepted transaction does to each of the stores.                *)
(***************************************************************************)
\* Accounts.
LEMMA ExecAccountsStep ==
    ASSUME AccountsInv, ValidatorsTypeOK, NEW d \in TxData,
           accountsCode(d) = 0, selectTxType(d) # "none", ExecAccounts(d)
    PROVE  AccountsInv'
<1> DEFINE s == d.source
           fee == Fee(d)
           k == fetchAccount(s).schnorrPubKey
<1>1. /\ s \in Addresses /\ fee \in UInt32 /\ d.amount \in UInt32
      /\ d.state \in States \cup {NoState} /\ NoState \in States \cup {NoState}
      /\ d.schnorr \in Keys /\ d.bls \in BlsKeys
      /\ d.addresses \in Seq(Addresses) /\ d.tail \in BOOLEAN
      /\ 0 \in UInt32 /\ {} \in SUBSET Addresses
  BY AccountsFound, FieldTypes, WordAssumption DEF UInt32
<1>2. selectTxType(d) \in {"update", "release", "stake", "transfer", "change",
                           "create", "batch", "contract"}
  BY KindOf, AccountsFound DEF Kinds
<1> HIDE DEF s, fee
<1>3. CASE selectTxType(d) = "update"
  <2>1. ExecUpdate(s, {}, 0, fee, d.state)
    BY <1>3 DEF ExecAccounts, s, fee
  <2> QED
    BY <1>1, <2>1, ExecUpdateStep
<1>4. CASE selectTxType(d) = "transfer"
  <2>1. ExecTransfer(s, d.target, d.amount, fee, d.state)
    BY <1>4 DEF ExecAccounts, s, fee
  <2>2. d.target \in Addresses
    BY <1>4, AccountsFound DEF TargetsOf
  <2> QED
    BY <1>1, <2>1, <2>2, TransferStep
<1>5. CASE selectTxType(d) = "stake"
  <2>1. ExecUpdate(s, {}, d.amount, fee, NoState)
    BY <1>5 DEF ExecAccounts, s, fee
  <2> QED
    BY <1>1, <2>1, ExecUpdateStep
<1>6. CASE selectTxType(d) = "release"
  <2>1. IF k \in DOMAIN validatorTree THEN ExecRelease(s, Wrap(validatorTree[k]), fee)
                                      ELSE Fetch({s})
    BY <1>6 DEF ExecAccounts, s, fee
  <2>2. CASE k \in DOMAIN validatorTree
    <3>1. validatorTree[k] \in Int
      BY <2>2 DEF ValidatorsTypeOK, IsMap
    <3>2. Wrap(validatorTree[k]) \in UInt32
      BY <3>1, WrapType
    <3> QED
      BY <1>1, <2>1, <2>2, <3>2, ExecReleaseStep
  <2>3. CASE k \notin DOMAIN validatorTree
    BY <2>1, <2>3, FetchStep
  <2> QED
    BY <2>2, <2>3
<1>7. CASE selectTxType(d) = "contract"
  <2>1. ExecUpdate(s, {d.target}, d.amount, fee, NoState)
    BY <1>7 DEF ExecAccounts, s, fee
  <2>2. {d.target} \in SUBSET Addresses
    BY <1>7, AccountsFound DEF TargetsOf
  <2> QED
    BY <1>1, <2>1, <2>2, ExecUpdateStep
<1>8. CASE selectTxType(d) = "create"
  <2>1. ExecCreateAccount(s, d.amount, fee, d.schnorr, d.bls)
    BY <1>8 DEF ExecAccounts, s, fee
  <2> QED
    BY <1>1, <2>1, CreateStep
<1>9. CASE selectTxType(d) = "change"
  <2>1. ExecAccountKeyChanger(s, d.schnorr, d.bls, fee)
    BY <1>9 DEF ExecAccounts, s, fee
  <2> QED
    BY <1>1, <2>1, KeyChangeStep
<1>10. CASE selectTxType(d) = "batch"
  <2>1. ExecBatch(s, d.addresses, d.tail, d.amount, fee, d.state)
    BY <1>10 DEF ExecAccounts, s, fee
  <2> QED
    BY <1>1, <2>1, BatchStep
<1> QED
  BY <1>2, <1>3, <1>4, <1>5, <1>6, <1>7, <1>8, <1>9, <1>10

\* Validators: a stake adds a key to the tree at most, and none is taken away.
LEMMA ExecValidatorsStep ==
    ASSUME AccountsInv, ValidatorsInv, NEW d \in TxData, accountsCode(d) = 0, ExecValidators(d)
    PROVE  /\ ValidatorsInv'
           /\ DOMAIN validatorTree \subseteq DOMAIN validatorTree'
           /\ phase = "block" /\ phase' = "block"
<1> DEFINE k == fetchAccount(d.source).schnorrPubKey
           all == Wrap(Fee(d) * (Charged(d) + 1))
<1>1. k \in Keys /\ Fee(d) \in UInt32 /\ d.amount \in UInt32
  BY AccountsFound, FetchedTypes, FieldTypes
<1>2. all \in UInt32
  <2>1. BatchMembers(d.addresses, d.tail) \in Seq(Addresses)
    BY FieldTypes, BatchMembersType
  <2>2. Charged(d) \in Nat
    <3>1. DOMAIN Members(d) = 1 .. Len(Members(d)) /\ Len(Members(d)) \in Nat
      BY <2>1 DEF Members
    <3>2. IsFiniteSet(DOMAIN Members(d))
      BY <3>1, FS_Interval
    <3>3. IsFiniteSet({i \in DOMAIN Members(d) : Found(Members(d)[i])})
      BY <3>2, FS_Subset
    <3> QED
      BY <3>3, FS_CardinalityType DEF Charged
  <2>3. Fee(d) * (Charged(d) + 1) \in Int
    <3>1. Fee(d) \in Int /\ Charged(d) \in Int
      BY <1>1, <2>2, WordAssumption DEF UInt32
    <3> QED
      BY <3>1, SMTT(30)
  <2> QED
    BY <2>3, WrapType
<1> HIDE DEF k, all
<1>3. \/ ExecStakeValidator(k, d.amount, Fee(d))
      \/ ExecReleaseValidator(k, Fee(d))
      \/ ExecOtherValidators(all)
      \/ ExecOtherValidators(Fee(d))
  <2>1. CASE selectTxType(d) = "stake"
    BY <2>1 DEF ExecValidators, k
  <2>2. CASE selectTxType(d) = "release"
    BY <2>2 DEF ExecValidators, k
  <2>3. CASE selectTxType(d) = "batch"
    BY <2>3 DEF ExecValidators, all
  <2>4. CASE selectTxType(d) \notin {"stake", "release", "batch"}
    BY <2>4 DEF ExecValidators
  <2> QED
    BY <2>1, <2>2, <2>3, <2>4
<1>4. ValidatorsInv'
  BY <1>1, <1>2, <1>3, StakeValidatorStep, ReleaseValidatorStep, OtherValidatorsStep
<1>5. phase = "block" /\ phase' = "block"
  BY <1>3 DEF ExecStakeValidator, ExecReleaseValidator, ExecOtherValidators, TmDeliverTx,
              tendermintVars
<1>6. DOMAIN validatorTree \subseteq DOMAIN validatorTree'
  BY <1>3 DEF ExecStakeValidator, ExecReleaseValidator, ExecOtherValidators, validatorsVars
<1> QED
  BY <1>4, <1>5, <1>6

\* Contracts: the target of a call is an account's address, and so a number.
LEMMA ExecContractsStep ==
    ASSUME AccountsInv, ContractsInv, NEW d \in TxData, accountsCode(d) = 0, ExecContracts(d)
    PROVE  ContractsInv'
<1>1. CASE selectTxType(d) = "contract"
  <2>1. ExecContract(d.target, d.payload)
    BY <1>1 DEF ExecContracts
  <2>2. d.target \in Nat /\ d.payload \in Payloads
    BY <1>1, AccountsFound, FieldTypes, AccountsAssumption DEF TargetsOf, Addresses
  <2> QED
    BY <2>1, <2>2, ExecContractStep
<1>2. CASE selectTxType(d) # "contract"
  BY <1>2, SameContracts DEF ExecContracts
<1> QED
  BY <1>1, <1>2

\* The hash and the key a transaction is queued with.
LEMMA QueuedTypes ==
    ASSUME RoomForTxs, AccountsInv, ContractsInv, CheckedTxs, NEW d \in TxData,
           accountsCode(d) = 0, ExecContracts(d)
    PROVE  /\ HashAfter(d) \in TxHashes
           /\ <<SourceAfter(d), CounterOfTx(d)>> \in TxKeys
<1>1. HashOfTx(d) \in TxHashes /\ CounterOfTx(d) \in UInt32
  <2>1. CASE inCache(d)
    <3>1. txMap[d] \in [counter : UInt32, hash : TxHashes]
      BY <2>1 DEF inCache, CheckedTxs, IsMap
    <3> QED
      BY <2>1, <3>1 DEF HashOfTx, CounterOfTx
  <2>2. CASE ~inCache(d)
    <3>1. Digest(d) \in TxHashes
      BY DEF RoomForTxs, TxData
    <3>2. fetchAccount(d.source).counter \in UInt32
      BY AccountsFound, FetchedTypes
    <3> QED
      BY <2>2, <3>1, <3>2 DEF HashOfTx, CounterOfTx
  <2> QED
    BY <2>1, <2>2
<1>2. HashAfter(d) \in TxHashes
  <2>1. CASE selectTxType(d) = "contract"
    <3>1. ExecContract(d.target, d.payload) /\ d.target \in Nat
      BY <2>1, AccountsFound, AccountsAssumption DEF ExecContracts, TargetsOf, Addresses
    <3>2. ContractAddress(d.target) \in Addressed
      <4>1. contractNumOnDb \in 0 .. MaxContracts
        BY DEF ContractsInv, ContractsTypeOK
      <4>2. NextContract \in Nat
        BY Growth
      <4> QED
        BY <3>1, <4>1, <4>2, ContractsAssumption DEF ContractAddress, ExecContract, Addressed
    <3> QED
      BY <1>1, <2>1, <3>2 DEF HashAfter, RoomForTxs
  <2>2. CASE selectTxType(d) # "contract"
    BY <1>1, <2>2 DEF HashAfter
  <2> QED
    BY <2>1, <2>2
<1>3. SourceAfter(d) \in Addresses
  <2>1. Members(d) \in Seq(Addresses)
    BY FieldTypes, BatchMembersType DEF Members
  <2>2. ASSUME Members(d) # <<>> PROVE Last(Members(d)) \in Addresses
    <3>1. Len(Members(d)) \in DOMAIN Members(d)
      BY <2>1, <2>2
    <3> QED
      BY <2>1, <3>1, ElementsOf DEF Last
  <2> QED
    BY <2>2, AccountsFound DEF SourceAfter
<1> QED
  BY <1>1, <1>2, <1>3 DEF RoomForTxs

\* What is left of txMap.
LEMMA MapAfter ==
    ASSUME CheckedTxs, NEW d \in TxData, HashAfter(d) \in TxHashes, txMap' = txMapAfter(d)
    PROVE  CheckedTxs'
<1>1. CASE selectTxType(d) # "contract"
  <2>1. txMap' = [e \in DOMAIN txMap \ {d} |-> txMap[e]]
    BY <1>1 DEF txMapAfter
  <2> QED
    BY <2>1 DEF CheckedTxs, IsMap
<1>2. CASE selectTxType(d) = "contract" /\ inCache(d)
  <2>1. txMap' = [txMap EXCEPT ![d].hash = HashAfter(d)]
    BY <1>2 DEF txMapAfter
  <2>2. txMap[d] \in [counter : UInt32, hash : TxHashes]
    BY <1>2 DEF CheckedTxs, IsMap, inCache
  <2>3. [txMap[d] EXCEPT !.hash = HashAfter(d)] \in [counter : UInt32, hash : TxHashes]
    BY <2>2
  <2>4. DOMAIN txMap' = DOMAIN txMap
    BY <2>1
  <2> QED
    BY <2>1, <2>3, <2>4 DEF CheckedTxs, IsMap
<1>3. CASE selectTxType(d) = "contract" /\ ~inCache(d)
  <2>1. txMap' = txMap
    BY <1>3 DEF txMapAfter
  <2> QED
    BY <2>1 DEF CheckedTxs
<1> QED
  BY <1>1, <1>2, <1>3

-----------------------------------------------------------------------------
(***************************************************************************)
(* The calls.                                                              *)
(***************************************************************************)
\* An accepted transaction keeps the invariant of every store.
LEMMA AcceptStep ==
    ASSUME RoomForTxs, NodeInv, NEW raw \in RawTxs, Accept(raw)
    PROVE  NodeInv'
<1> DEFINE d == raw.data
<1>1. /\ phase = "block" /\ DeliverTxCode(raw) = 0
      /\ ExecAccounts(d) /\ ExecValidators(d) /\ ExecContracts(d)
      /\ EnqueueTx(<<SourceAfter(d), CounterOfTx(d)>>, HashAfter(d))
      /\ txMap' = txMapAfter(d)
  BY DEF Accept
<1>2. d \in TxData
  BY DEF TxData
<1> HIDE DEF d
<1>3. accountsCode(d) = 0 /\ selectTxType(d) # "none"
  BY <1>1, DeliveredCode DEF NodeInv, d
<1>4. AccountsInv'
  BY <1>1, <1>2, <1>3, ExecAccountsStep DEF NodeInv, ValidatorsInv
<1>5. /\ ValidatorsInv' /\ phase' = "block"
      /\ DOMAIN validatorTree \subseteq DOMAIN validatorTree'
  BY <1>1, <1>2, <1>3, ExecValidatorsStep DEF NodeInv
<1>6. ContractsInv'
  BY <1>1, <1>2, <1>3, ExecContractsStep DEF NodeInv
<1>7. HashAfter(d) \in TxHashes /\ <<SourceAfter(d), CounterOfTx(d)>> \in TxKeys
  BY <1>1, <1>2, <1>3, QueuedTypes DEF NodeInv
<1>8. TxStoreInv'
  BY <1>1, <1>7, EnqueueStep DEF NodeInv
<1>9. CheckedTxs'
  BY <1>1, <1>2, <1>7, MapAfter DEF NodeInv
<1>10. HeightInPhase'
  BY <1>1, <1>5 DEF NodeInv, HeightInPhase, Running, EnqueueTx, Committing
<1> QED
  BY <1>4, <1>5, <1>6, <1>8, <1>9, <1>10 DEF NodeInv

\* A rejected transaction and a panic fetch accounts.
LEMMA RejectStep ==
    ASSUME NodeInv, NEW raw \in RawTxs, Reject(raw) \/ DeliverTxPanics(raw)
    PROVE  NodeInv' /\ phase' \in {"block", "halted"}
<1>1. /\ Fetch(tempAccountMap') \/ \E A : Fetch(A)
      /\ UNCHANGED <<validatorsVars, contractsVars, txStoreVars, txMap, validatorSets>>
      /\ phase = "block" /\ (phase' = "block" \/ phase' = "halted")
  BY DEF Reject, DeliverTxPanics, TmFail, chainVars, tendermintVars
<1>2. AccountsInv'
  BY <1>1, FetchStep DEF NodeInv
<1>3. ContractsInv' /\ TxStoreInv' /\ Committing' = Committing
  BY <1>1, SameContracts, SameTxStore DEF NodeInv
<1>4. ValidatorsInv' /\ validatorTree' = validatorTree
  <2>1. UNCHANGED <<validatorTree, valUpdates, totalFees, lastSet, curSet, nextSet, everSet>>
    BY <1>1 DEF validatorsVars, validatorSets
  <2>2. CASE phase' = "block"
    BY <1>1, <2>1, <2>2, SameValidators
       DEF NodeInv, chainVars, tendermintVars, validatorsVars, validatorSets
  <2>3. CASE phase' = "halted"
    BY <1>1, <2>1, <2>3 DEF NodeInv, ValidatorsInv, ValidatorsTypeOK, TreeMatchesTendermint,
                            VotersHaveStakes, AtGenesis, Phases
  <2> QED
    BY <1>1, <2>1, <2>2, <2>3
<1>5. CheckedTxs'
  BY <1>1 DEF NodeInv, CheckedTxs
<1>6. HeightInPhase'
  BY <1>1, <1>3 DEF NodeInv, HeightInPhase, Running
<1> QED
  BY <1>1, <1>2, <1>3, <1>4, <1>5, <1>6 DEF NodeInv

\* A check fetches accounts, and may enter what it has found in txMap.
LEMMA CheckTxStep ==
    ASSUME RoomForTxs, NodeInv, NEW raw \in RawTxs, CheckTx(raw)
    PROVE  NodeInv' /\ phase' = phase
<1> DEFINE d == raw.data
<1>1. /\ Running
      /\ Fetch(FetchedBy(d, CheckTxCode(raw)))
      /\ txMap' = IF CheckTxCode(raw) = 0
                  THEN With(txMap, d, Checked(fetchAccount(d.source).counter, Digest(d)))
                  ELSE txMap
      /\ UNCHANGED <<chainVars, contractsVars, txStoreVars>>
  BY DEF CheckTx
<1>2. AccountsInv'
  BY <1>1, FetchStep DEF NodeInv
<1>3. ContractsInv' /\ TxStoreInv' /\ Committing' = Committing /\ ValidatorsInv'
  BY <1>1, SameContracts, SameTxStore, SameValidators DEF NodeInv
<1>4. phase' = phase /\ validatorTree' = validatorTree
  BY <1>1 DEF chainVars, tendermintVars, validatorsVars
<1>5. CheckedTxs'
  <2>1. CASE CheckTxCode(raw) # 0
    BY <1>1, <2>1 DEF NodeInv, CheckedTxs
  <2>2. CASE CheckTxCode(raw) = 0
    <3> DEFINE checked == Checked(fetchAccount(d.source).counter, Digest(d))
    <3>1. accountsCode(d) = 0 /\ selectTxType(d) # "none" /\ ~TooShort(d)
      BY <2>2, CheckedCode
    <3>2. fetchAccount(d.source).counter \in UInt32 /\ selectTxType(d) # "delegate"
      BY <3>1, AccountsFound, FetchedTypes DEF NodeInv
    <3>3. checked \in [counter : UInt32, hash : TxHashes]
      BY <3>2 DEF Checked, RoomForTxs
    <3> HIDE DEF checked
    <3>4. txMap' = With(txMap, d, checked) /\ d \in TxData
      BY <1>1, <2>2 DEF checked, TxData
    <3>5. IsMap(txMap', TxData, [counter : UInt32, hash : TxHashes])
      BY <3>3, <3>4, WithMap DEF NodeInv, CheckedTxs
    <3>6. DOMAIN txMap' = DOMAIN txMap \cup {d}
      BY <3>4 DEF With
    <3> QED
      BY <3>1, <3>2, <3>5, <3>6 DEF NodeInv, CheckedTxs
  <2> QED
    BY <2>1, <2>2
<1>6. HeightInPhase'
  BY <1>3, <1>4 DEF NodeInv, HeightInPhase, Running
<1> QED
  BY <1>2, <1>3, <1>4, <1>5, <1>6 DEF NodeInv

\* A query fetches accounts or toggles accountWatch.
LEMMA QueryStep ==
    ASSUME NodeInv, Query
    PROVE  NodeInv' /\ phase' = phase
<1>1. /\ (\E A : Fetch(A)) \/ ToggleAccountWatch
      /\ UNCHANGED <<chainVars, contractsVars, txStoreVars, txMap>>
  BY DEF Query, FindAccountByPubKey
<1>2. AccountsInv'
  <2>1. CASE \E A : Fetch(A)
    BY <2>1, FetchStep DEF NodeInv
  <2>2. CASE ToggleAccountWatch
    BY <2>2, NextInv DEF NodeInv, AccountsNext
  <2> QED
    BY <1>1, <2>1, <2>2
<1>3. ContractsInv' /\ TxStoreInv' /\ Committing' = Committing /\ ValidatorsInv'
  BY <1>1, SameContracts, SameTxStore, SameValidators DEF NodeInv
<1>4. phase' = phase /\ validatorTree' = validatorTree
  BY <1>1 DEF chainVars, tendermintVars, validatorsVars
<1> QED
  BY <1>1, <1>2, <1>3, <1>4 DEF NodeInv, CheckedTxs, HeightInPhase, Running

\* The beginning of a block is the validators' business.
LEMMA BeginStep ==
    ASSUME NodeInv, NEW signed, NEW proposer, NEW byzantine,
           BeginBlock(signed, proposer, byzantine)
    PROVE  NodeInv' /\ phase' = "block"
<1>1. /\ BeginBlockValidators(signed, proposer, byzantine)
      /\ UNCHANGED <<accountsVars, contractsVars, txStoreVars, txMap>>
  BY DEF BeginBlock
<1>2. phase = "idle" /\ phase' = "block" /\ DOMAIN validatorTree' = DOMAIN validatorTree
  BY <1>1 DEF BeginBlockValidators, TmBeginBlock
<1>3. ValidatorsInv'
  BY <1>1, BeginBlockStep DEF NodeInv
<1>4. AccountsInv' /\ ContractsInv' /\ TxStoreInv' /\ Committing' = Committing
  BY <1>1, SameAccounts, SameContracts, SameTxStore DEF NodeInv
<1> QED
  BY <1>1, <1>2, <1>3, <1>4 DEF NodeInv, CheckedTxs, HeightInPhase, Running

\* The end of a block opens a height and returns the updates.
LEMMA EndStep ==
    ASSUME NodeInv, EndBlock
    PROVE  NodeInv' /\ phase' \in {"ended", "halted"}
<1>1. /\ EndBlockValidators /\ EndBlockTxs
      /\ UNCHANGED <<accountsVars, contractsVars, txMap>>
  BY DEF EndBlock
<1>2. phase = "block" /\ phase' \in {"ended", "halted"} /\ validatorTree' = validatorTree
  BY <1>1 DEF EndBlockValidators, TmEndBlock
<1>3. ~Committing
  BY <1>2 DEF NodeInv, HeightInPhase, Running
<1>4. TxStoreInv' /\ Committing'
  BY <1>1, <1>3, EndBlockTxsStep DEF NodeInv
<1>5. ValidatorsInv' /\ AccountsInv' /\ ContractsInv'
  BY <1>1, EndBlockValidatorsStep, SameAccounts, SameContracts DEF NodeInv
<1> QED
  BY <1>1, <1>2, <1>4, <1>5 DEF NodeInv, CheckedTxs, HeightInPhase, Running

\* The commit.
LEMMA CommitStep ==
    ASSUME NodeInv, CommitBlock
    PROVE  NodeInv' /\ phase' = "idle"
<1>1. /\ CommitValidators /\ CommitAccounts /\ CommitTxs
      /\ CommitContracts(accountWatch, SwapDue)
      /\ UNCHANGED txMap
  BY DEF CommitBlock
<1>2. phase = "ended" /\ phase' = "idle" /\ validatorTree' = validatorTree
  BY <1>1 DEF CommitValidators, TmCommit, validatorsVars
<1>3. Committing /\ accountWatch \in BOOLEAN /\ SwapDue \in BOOLEAN
  BY <1>2 DEF NodeInv, HeightInPhase, Running, AccountsInv, AccountsTypeOK, SwapDue
<1>4. ValidatorsInv' /\ AccountsInv' /\ TxStoreInv' /\ ContractsInv'
  BY <1>1, <1>3, CommitValidatorsStep, CommitAccountsStep, CommitTxsStep, CommitContractsStep
     DEF NodeInv
<1>5. ~Committing'
  BY <1>1 DEF CommitTxs, Committing
<1> QED
  BY <1>1, <1>2, <1>4, <1>5 DEF NodeInv, CheckedTxs, HeightInPhase, Running

\* InitChain over the state NewApp has left.
LEMMA FirstStep ==
    ASSUME AppInit, InitChain
    PROVE  NodeInv' /\ phase' = "idle"
<1>1. /\ AccountsInv /\ ContractsInv /\ TxStoreInv /\ ValidatorsInv
      /\ txMap = EmptyMap /\ ~Committing
  BY InitInv, InitContracts, InitTxStore, InitValidators
     DEF AppInit, TxStoreInit, Committing
<1>2. InitChainValidators /\ UNCHANGED <<accountsVars, contractsVars, txStoreVars, txMap>>
  BY DEF InitChain
<1>3. phase' = "idle" /\ DOMAIN GenesisPowers \subseteq DOMAIN validatorTree'
  BY <1>2 DEF InitChainValidators, TmInitChain
<1>4. ValidatorsInv' /\ AccountsInv' /\ ContractsInv' /\ TxStoreInv' /\ ~Committing'
  BY <1>1, <1>2, InitChainStep, SameAccounts, SameContracts, SameTxStore
<1>5. CheckedTxs'
  BY <1>1, <1>2 DEF CheckedTxs, IsMap, EmptyMap
<1> QED
  BY <1>3, <1>4, <1>5 DEF NodeInv, HeightInPhase

\* No call leads back to the genesis, or to the end of the process.
LEMMA NodeStep ==
    ASSUME RoomForTxs, NodeInv, phase \notin {"genesis", "down"}, [AppNext]_appVars
    PROVE  NodeInv' /\ phase' \notin {"genesis", "down"}
<1>1. CASE InitChain
  BY <1>1 DEF InitChain, InitChainValidators, TmInitChain
<1>2. ASSUME NEW signed, NEW proposer, NEW byzantine, BeginBlock(signed, proposer, byzantine)
      PROVE  NodeInv' /\ phase' = "block"
  BY <1>2, BeginStep
<1>3. ASSUME NEW raw \in RawTxs, CheckTx(raw) PROVE NodeInv' /\ phase' = phase
  BY <1>3, CheckTxStep
<1>4. ASSUME NEW raw \in RawTxs, DeliverTx(raw)
      PROVE  NodeInv' /\ phase' \notin {"genesis", "down"}
  <2>1. CASE Accept(raw)
    <3>1. accountsCode(raw.data) = 0 /\ ExecValidators(raw.data) /\ raw.data \in TxData
      BY <2>1, DeliveredCode DEF Accept, NodeInv, TxData
    <3>2. phase' = "block"
      BY <3>1, ExecValidatorsStep DEF NodeInv
    <3> QED
      BY <2>1, <3>2, AcceptStep
  <2>2. CASE Reject(raw) \/ DeliverTxPanics(raw)
    BY <2>2, RejectStep
  <2> QED
    BY <1>4, <2>1, <2>2 DEF DeliverTx
<1>5. CASE EndBlock
  BY <1>5, EndStep
<1>6. CASE CommitBlock
  BY <1>6, CommitStep
<1>7. CASE Query
  BY <1>7, QueryStep
<1>8. CASE UNCHANGED appVars
  <2>1. UNCHANGED <<accountsVars, chainVars, contractsVars, txStoreVars, txMap, phase, validatorTree>>
    BY <1>8 DEF appVars, chainVars, tendermintVars, validatorsVars
  <2>2. /\ AccountsInv' /\ ContractsInv' /\ TxStoreInv' /\ ValidatorsInv'
        /\ Committing' = Committing
    BY <2>1, SameAccounts, SameContracts, SameTxStore, SameValidators DEF NodeInv
  <2> QED
    BY <2>1, <2>2 DEF NodeInv, CheckedTxs, HeightInPhase, Running
<1> QED
  BY <1>1, <1>2, <1>3, <1>4, <1>5, <1>6, <1>7, <1>8 DEF AppNext

\* A node with the invariant has the types.
LEMMA NodeTypes == NodeInv => AppTypeOK
BY DEF NodeInv, AppTypeOK, AccountsInv, ContractsInv, TxStoreInv, ValidatorsInv,
       CheckedTxs, TxData

-----------------------------------------------------------------------------
(***************************************************************************)
(* The invariant of a process that does not end.                           *)
(***************************************************************************)
AppInv ==
    \/ phase = "genesis" /\ AppInit
    \/ phase \notin {"genesis", "down"} /\ NodeInv

\* The call before the first block is InitChain.
LEMMA GenesisStep ==
    ASSUME phase = "genesis", AppNext
    PROVE  InitChain
<1>1. ~Running
  BY DEF Running
<1>2. \A raw : ~CheckTx(raw) /\ ~Accept(raw) /\ ~Reject(raw) /\ ~DeliverTxPanics(raw)
  BY <1>1 DEF CheckTx, Accept, Reject, DeliverTxPanics, TmFail
<1>3. \A signed, proposer, byzantine : ~BeginBlock(signed, proposer, byzantine)
  BY DEF BeginBlock, BeginBlockValidators, TmBeginBlock
<1>4. ~EndBlock /\ ~CommitBlock /\ ~Query
  BY <1>1 DEF EndBlock, EndBlockValidators, TmEndBlock, CommitBlock, CommitValidators, TmCommit,
              Query
<1> QED
  BY <1>2, <1>3, <1>4 DEF AppNext, DeliverTx

\* Every step keeps the invariant: the genesis waits for InitChain, and after
\* it the calls keep what they share.
LEMMA AppStep == RoomForTxs /\ AppInv /\ [AppNext]_appVars => AppInv'
<1> SUFFICES ASSUME RoomForTxs, AppInv, [AppNext]_appVars PROVE AppInv'
  OBVIOUS
<1>1. CASE phase = "genesis" /\ AppInit /\ AppNext
  BY <1>1, GenesisStep, FirstStep DEF AppInv
<1>2. CASE phase = "genesis" /\ AppInit /\ UNCHANGED appVars
  BY <1>2 DEF AppInv, AppInit, appVars, accountsVars, chainVars, tendermintVars, validatorSets,
              validatorsVars, contractsVars, txStoreVars, AccountsInit, ValidatorsInit,
              TendermintInit, ContractsInit, TxStoreInit
<1>3. CASE phase \notin {"genesis", "down"} /\ NodeInv
  BY <1>3, NodeStep DEF AppInv
<1> QED
  BY <1>1, <1>2, <1>3 DEF AppInv

\* The genesis has the types as well, and no transaction is checked in it.
LEMMA AppInvTypes == AppInv => AppTypeOK /\ CheckedTxs
<1>1. ASSUME AppInit PROVE AppTypeOK /\ CheckedTxs
  <2>1. AccountsInv /\ ContractsInv /\ TxStoreInv /\ ValidatorsInv /\ txMap = EmptyMap
    BY <1>1, InitInv, InitContracts, InitTxStore, InitValidators DEF AppInit
  <2>2. IsMap(txMap, {raw.data : raw \in RawTxs}, [counter : UInt32, hash : TxHashes])
        /\ DOMAIN txMap = {}
    BY <2>1, EmptyIsMap
  <2> QED
    BY <2>1, <2>2 DEF AppTypeOK, AccountsInv, ContractsInv, TxStoreInv, ValidatorsInv,
                      CheckedTxs, TxData
<1> QED
  BY <1>1, NodeTypes DEF AppInv, NodeInv

\* The node keeps the invariants of its four stores, whatever Tendermint and
\* the clients send: types, addresses, caches, roots and validator sets.
THEOREM AppInvariance == RoomForTxs => (AppSpec => []AppInv)
<1> SUFFICES ASSUME RoomForTxs PROVE AppSpec => []AppInv
  OBVIOUS
<1>1. AppInit => AppInv
  BY DEF AppInit, AppInv, ValidatorsInit, TendermintInit
<1>2. AppInv /\ [AppNext]_appVars => AppInv'
  BY AppStep
<1> QED
  BY <1>1, <1>2, PTL DEF AppSpec

\* The variables of the node have their types, in every state it reaches.
THEOREM AppTypes == RoomForTxs => (AppSpec => []AppTypeOK)
BY AppInvariance, AppInvTypes, PTL

\* What the map says of kinds, for DeliverTx: no code of a cached transaction
\* is Panic.
LEMMA CachedCodes == CheckedTxs => CheckedDoNotPanic
<1> SUFFICES ASSUME CheckedTxs, NEW raw \in RawTxs, inCache(raw.data)
             PROVE  DeliverTxCode(raw) # Panic
  BY DEF CheckedDoNotPanic
<1>1. selectTxType(raw.data) # "delegate"
  BY DEF CheckedTxs, inCache
<1>2. accountsCode(raw.data) # Panic
  BY <1>1 DEF accountsCode, Panic
<1> QED
  BY <1>2 DEF DeliverTxCode, CheckTxCode, fetchTx, Panic

\* A transaction CheckTx has let into txMap makes no DeliverTx panic (app.go,
\* isValid): the kinds that panic are turned away before they are cached.
THEOREM CheckedNeverPanic == RoomForTxs => (AppSpec => []CheckedDoNotPanic)
BY AppInvariance, AppInvTypes, CachedCodes, PTL

\* In the composition, too, the counter and the key a transaction is checked
\* with are those of the last commit, and addresses are dense (accounts.go).
THEOREM NodeCredentials ==
    RoomForTxs => (AppSpec => [](CredentialsAreCommitted /\ AddressesDense))
<1>1. AppInv => CredentialsAreCommitted /\ AddressesDense
  <2>1. AppInit => AccountsInv
    BY InitInv DEF AppInit
  <2> QED
    BY <2>1 DEF AppInv, NodeInv, AccountsInv
<1> QED
  BY <1>1, AppInvariance, PTL

\* And validatorTree is what Tendermint has been told (app.go, EndBlock).
THEOREM NodePowers == RoomForTxs => (AppSpec => []TreeMatchesTendermint)
<1>1. AppInv => TreeMatchesTendermint
  <2>1. AppInit => ValidatorsInv
    BY InitValidators DEF AppInit
  <2> QED
    BY <2>1 DEF AppInv, NodeInv, ValidatorsInv
<1> QED
  BY <1>1, AppInvariance, PTL

-----------------------------------------------------------------------------
(***************************************************************************)
(* Arithmetic modulo Word.                                                 *)
(***************************************************************************)
Same(W, m, n) == \E q \in Int : m = n + q * W

\* What is computed exactly needs no cutting.
Exact(W, n) == W = 0 => n \in UInt32

\* A wrapped number is the number, modulo Word, or exactly when it has 32 bits.
LEMMA WrapSame ==
    ASSUME NEW W \in {0, Word}, NEW n \in Int, Exact(W, n)
    PROVE  Wrap(n) \in Int /\ Same(W, Wrap(n), n)
<1>1. n \div Word \in Int /\ Wrap(n) \in Int
  BY WordAssumption, SMTT(30) DEF Wrap
<1>2. CASE W = Word
  <2>1. n = Word * (n \div Word) + Wrap(n)
    BY WordAssumption, SMTT(30) DEF Wrap
  <2>2. Wrap(n) = n + (0 - (n \div Word)) * Word
    BY <1>1, <2>1, WordAssumption, SMTT(30)
  <2>3. PICK q : q = 0 - (n \div Word)
    OBVIOUS
  <2>4. q \in Int /\ Wrap(n) = n + q * W
    BY <1>1, <1>2, <2>2, <2>3
  <2> QED
    BY <1>1, <2>4 DEF Same
<1>3. CASE W = 0
  <2>1. n \in UInt32
    BY <1>3 DEF Exact
  <2>2. Wrap(n) = n + 0 * W
    BY <1>3, <2>1, WordAssumption, SMTT(30) DEF Wrap, UInt32
  <2> QED
    BY <1>1, <2>2 DEF Same
<1> QED
  BY <1>2, <1>3

\* Two numbers of 32 bits that are the same modulo Word are equal.
LEMMA NoMultiple ==
    ASSUME NEW r \in UInt32, NEW s \in UInt32, NEW q \in Int, r = s + q * Word
    PROVE  r = s
<1>1. r \in Int /\ s \in Int /\ 0 <= r /\ r < Word /\ 0 <= s /\ s < Word /\ Word \in Int
  BY WordAssumption DEF UInt32
<1>2. CASE q >= 1
  <2>1. q * Word >= Word
    BY <1>1, <1>2, SMTT(30)
  <2> QED
    BY <1>1, <2>1, SMTT(30)
<1>3. CASE q <= -1
  <2>1. q * Word <= -Word
    BY <1>1, <1>3, SMTT(30)
  <2> QED
    BY <1>1, <2>1, SMTT(30)
<1>4. CASE q = 0
  BY <1>1, <1>4, SMTT(30)
<1> QED
  BY <1>2, <1>3, <1>4

\* Sums of the same are the same.
LEMMA SameSum ==
    ASSUME NEW W \in Int, NEW m \in Int, NEW n \in Int, NEW i \in Int, NEW j \in Int, Same(W, m, n), Same(W, i, j)
    PROVE  Same(W, m + i, n + j)
<1>1. PICK q \in Int : m = n + q * W
  BY DEF Same
<1>2. PICK r \in Int : i = j + r * W
  BY DEF Same
<1>3. q + r \in Int
  OBVIOUS
<1>4. m + i = n + j + (q + r) * W
  BY <1>1, <1>2, <1>3, SMTT(30)
<1> QED
  BY <1>3, <1>4 DEF Same

\* The same as the same is the same,
LEMMA SameTrans ==
    ASSUME NEW W \in Int, NEW m \in Int, NEW n \in Int, NEW i \in Int, Same(W, m, n), Same(W, n, i)
    PROVE  Same(W, m, i)
<1>1. PICK q \in Int : m = n + q * W
  BY DEF Same
<1>2. PICK r \in Int : n = i + r * W
  BY DEF Same
<1>3. q + r \in Int
  OBVIOUS
<1>4. m = i + (q + r) * W
  BY <1>1, <1>2, <1>3, SMTT(30)
<1> QED
  BY <1>3, <1>4 DEF Same

\* everything is the same as itself,
LEMMA SameSelf == \A W, m \in Int : Same(W, m, m)
<1>1. \A W, m \in Int : m = m + 0 * W
  BY SMTT(30)
<1> QED
  BY <1>1 DEF Same

\* and the other way round.
LEMMA SameBack == ASSUME NEW W \in Int, NEW m \in Int, NEW n \in Int, Same(W, m, n) PROVE Same(W, n, m)
<1>1. PICK q \in Int : m = n + q * W
  BY DEF Same
<1>2. n = m + (0 - q) * W
  BY <1>1, SMTT(30)
<1> QED
  BY <1>2 DEF Same

\* What is the same modulo Word wraps to one number.
LEMMA SameWrap ==
    ASSUME NEW m \in Int, NEW n \in Int, NEW W, W = Word, Same(W, m, n)
    PROVE  Wrap(m) = Wrap(n)
<1>1. Wrap(m) \in UInt32 /\ Wrap(n) \in UInt32 /\ Wrap(m) \in Int /\ Wrap(n) \in Int
  BY WrapType, WordAssumption DEF UInt32
<1>0. W \in Int /\ Word # 0 /\ W = Word
  BY WordAssumption
<1>2. Same(W, Wrap(m), m) /\ Same(W, Wrap(n), n)
  BY <1>0, WrapSame DEF Exact
<1>3. Same(W, Wrap(m), n) /\ Same(W, n, Wrap(n))
  BY ONLY <1>0, <1>1, <1>2, SameTrans, SameBack, m \in Int, n \in Int, Same(W, m, n)
<1>4. Same(W, Wrap(m), Wrap(n))
  BY ONLY <1>0, <1>1, <1>3, SameTrans, n \in Int
<1> QED
  BY <1>0, <1>1, <1>4, NoMultiple DEF Same

\* A fee has 32 bits.
LEMMA WrapOnce == ASSUME NEW n \in UInt32 PROVE Wrap(n) = n /\ n \in Int
BY WordAssumption, SMTT(30) DEF UInt32, Wrap

-----------------------------------------------------------------------------
(***************************************************************************)
(* Money, as a sum.                                                        *)
(***************************************************************************)
Amounts(accounts) == [a \in DOMAIN accounts |-> accounts[a].Amount]

\* There are finitely many addresses,
LEMMA FiniteAddresses == \A S \in SUBSET Addresses : IsFiniteSet(S)
<1>1. IsFiniteSet(Addresses)
  BY AccountsAssumption, FS_Interval DEF Addresses
<1> QED
  BY <1>1, FS_Subset

\* so the money of a map of accounts is a sum, and a number.
LEMMA MoneySum ==
    ASSUME NEW L, IsMap(L, Addresses, Leaf)
    PROVE  /\ IsFiniteSet(DOMAIN L)
           /\ \A a \in DOMAIN L : Amounts(L)[a] = L[a].Amount /\ L[a].Amount \in Int
           /\ Money(L) = SumOver(Amounts(L), DOMAIN L)
           /\ Money(L) \in Int
<1>1. IsFiniteSet(DOMAIN L)
  BY FiniteAddresses DEF IsMap
<1>2. \A a \in DOMAIN L : Amounts(L)[a] = L[a].Amount /\ L[a].Amount \in Int
  BY WordAssumption DEF IsMap, Leaf, UInt32, Amounts
<1>3. Money(L) = SumOver(Amounts(L), DOMAIN L)
  BY DEF Money, SumOver, Amounts
<1>4. SumOver(Amounts(L), DOMAIN L) \in Int
  BY <1>1, <1>2, SumRemove
<1> QED
  BY <1>1, <1>2, <1>3, <1>4

\* One account is written.
LEMMA MoneyWritten ==
    ASSUME NEW L, IsMap(L, Addresses, Leaf), NEW s \in DOMAIN L, NEW leaf \in Leaf
    PROVE  /\ IsMap([L EXCEPT ![s] = leaf], Addresses, Leaf)
           /\ Money([L EXCEPT ![s] = leaf]) = Money(L) + leaf.Amount - L[s].Amount
<1> DEFINE M == [L EXCEPT ![s] = leaf]
<1>1. IsMap(M, Addresses, Leaf) /\ DOMAIN M = DOMAIN L
  BY DEF IsMap
<1>2. M[s] = leaf /\ \A a \in DOMAIN L : a # s => M[a] = L[a]
  OBVIOUS
<1> HIDE DEF M
<1>3. \A a \in DOMAIN L : /\ Amounts(M)[a] \in Int /\ Amounts(L)[a] \in Int
                          /\ a # s => Amounts(M)[a] = Amounts(L)[a]
  BY <1>1, <1>2, MoneySum
<1>4. SumOver(Amounts(M), DOMAIN L) = SumOver(Amounts(L), DOMAIN L) + Amounts(M)[s] - Amounts(L)[s]
  BY <1>3, MoneySum, SumChange
<1>5. Money(M) = Money(L) + leaf.Amount - L[s].Amount
  BY <1>1, <1>2, <1>4, MoneySum
<1> QED
  BY <1>1, <1>5 DEF M

\* An account is added.
LEMMA MoneyAdded ==
    ASSUME NEW L, IsMap(L, Addresses, Leaf), NEW s \in Addresses, s \notin DOMAIN L, NEW leaf \in Leaf,
           NEW M, M = [a \in DOMAIN L \cup {s} |-> IF a = s THEN leaf ELSE L[a]]
    PROVE  Money(M) = Money(L) + leaf.Amount
<1>1. IsMap(M, Addresses, Leaf) /\ DOMAIN M = DOMAIN L \cup {s}
  BY DEF IsMap
<1>2. M[s] = leaf /\ \A a \in DOMAIN L : M[a] = L[a]
  OBVIOUS
<1>3. /\ \A a \in DOMAIN M : Amounts(M)[a] \in Int
      /\ \A a \in DOMAIN L : Amounts(L)[a] \in Int /\ Amounts(M)[a] = Amounts(L)[a]
  BY <1>1, <1>2, MoneySum
<1>4. SumOver(Amounts(M), DOMAIN M) = Amounts(M)[s] + SumOver(Amounts(M), DOMAIN L)
  BY <1>1, <1>3, MoneySum, SumAdd
<1>5. SumOver(Amounts(M), DOMAIN L) = SumOver(Amounts(L), DOMAIN L)
  BY <1>3, MoneySum, SumAlike
<1>6. Amounts(M)[s] = leaf.Amount /\ leaf.Amount \in Int
  BY <1>1, <1>2, MoneySum
<1> QED
  BY <1>1, <1>4, <1>5, <1>6, MoneySum

\* The money of two maps with nothing in common.
LEMMA MoneyJoined ==
    ASSUME NEW L, IsMap(L, Addresses, Leaf), NEW P, IsMap(P, Addresses, Leaf),
           DOMAIN L \cap DOMAIN P = {},
           NEW M, M = [a \in DOMAIN L \cup DOMAIN P |-> IF a \in DOMAIN L THEN L[a] ELSE P[a]]
    PROVE  Money(M) = Money(L) + Money(P)
<1>1. IsMap(M, Addresses, Leaf) /\ DOMAIN M = DOMAIN L \cup DOMAIN P
  BY DEF IsMap
<1>2. (\A a \in DOMAIN P : M[a] = P[a]) /\ \A a \in DOMAIN L : M[a] = L[a]
  OBVIOUS
<1>3. /\ \A a \in DOMAIN M : Amounts(M)[a] \in Int
      /\ \A a \in DOMAIN L : Amounts(L)[a] \in Int /\ Amounts(M)[a] = Amounts(L)[a]
      /\ \A a \in DOMAIN P : Amounts(P)[a] \in Int /\ Amounts(M)[a] = Amounts(P)[a]
  BY <1>1, <1>2, MoneySum
<1>4. SumOver(Amounts(M), DOMAIN M)
        = SumOver(Amounts(M), DOMAIN L) + SumOver(Amounts(M), DOMAIN P)
  BY <1>1, <1>3, MoneySum, SumUnion
<1>5. /\ SumOver(Amounts(M), DOMAIN L) = SumOver(Amounts(L), DOMAIN L)
      /\ SumOver(Amounts(M), DOMAIN P) = SumOver(Amounts(P), DOMAIN P)
  BY <1>3, MoneySum, SumAlike
<1> QED
  BY <1>1, <1>4, <1>5, MoneySum

-----------------------------------------------------------------------------
\* Summands that are the same but for multiples of c.
LEMMA SumSame ==
    ASSUME NEW W \in Int, NEW S, IsFiniteSet(S), NEW f, NEW e, NEW n, NEW c \in Int,
           \A x \in S : /\ f[x] \in Int /\ e[x] \in Int /\ n[x] \in Int
                        /\ Same(W, f[x], e[x] + n[x] * c)
    PROVE  Same(W, SumOver(f, S), SumOver(e, S) + SumOver(n, S) * c)
<1> DEFINE Good(U) == Same(W, SumOver(f, U), SumOver(e, U) + SumOver(n, U) * c)
           Bad == {U \in SUBSET S : ~Good(U)}
<1>1. SUFFICES ASSUME Bad # {} PROVE FALSE
  BY DEF Bad
<1>2. \A U \in Bad : IsFiniteSet(U)
  BY FS_Subset
<1> HIDE DEF Good
<1>3. PICK U \in Bad : \A V \in Bad : Cardinality(U) <= Cardinality(V)
  BY <1>1, <1>2, Smallest
<1>4. IsFiniteSet(U) /\ U \subseteq S /\ ~Good(U)
  BY <1>2
<1>5. U # {}
  <2>1. SumOver(f, {}) = 0 /\ SumOver(e, {}) = 0 /\ SumOver(n, {}) = 0
    BY FS_EmptySet, SumRemove
  <2>2. 0 + 0 * c = 0 /\ Same(W, 0, 0)
    BY SameSelf
  <2>3. Good({})
    BY <2>1, <2>2 DEF Good
  <2> QED
    BY <1>4, <2>3
<1>6. PICK y \in U : TRUE
  BY <1>5
<1>7. PICK V : V = U \ {y}
  OBVIOUS
<1>8. Cardinality(V) = Cardinality(U) - 1 /\ Cardinality(U) \in Nat /\ IsFiniteSet(V)
  BY <1>4, <1>7, FS_RemoveElement, FS_CardinalityType
<1>9. Good(V)
  <2>1. V \notin Bad
    <3> HIDE DEF Bad
    <3> QED
      BY <1>3, <1>8
  <2> QED
    BY <1>4, <1>7, <2>1
<1>10. /\ \A x \in U : f[x] \in Int /\ e[x] \in Int /\ n[x] \in Int
       /\ \A x \in V : f[x] \in Int /\ e[x] \in Int /\ n[x] \in Int
       /\ Same(W, f[y], e[y] + n[y] * c)
  BY <1>4, <1>7
<1>11. /\ SumOver(f, U) = f[y] + SumOver(f, V) /\ SumOver(e, U) = e[y] + SumOver(e, V)
       /\ SumOver(n, U) = n[y] + SumOver(n, V)
       /\ SumOver(f, V) \in Int /\ SumOver(e, V) \in Int /\ SumOver(n, V) \in Int
  BY <1>4, <1>7, <1>8, <1>10, SumRemove
<1>12. PICK i : i = e[y] + n[y] * c
  OBVIOUS
<1>13. PICK j : j = SumOver(e, V) + SumOver(n, V) * c
  OBVIOUS
<1>14. f[y] \in Int /\ e[y] \in Int /\ n[y] \in Int /\ i \in Int /\ j \in Int
  BY <1>10, <1>11, <1>12, <1>13, SMTT(30)
<1>15. Same(W, f[y], i) /\ Same(W, SumOver(f, V), j)
  BY <1>9, <1>10, <1>12, <1>13 DEF Good
<1>16. Same(W, f[y] + SumOver(f, V), i + j)
  BY ONLY <1>11, <1>14, <1>15, W \in Int, SameSum
<1>17. i + j = (e[y] + SumOver(e, V)) + (n[y] + SumOver(n, V)) * c
  BY ONLY <1>11, <1>12, <1>13, <1>14, c \in Int, SMTT(30)
<1> QED
  BY <1>4, <1>11, <1>16, <1>17 DEF Good

\* Counting the places of a list by what is there.
LEMMA SumOccurrences ==
    ASSUME NEW p \in Seq(Addresses), NEW S, IsFiniteSet(S), NEW n,
           \A a \in S : n[a] = Occurrences(p, a), \A i \in DOMAIN p : p[i] \in S
    PROVE  SumOver(n, S) = Len(p)
<1> DEFINE At(U) == {i \in DOMAIN p : p[i] \in U}
           Bad == {U \in SUBSET S : SumOver(n, U) # Cardinality(At(U))}
<1>1. \A U : IsFiniteSet(At(U)) /\ Cardinality(At(U)) \in Nat
  <2>1. DOMAIN p = 1 .. Len(p) /\ IsFiniteSet(1 .. Len(p))
    BY FS_Interval
  <2> TAKE U
  <2>2. At(U) \subseteq 1 .. Len(p)
    BY <2>1
  <2>3. IsFiniteSet(At(U))
    BY <2>1, <2>2, FS_Subset
  <2> QED
    BY <2>3, FS_CardinalityType
<1>2. At(S) = 1 .. Len(p) /\ Len(p) \in Nat /\ Cardinality(1 .. Len(p)) = Len(p)
  <2>1. DOMAIN p = 1 .. Len(p) /\ Len(p) \in Nat
    OBVIOUS
  <2>3. At(S) = DOMAIN p
    OBVIOUS
  <2>2. Cardinality(1 .. Len(p)) = Len(p)
    BY <2>1, FS_Interval
  <2> QED
    BY ONLY <2>1, <2>2, <2>3
<1>3. SUFFICES ASSUME Bad # {} PROVE FALSE
  <2>1. SumOver(n, S) = Cardinality(At(S))
    BY <1>3
  <2> QED
    BY <1>2, <2>1
<1>4. \A U \in Bad : IsFiniteSet(U)
  BY FS_Subset
<1>5. PICK U \in Bad : \A V \in Bad : Cardinality(U) <= Cardinality(V)
  BY <1>3, <1>4, Smallest
<1>6. IsFiniteSet(U) /\ U \subseteq S /\ SumOver(n, U) # Cardinality(At(U))
  BY <1>4
<1>7. U # {}
  <2>1. SumOver(n, {}) = 0 /\ At({}) = {} /\ Cardinality({}) = 0
    BY FS_EmptySet, SumRemove
  <2> QED
    BY <1>6, <2>1
<1>8. PICK y \in U : TRUE
  BY <1>7
<1>9. PICK V : V = U \ {y}
  OBVIOUS
<1>10. Cardinality(V) = Cardinality(U) - 1 /\ Cardinality(U) \in Nat /\ IsFiniteSet(V)
  BY <1>6, <1>9, FS_RemoveElement, FS_CardinalityType
<1>11. SumOver(n, V) = Cardinality(At(V))
  <2>1. V \notin Bad
    <3> HIDE DEF Bad
    <3> QED
      BY <1>5, <1>10
  <2> QED
    BY <1>6, <1>9, <2>1
<1>12. /\ \A a \in U : n[a] \in Int
       /\ n[y] = Cardinality(At({y}))
  <2>1. \A a \in U : n[a] = Occurrences(p, a) /\ n[a] \in Int
    BY <1>6, OccurrencesType
  <2>2. {i \in DOMAIN p : p[i] = y} = At({y})
    OBVIOUS
  <2>3. Occurrences(p, y) = Cardinality(At({y}))
    BY <2>2 DEF Occurrences
  <2> QED
    BY <1>8, <2>1, <2>3
<1>13. SumOver(n, U) = n[y] + SumOver(n, V)
  BY <1>6, <1>9, <1>12, SumRemove
<1>14. At(U) = At(V) \cup At({y}) /\ At(V) \cap At({y}) = {}
  BY <1>9
<1> HIDE DEF At
<1>15. Cardinality(At(U)) = Cardinality(At(V)) + Cardinality(At({y}))
  <2>1. PICK T : T = At(V)
    OBVIOUS
  <2>2. PICK W : W = At({y})
    OBVIOUS
  <2>3. IsFiniteSet(T) /\ IsFiniteSet(W) /\ Cardinality(T) \in Nat /\ Cardinality(W) \in Nat
    BY <1>1, <2>1, <2>2
  <2>4. Cardinality(T \cup W) = Cardinality(T) + Cardinality(W) - Cardinality(T \cap W)
    BY <2>3, FS_Union
  <2>5. T \cap W = {} /\ Cardinality({}) = 0 /\ At(U) = T \cup W
    BY <1>14, <2>1, <2>2, FS_EmptySet
  <2>6. Cardinality(T \cap W) = 0
    BY ONLY <2>5
  <2>7. Cardinality(T \cup W) = Cardinality(T) + Cardinality(W)
    BY ONLY <2>3, <2>4, <2>6
  <2> QED
    BY ONLY <2>1, <2>2, <2>5, <2>7
<1> QED
  BY <1>1, <1>6, <1>11, <1>12, <1>13, <1>15

-----------------------------------------------------------------------------
(***************************************************************************)
(* What each handler does to the sum of the accounts.                      *)
(***************************************************************************)
LEMMA RecordAmounts ==
    ASSUME NEW leaf \in Leaf, NEW amount \in UInt32, NEW fee \in UInt32, NEW W \in {0, Word}
    PROVE  /\ Exact(W, leaf.Amount - amount - fee) =>
                \A st : Same(W, Debited(leaf, amount, fee, st).Amount, leaf.Amount + (0 - amount - fee))
           /\ Exact(W, leaf.Amount + amount - fee) =>
                Same(W, Released(leaf, amount, fee).Amount, leaf.Amount + (amount - fee))
           /\ Exact(W, leaf.Amount + amount) =>
                Same(W, Credited(leaf, amount).Amount, leaf.Amount + amount)
           /\ Exact(W, leaf.Amount - fee) =>
                \A s, b : Same(W, Rekeyed(leaf, s, b, fee).Amount, leaf.Amount + (0 - fee))
           /\ \A s, b : NewLeaf(amount, s, b).Amount = amount
           /\ \A n \in Nat : Exact(W, leaf.Amount - n * (amount + fee)) =>
                \A st : /\ Same(W, Settled(leaf, n, amount, fee, st).Amount,
                                leaf.Amount + n * (0 - (amount + fee)))
                        /\ W = 0 => Settled(leaf, n, amount, fee, st).Amount
                                      = leaf.Amount - n * (amount + fee)
           /\ \A p \in Seq(Addresses) : Exact(W, leaf.Amount + amount * Len(p) - fee) =>
                Same(W, BatchCredited(leaf, p, amount, fee).Amount,
                     leaf.Amount + (amount * Len(p) - fee))
<1>1. amount \in Int /\ fee \in Int /\ leaf.Amount \in Int /\ W \in Int
  BY WordAssumption DEF UInt32, Leaf
<1>2. /\ \A m : [leaf EXCEPT !.Amount = m].Amount = m
      /\ \A m, n, st : Updated(leaf, m, n, st).Amount = m
  BY DEF Leaf, Updated
<1>3. ASSUME Exact(W, leaf.Amount - amount - fee)
      PROVE  \A st : Same(W, Debited(leaf, amount, fee, st).Amount, leaf.Amount + (0 - amount - fee))
  <2>1. /\ leaf.Amount - (amount + fee) = leaf.Amount + (0 - amount - fee)
        /\ leaf.Amount - (amount + fee) = leaf.Amount - amount - fee
        /\ leaf.Amount - (amount + fee) \in Int
    BY <1>1
  <2>2. Same(W, Wrap(leaf.Amount - (amount + fee)), leaf.Amount + (0 - amount - fee))
    BY <1>3, <2>1, WrapSame
  <2> QED
    BY <1>2, <2>2 DEF Debited, Minus
<1>4. ASSUME Exact(W, leaf.Amount + amount - fee)
      PROVE  Same(W, Released(leaf, amount, fee).Amount, leaf.Amount + (amount - fee))
  <2>1. leaf.Amount + amount - fee = leaf.Amount + (amount - fee)
    BY <1>1
  <2> QED
    BY <1>1, <1>2, <1>4, <2>1, WrapSame DEF Released
<1>5. ASSUME Exact(W, leaf.Amount + amount)
      PROVE  Same(W, Credited(leaf, amount).Amount, leaf.Amount + amount)
  <2>1. Credited(leaf, amount).Amount = Wrap(leaf.Amount + amount)
    BY DEF Credited, Plus, Leaf
  <2> QED
    BY <1>1, <1>5, <2>1, WrapSame
<1>6. ASSUME Exact(W, leaf.Amount - fee)
      PROVE  \A s, b : Same(W, Rekeyed(leaf, s, b, fee).Amount, leaf.Amount + (0 - fee))
  <2>1. \A s, b : Rekeyed(leaf, s, b, fee).Amount = Wrap(leaf.Amount - fee)
    BY DEF Rekeyed, Minus, Leaf
  <2>2. leaf.Amount - fee = leaf.Amount + (0 - fee)
    BY <1>1
  <2> QED
    BY <1>1, <1>6, <2>1, <2>2, WrapSame
<1>7. \A s, b : NewLeaf(amount, s, b).Amount = amount
  BY DEF NewLeaf
<1>8. ASSUME NEW n \in Nat, Exact(W, leaf.Amount - n * (amount + fee)), NEW st
      PROVE  /\ Same(W, Settled(leaf, n, amount, fee, st).Amount,
                     leaf.Amount + n * (0 - (amount + fee)))
             /\ W = 0 => Settled(leaf, n, amount, fee, st).Amount
                           = leaf.Amount - n * (amount + fee)
  <2>1. CASE n = 0
    <3>1. leaf.Amount + n * (0 - (amount + fee)) = leaf.Amount
          /\ leaf.Amount - n * (amount + fee) = leaf.Amount
      BY <1>1, <2>1
    <3> QED
      BY <1>1, <2>1, <3>1, SameSelf DEF Settled
  <2>2. CASE n # 0
    <3> DEFINE m == leaf.Amount - n * (amount + fee)
    <3>1. m \in Int
      BY <1>1
    <3>2. m = leaf.Amount + n * (0 - (amount + fee))
      BY <1>1, SMTT(30)
    <3>3. Settled(leaf, n, amount, fee, st).Amount = Wrap(m)
      BY <1>2, <2>2 DEF Settled
    <3> HIDE DEF m
    <3>4. Same(W, Wrap(m), m)
      BY <1>8, <3>1, WrapSame DEF m
    <3>5. W = 0 => Wrap(m) = m
      BY <1>8, WordAssumption, SMTT(30) DEF Exact, UInt32, Wrap, m
    <3> QED
      BY <3>2, <3>3, <3>4, <3>5 DEF m
  <2> QED
    BY <2>1, <2>2
<1>9. ASSUME NEW p \in Seq(Addresses), Exact(W, leaf.Amount + amount * Len(p) - fee)
      PROVE  Same(W, BatchCredited(leaf, p, amount, fee).Amount,
                  leaf.Amount + (amount * Len(p) - fee))
  <2>1. leaf.Amount + amount * Len(p) - fee \in Int
    BY <1>1
  <2>2. leaf.Amount + amount * Len(p) - fee = leaf.Amount + (amount * Len(p) - fee)
    BY <1>1, SMTT(30)
  <2> QED
    BY <1>2, <1>9, <2>1, <2>2, WrapSame DEF BatchCredited
<1> QED
  BY <1>3, <1>4, <1>5, <1>6, <1>7, <1>8, <1>9

\* Live maps addresses to records.
LEMMA LiveMap == ASSUME AccountsInv PROVE IsMap(Live, Addresses, Leaf)
<1>1. \A a \in DOMAIN accountTree : Live[a] \in Leaf
  BY DEF Live, fetchAccount, FromTree, AccountsInv, AccountsTypeOK, IsMap, CachedAccount
<1>2. DOMAIN Live = DOMAIN accountTree /\ DOMAIN accountTree \subseteq Addresses
  BY DEF Live, AccountsInv, AccountsTypeOK, IsMap
<1>3. Live = [a \in DOMAIN Live |-> Live[a]]
  BY DEF Live
<1> QED
  BY <1>1, <1>2, <1>3 DEF IsMap

\* One account is written, and c is the change of its amount.
LEMMA MoneyChanged ==
    ASSUME NEW W \in Int, NEW L, IsMap(L, Addresses, Leaf), NEW s \in DOMAIN L, NEW leaf \in Leaf,
           NEW c \in Int, Same(W, leaf.Amount, L[s].Amount + c)
    PROVE  /\ IsMap([L EXCEPT ![s] = leaf], Addresses, Leaf)
           /\ Money([L EXCEPT ![s] = leaf]) \in Int
           /\ Same(W, Money([L EXCEPT ![s] = leaf]), Money(L) + c)
<1>1. PICK M : M = [L EXCEPT ![s] = leaf]
  OBVIOUS
<1>2. IsMap(M, Addresses, Leaf) /\ Money(M) = Money(L) + leaf.Amount - L[s].Amount
  BY <1>1, MoneyWritten
<1>3. Money(L) \in Int /\ Money(M) \in Int /\ L[s].Amount \in Int
  BY <1>2, MoneySum
<1>4. PICK q \in Int : leaf.Amount = L[s].Amount + c + q * W
  BY DEF Same
<1>5. q * W \in Int
  OBVIOUS
<1>6. Money(M) = Money(L) + c + q * W
  BY ONLY <1>2, <1>3, <1>4, <1>5, c \in Int
<1>7. Same(W, Money(M), Money(L) + c)
  BY <1>6 DEF Same
<1> QED
  BY <1>1, <1>2, <1>3, <1>7

\* An update takes the amount and the fee.
LEMMA UpdateMoney ==
    ASSUME AccountsInv, NEW s \in Addresses, NEW T, NEW amount \in UInt32, NEW fee \in UInt32,
           NEW st \in States \cup {NoState}, ExecUpdate(s, T, amount, fee, st),
           NEW W \in {0, Word}, Exact(W, Live[s].Amount - amount - fee)
    PROVE  Same(W, Money(Live'), Money(Live) + (0 - amount - fee)) /\ UNCHANGED tempNewAccountMap
<1>0. W \in Int
  BY WordAssumption
<1>1. Abstract!Update(s, amount, fee, st)
  BY UpdateRefines
<1>2. s \in DOMAIN Live /\ Live' = [Live EXCEPT ![s] = Debited(Live[s], amount, fee, st)]
  BY <1>1, SameRecords DEF Abstract!Update, Abstract!CanPay
<1>3. IsMap(Live, Addresses, Leaf) /\ Live[s] \in Leaf
  BY <1>2, LiveMap DEF IsMap
<1>4. /\ Debited(Live[s], amount, fee, st) \in Leaf
      /\ Same(W, Debited(Live[s], amount, fee, st).Amount, Live[s].Amount + (0 - amount - fee))
  <2>1. PICK leaf : leaf = Live[s]
    OBVIOUS
  <2>2. leaf \in Leaf /\ Exact(W, leaf.Amount - amount - fee)
    BY <1>3, <2>1
  <2>3. Same(W, Debited(leaf, amount, fee, st).Amount, leaf.Amount + (0 - amount - fee))
    BY <2>2, RecordAmounts
  <2>4. Debited(leaf, amount, fee, st) \in Leaf
    BY <2>2, LeafOps
  <2> QED
    BY <2>1, <2>3, <2>4
<1>5. 0 - amount - fee \in Int
  BY WordAssumption DEF UInt32
<1> QED
  BY <1>0, <1>2, <1>3, <1>4, <1>5, MoneyChanged DEF ExecUpdate

\* A release adds its amount and takes the fee.
LEMMA ReleaseMoney ==
    ASSUME AccountsInv, NEW s \in Addresses, NEW amount \in UInt32, NEW fee \in UInt32,
           ExecRelease(s, amount, fee), NEW W \in {0, Word}, Exact(W, Live[s].Amount + amount - fee)
    PROVE  Same(W, Money(Live'), Money(Live) + (amount - fee)) /\ UNCHANGED tempNewAccountMap
<1>0. W \in Int
  BY WordAssumption
<1>1. Abstract!Release(s, amount, fee)
  BY ReleaseRefines
<1>2. s \in DOMAIN Live /\ Live' = [Live EXCEPT ![s] = Released(Live[s], amount, fee)]
  BY <1>1, SameRecords DEF Abstract!Release, Abstract!CanPay
<1>3. IsMap(Live, Addresses, Leaf) /\ Live[s] \in Leaf
  BY <1>2, LiveMap DEF IsMap
<1>4. /\ Released(Live[s], amount, fee) \in Leaf
      /\ Same(W, Released(Live[s], amount, fee).Amount, Live[s].Amount + (amount - fee))
  BY <1>3, LeafOps, RecordAmounts
<1>5. amount - fee \in Int
  BY WordAssumption DEF UInt32
<1> QED
  BY <1>0, <1>2, <1>3, <1>4, <1>5, MoneyChanged DEF ExecRelease

\* A change of keys takes the fee.
LEMMA KeyChangeMoney ==
    ASSUME AccountsInv, NEW s \in Addresses, NEW key \in Keys, NEW b \in BlsKeys,
           NEW fee \in UInt32, ExecAccountKeyChanger(s, key, b, fee),
           NEW W \in {0, Word}, Exact(W, Live[s].Amount - fee)
    PROVE  Same(W, Money(Live'), Money(Live) + (0 - fee)) /\ UNCHANGED tempNewAccountMap
<1>0. W \in Int
  BY WordAssumption
<1>1. Abstract!ChangeKeys(s, key, b, fee)
  BY KeyChangeRefines
<1>2. s \in DOMAIN Live /\ Live' = [Live EXCEPT ![s] = Rekeyed(Live[s], key, b, fee)]
  BY <1>1, SameRecords DEF Abstract!ChangeKeys, Abstract!CanPay
<1>3. IsMap(Live, Addresses, Leaf) /\ Live[s] \in Leaf
  BY <1>2, LiveMap DEF IsMap
<1>4. /\ Rekeyed(Live[s], key, b, fee) \in Leaf
      /\ Same(W, Rekeyed(Live[s], key, b, fee).Amount, Live[s].Amount + (0 - fee))
  BY <1>3, LeafOps, RecordAmounts
<1>5. 0 - fee \in Int
  BY WordAssumption DEF UInt32
<1> QED
  BY <1>0, <1>2, <1>3, <1>4, <1>5, MoneyChanged DEF ExecAccountKeyChanger

\* A transfer takes the fee: one account pays what the other gets, also to itself.
LEMMA TransferMoney ==
    ASSUME AccountsInv, NEW s \in Addresses, NEW t \in Addresses, NEW amount \in UInt32,
           NEW fee \in UInt32, NEW st \in States \cup {NoState},
           ExecTransfer(s, t, amount, fee, st),
           NEW W \in {0, Word}, Exact(W, Live[s].Amount - amount - fee),
           Exact(W, amount + IF t = s THEN Live[s].Amount - amount - fee ELSE Live[t].Amount)
    PROVE  Same(W, Money(Live'), Money(Live) + (0 - fee)) /\ UNCHANGED tempNewAccountMap
<1>0. W \in Int
  BY WordAssumption
<1>1. Abstract!Transfer(s, t, amount, fee, st)
  BY TransferRefines
<1>2. PICK paid : paid = [Live EXCEPT ![s] = Debited(Live[s], amount, fee, st)]
  OBVIOUS
<1>3. /\ s \in DOMAIN Live /\ t \in DOMAIN Live /\ t \in DOMAIN paid
      /\ Live' = [paid EXCEPT ![t] = Credited(paid[t], amount)]
  BY <1>1, <1>2, SameRecords DEF Abstract!Transfer, Abstract!CanPay
<1>4. IsMap(Live, Addresses, Leaf) /\ Live[s] \in Leaf
  BY <1>3, LiveMap DEF IsMap
<1>5. /\ Debited(Live[s], amount, fee, st) \in Leaf
      /\ Same(W, Debited(Live[s], amount, fee, st).Amount, Live[s].Amount + (0 - amount - fee))
  <2>1. PICK leaf : leaf = Live[s]
    OBVIOUS
  <2>2. leaf \in Leaf /\ Exact(W, leaf.Amount - amount - fee)
    BY <1>4, <2>1
  <2>3. Same(W, Debited(leaf, amount, fee, st).Amount, leaf.Amount + (0 - amount - fee))
    BY <2>2, RecordAmounts
  <2>4. Debited(leaf, amount, fee, st) \in Leaf
    BY <2>2, LeafOps
  <2> QED
    BY <2>1, <2>3, <2>4
<1>6. amount \in Int /\ fee \in Int /\ 0 - amount - fee \in Int /\ 0 - fee \in Int
  BY WordAssumption DEF UInt32
<1>7. /\ IsMap(paid, Addresses, Leaf) /\ Money(paid) \in Int /\ Money(Live) \in Int
      /\ Same(W, Money(paid), Money(Live) + (0 - amount - fee))
  BY <1>0, <1>2, <1>3, <1>4, <1>5, <1>6, MoneyChanged, MoneySum
<1>8. paid[t] \in Leaf
  BY <1>3, <1>7 DEF IsMap
<1>14. Exact(W, paid[t].Amount + amount)
  <2>1. CASE W # 0
    BY <2>1 DEF Exact
  <2>2. CASE W = 0
    <3>1. Debited(Live[s], amount, fee, st).Amount = Live[s].Amount - amount - fee
      <4>1. Debited(Live[s], amount, fee, st).Amount = Wrap(Live[s].Amount - (amount + fee))
        BY <1>4 DEF Debited, Updated, Minus, Leaf
      <4>2. Live[s].Amount \in Int /\ Live[s].Amount - (amount + fee) = Live[s].Amount - amount - fee
        BY <1>4, <1>6, WordAssumption DEF Leaf, UInt32
      <4>3. Wrap(Live[s].Amount - amount - fee) = Live[s].Amount - amount - fee
        BY <2>2, WrapOnce DEF Exact
      <4> QED
        BY <4>1, <4>2, <4>3
    <3>2. paid[t].Amount = IF t = s THEN Live[s].Amount - amount - fee ELSE Live[t].Amount
      BY <1>2, <1>3, <3>1
    <3>3. paid[t].Amount \in Int
      BY <1>8, WordAssumption DEF Leaf, UInt32
    <3>4. paid[t].Amount + amount = amount + paid[t].Amount
      BY <1>6, <3>3
    <3> QED
      BY <3>2, <3>4
  <2> QED
    BY <2>1, <2>2
<1>9. Credited(paid[t], amount) \in Leaf
      /\ Same(W, Credited(paid[t], amount).Amount, paid[t].Amount + amount)
  BY <1>8, <1>14, LeafOps, RecordAmounts
<1>10. Money(Live') \in Int /\ Same(W, Money(Live'), Money(paid) + amount)
  BY <1>0, <1>3, <1>6, <1>7, <1>9, MoneyChanged
<1>11. Same(W, Money(paid) + amount, Money(Live) + (0 - amount - fee) + amount)
  BY <1>0, <1>6, <1>7, SameSelf, SameSum
<1>12. Money(Live) + (0 - amount - fee) + amount = Money(Live) + (0 - fee)
  BY ONLY <1>6, <1>7
<1>13. Same(W, Money(Live'), Money(Live) + (0 - fee))
  BY ONLY <1>0, <1>6, <1>7, <1>10, <1>11, <1>12, SameTrans
<1> QED
  BY <1>13 DEF ExecTransfer

\* The account opened has the amount its source has lost.
LEMMA CreateMoney ==
    ASSUME AccountsInv, NEW s \in Addresses, NEW amount \in UInt32, NEW fee \in UInt32,
           NEW key \in Keys, NEW b \in BlsKeys, ExecCreateAccount(s, amount, fee, key, b),
           NEW W \in {0, Word}, Exact(W, Live[s].Amount - amount - fee)
    PROVE  /\ Same(W, Money(Live'), Money(Live) + (0 - amount - fee))
           /\ Money(tempNewAccountMap') = Money(tempNewAccountMap) + amount
<1>0. W \in Int
  BY WordAssumption
<1>1. Abstract!Open(s, amount, fee, key, b)
  BY CreateRefines
<1>2. s \in DOMAIN Live /\ Live' = [Live EXCEPT ![s] = Debited(Live[s], amount, fee, NoState)]
  BY <1>1, SameRecords DEF Abstract!Open, Abstract!CanPay
<1>3. IsMap(Live, Addresses, Leaf) /\ Live[s] \in Leaf
  BY <1>2, LiveMap DEF IsMap
<1>4. /\ Debited(Live[s], amount, fee, NoState) \in Leaf
      /\ Same(W, Debited(Live[s], amount, fee, NoState).Amount, Live[s].Amount + (0 - amount - fee))
  BY <1>3, LeafOps, RecordAmounts
<1>5. 0 - amount - fee \in Int
  BY WordAssumption DEF UInt32
<1>6. Same(W, Money(Live'), Money(Live) + (0 - amount - fee))
  BY <1>0, <1>2, <1>3, <1>4, <1>5, MoneyChanged
<1>7. PICK leaf : leaf = NewLeaf(amount, key, b)
  OBVIOUS
<1>8. leaf \in Leaf /\ leaf.Amount = amount
  BY <1>3, <1>7, LeafOps, RecordAmounts
<1>9. /\ accountNumOnDb \in Addresses
      /\ tempNewAccountMap' = [a \in DOMAIN tempNewAccountMap \cup {accountNumOnDb} |->
           IF a = accountNumOnDb THEN leaf ELSE tempNewAccountMap[a]]
  BY <1>7 DEF ExecCreateAccount
<1>10. accountNumOnDb \notin DOMAIN tempNewAccountMap /\ IsMap(tempNewAccountMap, Addresses, Leaf)
  <2>1. /\ DOMAIN tempNewAccountMap = Cardinality(DOMAIN accountTree) .. accountNumOnDb - 1
        /\ accountNumOnDb \in Int
    BY AccountsAssumption DEF AccountsInv, AddressesDense, AccountsTypeOK
  <2> QED
    BY <2>1 DEF AccountsInv, AccountsTypeOK
<1>11. PICK P : P = tempNewAccountMap
  OBVIOUS
<1>12. Money(tempNewAccountMap') = Money(P) + leaf.Amount
  BY <1>8, <1>9, <1>10, <1>11, MoneyAdded
<1> QED
  BY <1>6, <1>8, <1>11, <1>12

\* The participants of a batch, all of them known and counted, pay the amount
\* and a fee each time they are listed; the batcher is paid the amounts.
LEMMA BatchMoney ==
    ASSUME AccountsInv, NEW s \in Addresses, NEW p \in Seq(Addresses), NEW tail \in BOOLEAN,
           NEW amount \in UInt32, NEW fee \in UInt32, NEW st \in States \cup {NoState},
           ExecBatch(s, p, tail, amount, fee, st),
           tail, \A i \in DOMAIN p : Found(p[i]),
           NEW W \in {0, Word},
           \A a \in DOMAIN Live : Exact(W, Live[a].Amount - Occurrences(p, a) * (amount + fee)),
           Exact(W, Live[s].Amount - Occurrences(p, s) * (amount + fee) + amount * Len(p) - fee)
    PROVE  /\ Same(W, Money(Live'), Money(Live) + (0 - fee * (Len(p) + 1)))
           /\ UNCHANGED tempNewAccountMap
<1> DEFINE settled == [a \in DOMAIN Live |-> Settled(Live[a], Occurrences(p, a), amount, fee, st)]
           credited == BatchCredited(settled[s], p, amount, fee)
           n == [a \in DOMAIN Live |-> Occurrences(p, a)]
           c == 0 - (amount + fee)
<1>0. W \in Int
  BY WordAssumption
<1>1. s \in DOMAIN Live /\ Live' = [settled EXCEPT ![s] = credited]
  <2> DEFINE abstract == [a \in DOMAIN Live |-> Abstract!Settled(Live[a],
                  Abstract!Occurrences(Abstract!BatchMembers(p, tail), a), amount, fee, st)]
  <2>1. Abstract!Settle(s, p, tail, amount, fee, st)
    BY BatchRefines
  <2>2. /\ s \in DOMAIN Live
        /\ Live' = [abstract EXCEPT ![s] = Abstract!BatchCredited(abstract[s], p, amount, fee)]
    BY <2>1 DEF Abstract!Settle, Abstract!CanPay
  <2>3. BatchMembers(p, tail) = p
    BY DEF BatchMembers
  <2>4. abstract = settled
    BY <2>3, SameRecords
  <2> HIDE DEF abstract, settled
  <2> QED
    BY <2>2, <2>4, SameRecords
<1>2. /\ IsMap(Live, Addresses, Leaf) /\ IsFiniteSet(DOMAIN Live) /\ Money(Live) \in Int
      /\ Money(Live) = SumOver(Amounts(Live), DOMAIN Live)
      /\ \A a \in DOMAIN Live : Live[a] \in Leaf /\ Amounts(Live)[a] = Live[a].Amount
                             /\ Live[a].Amount \in Int
  <2>1. IsMap(Live, Addresses, Leaf)
    BY LiveMap
  <2>2. \A a \in DOMAIN Live : Live[a] \in Leaf
    BY <2>1 DEF IsMap
  <2> QED
    BY <2>1, <2>2, MoneySum
<1>3. amount \in Int /\ fee \in Int /\ c \in Int /\ Len(p) \in Int
  BY WordAssumption DEF UInt32
<1>4. \A a \in DOMAIN Live : n[a] = Occurrences(p, a) /\ n[a] \in Nat
  BY OccurrencesType
<1>5. SumOver(n, DOMAIN Live) = Len(p)
  <2>1. \A i \in DOMAIN p : p[i] \in DOMAIN Live
    BY DEF Found, Live, AccountsInv, CacheCoherent
  <2>2. PICK m : m = n
    OBVIOUS
  <2>3. \A a \in DOMAIN Live : m[a] = Occurrences(p, a)
    BY <1>4, <2>2
  <2>4. SumOver(m, DOMAIN Live) = Len(p)
    BY <1>2, <2>1, <2>3, SumOccurrences
  <2> QED
    BY <2>2, <2>4
<1> HIDE DEF c, n
<1>6. \A a \in DOMAIN Live : /\ Settled(Live[a], n[a], amount, fee, st) \in Leaf
                             /\ Same(W, Settled(Live[a], n[a], amount, fee, st).Amount,
                                     Live[a].Amount + n[a] * c)
                             /\ W = 0 => Settled(Live[a], n[a], amount, fee, st).Amount
                                           = Live[a].Amount - n[a] * (amount + fee)
  <2> TAKE a \in DOMAIN Live
  <2>1. PICK leaf : leaf = Live[a]
    OBVIOUS
  <2>2. PICK i : i = n[a]
    OBVIOUS
  <2>3. leaf \in Leaf /\ i \in Nat /\ Exact(W, leaf.Amount - i * (amount + fee))
    BY <1>2, <1>4, <2>1, <2>2
  <2>4. /\ Same(W, Settled(leaf, i, amount, fee, st).Amount, leaf.Amount + i * (0 - (amount + fee)))
        /\ W = 0 => Settled(leaf, i, amount, fee, st).Amount = leaf.Amount - i * (amount + fee)
    BY <2>3, RecordAmounts
  <2>5. Settled(leaf, i, amount, fee, st) \in Leaf
    BY <2>3, LeafOps
  <2> QED
    BY <2>1, <2>2, <2>4, <2>5 DEF c
<1>7. PICK S : S = settled
  OBVIOUS
<1>8. IsMap(S, Addresses, Leaf) /\ DOMAIN S = DOMAIN Live
      /\ \A a \in DOMAIN Live : /\ S[a] \in Leaf
                                /\ Same(W, S[a].Amount, Live[a].Amount + n[a] * c)
                                /\ W = 0 => S[a].Amount = Live[a].Amount - n[a] * (amount + fee)
  <2>1. DOMAIN S = DOMAIN Live /\ S = [a \in DOMAIN S |-> S[a]]
        /\ \A a \in DOMAIN Live : S[a] = Settled(Live[a], n[a], amount, fee, st)
    BY <1>4, <1>7
  <2> HIDE DEF settled
  <2>2. \A a \in DOMAIN S : S[a] \in Leaf
    BY <1>6, <2>1
  <2>3. DOMAIN S \subseteq Addresses
    BY <1>2, <2>1 DEF IsMap
  <2>4. IsMap(S, Addresses, Leaf)
    BY <2>1, <2>2, <2>3 DEF IsMap
  <2> QED
    BY <1>6, <2>1, <2>2, <2>4
<1>9. Money(S) \in Int /\ Same(W, Money(S), Money(Live) + Len(p) * c)
  <2>1. /\ Money(S) \in Int /\ Money(S) = SumOver(Amounts(S), DOMAIN Live)
        /\ \A a \in DOMAIN Live : Amounts(S)[a] = S[a].Amount /\ S[a].Amount \in Int
    BY <1>8, MoneySum
  <2>2. \A a \in DOMAIN Live : /\ Amounts(S)[a] \in Int /\ Amounts(Live)[a] \in Int /\ n[a] \in Int
                               /\ Same(W, Amounts(S)[a], Amounts(Live)[a] + n[a] * c)
    BY <1>2, <1>4, <1>8, <2>1
  <2>3. Same(W, SumOver(Amounts(S), DOMAIN Live),
             SumOver(Amounts(Live), DOMAIN Live) + SumOver(n, DOMAIN Live) * c)
    BY <1>0, <1>2, <1>3, <2>2, SumSame
  <2> QED
    BY <1>2, <1>5, <2>1, <2>3
<1>10. s \in DOMAIN S /\ S[s] \in Leaf
  BY <1>1, <1>8
<1>21. Exact(W, S[s].Amount + amount * Len(p) - fee)
  BY <1>1, <1>4, <1>8 DEF Exact
<1>11. /\ BatchCredited(S[s], p, amount, fee) \in Leaf
       /\ Same(W, BatchCredited(S[s], p, amount, fee).Amount, S[s].Amount + (amount * Len(p) - fee))
  BY <1>10, <1>21, LeafOps, RecordAmounts
<1>12. amount * Len(p) - fee \in Int /\ Len(p) * c \in Int /\ fee * (Len(p) + 1) \in Int
  BY <1>3, SMTT(30)
<1>13. /\ Money(Live') \in Int
       /\ Same(W, Money(Live'), Money(S) + (amount * Len(p) - fee))
  <2>1. Live' = [S EXCEPT ![s] = BatchCredited(S[s], p, amount, fee)]
    BY <1>1, <1>7
  <2> QED
    BY <1>0, <1>8, <1>10, <1>11, <1>12, <2>1, MoneyChanged
<1>14. PICK x : x = amount * Len(p) - fee
  OBVIOUS
<1>15. PICK y : y = Len(p) * c
  OBVIOUS
<1>16. x + y = 0 - fee * (Len(p) + 1) /\ x \in Int /\ y \in Int
  BY <1>3, <1>12, <1>14, <1>15, SMTT(30) DEF c
<1>17. Same(W, Money(S) + x, (Money(Live) + y) + x)
  <2>1. Same(W, Money(S), Money(Live) + y) /\ Same(W, x, x)
    BY <1>0, <1>9, <1>15, <1>16, SameSelf
  <2>2. Money(S) \in Int /\ Money(Live) + y \in Int
    BY ONLY <1>2, <1>9, <1>16
  <2> QED
    BY ONLY <1>0, <1>16, <2>1, <2>2, SameSum
<1>18. Same(W, Money(Live'), Money(S) + x)
  BY <1>13, <1>14
<1>19. (Money(Live) + y) + x = Money(Live) + (0 - fee * (Len(p) + 1))
  BY ONLY <1>2, <1>12, <1>16
<1>20. Same(W, Money(Live'), (Money(Live) + y) + x)
  BY ONLY <1>0, <1>2, <1>9, <1>13, <1>16, <1>17, <1>18, SameTrans
<1> QED
  BY <1>19, <1>20 DEF ExecBatch

\* A commit moves the accounts opened to those there are.
LEMMA CommitMoney ==
    ASSUME AccountsInv, CommitAccounts
    PROVE  /\ Money(Live') = Money(Live) + Money(tempNewAccountMap)
           /\ Money(tempNewAccountMap') = 0
<1>1. Abstract!Commit
  BY CommitRefines
<1>2. PICK L : L = Live
  OBVIOUS
<1>3. PICK P : P = tempNewAccountMap
  OBVIOUS
<1>4. Live' = [a \in DOMAIN L \cup DOMAIN P |-> IF a \in DOMAIN L THEN L[a] ELSE P[a]]
  BY <1>1, <1>2, <1>3 DEF Abstract!Commit
<1>5. IsMap(L, Addresses, Leaf) /\ IsMap(P, Addresses, Leaf)
  BY <1>2, <1>3, LiveMap DEF AccountsInv, AccountsTypeOK
<1>6. DOMAIN L \cap DOMAIN P = {}
  <2>1. PICK n : n = Cardinality(DOMAIN accountTree)
    OBVIOUS
  <2>2. DOMAIN L = 0 .. n - 1 /\ DOMAIN P = n .. accountNumOnDb - 1 /\ DOMAIN L = DOMAIN accountTree
    BY <1>2, <1>3, <2>1 DEF AccountsInv, AddressesDense, Live
  <2>3. n \in Nat
    BY <2>1, FiniteAddresses, FS_CardinalityType DEF AccountsInv, AccountsTypeOK, IsMap
  <2>4. accountNumOnDb \in Int
    BY AccountsAssumption DEF AccountsInv, AccountsTypeOK
  <2> QED
    BY ONLY <2>2, <2>3, <2>4
<1>7. PICK M : M = Live'
  OBVIOUS
<1>8. Money(M) = Money(L) + Money(P)
  BY <1>4, <1>5, <1>6, <1>7, MoneyJoined
<1>9. Money(tempNewAccountMap') = 0
  <2>1. tempNewAccountMap' = EmptyMap
    BY DEF CommitAccounts
  <2>2. PICK E : E = EmptyMap
    OBVIOUS
  <2>3. DOMAIN E = {} /\ IsMap(E, Addresses, Leaf)
    BY <2>2 DEF EmptyMap, IsMap
  <2>4. Money(E) = SumOver(Amounts(E), {})
    BY <2>3, MoneySum
  <2>5. SumOver(Amounts(E), {}) = 0
    BY FS_EmptySet, SumRemove
  <2> QED
    BY <2>1, <2>2, <2>4, <2>5
<1> QED
  BY <1>2, <1>3, <1>7, <1>8, <1>9

-----------------------------------------------------------------------------
(***************************************************************************)
(* Stakes and fees.                                                        *)
(***************************************************************************)
LEMMA PowerSum ==
    ASSUME ValidatorsTypeOK
    PROVE  /\ IsFiniteSet(DOMAIN validatorTree)
           /\ \A k \in DOMAIN validatorTree : validatorTree[k] \in Int
           /\ TotalPower(validatorTree) = SumOver(validatorTree, DOMAIN validatorTree)
           /\ TotalPower(validatorTree) \in Int
           /\ totalFees \in Int
<1>1. IsFiniteSet(DOMAIN validatorTree)
  BY GenesisPowersAssumption, FS_Subset DEF ValidatorsTypeOK, IsMap
<1>2. \A k \in DOMAIN validatorTree : validatorTree[k] \in Int
  BY DEF ValidatorsTypeOK, IsMap
<1>3. TotalPower(validatorTree) = SumOver(validatorTree, DOMAIN validatorTree)
  BY DEF TotalPower, SumOver
<1>4. totalFees \in Int
  BY WordAssumption DEF ValidatorsTypeOK, UInt32
<1> QED
  BY <1>1, <1>2, <1>3, <1>4, SumRemove

\* A fee collected is added.
LEMMA FeesMoney ==
    ASSUME ValidatorsTypeOK, NEW fee \in Nat, CollectFee(Wrap(fee)),
           NEW W \in {0, Word}, Exact(W, totalFees + fee)
    PROVE  totalFees' \in Int /\ Same(W, totalFees', totalFees + fee)
<1>1. totalFees \in UInt32 /\ totalFees \in Int /\ Wrap(fee) \in Int /\ W \in Int
  BY PowerSum, WrapType, WordAssumption DEF ValidatorsTypeOK, UInt32
<1>2. totalFees' = Wrap(totalFees + Wrap(fee))
  BY DEF CollectFee, Plus
<1>3. CASE W = 0
  <2>1. totalFees + fee \in UInt32
    BY <1>3 DEF Exact
  <2>2. fee \in UInt32
    BY <1>1, <2>1, WordAssumption DEF UInt32
  <2>3. totalFees' = totalFees + fee
    BY <1>2, <2>1, <2>2, WrapOnce
  <2> QED
    BY <1>1, <1>3, <2>3, SameSelf
<1>4. CASE W = Word
  <2>1. Word # 0 /\ \A n \in Int : Exact(W, n)
    BY <1>4, WordAssumption DEF Exact
  <2>2. Same(W, Wrap(fee), fee)
    BY <2>1, WrapSame
  <2>3. totalFees' \in Int /\ Same(W, totalFees', totalFees + Wrap(fee))
    BY <1>1, <1>2, <2>1, WrapSame
  <2>4. Same(W, totalFees + Wrap(fee), totalFees + fee)
    BY <1>1, <2>2, SameSelf, SameSum
  <2>5. totalFees + Wrap(fee) \in Int /\ totalFees + fee \in Int
    BY <1>1
  <2> QED
    BY ONLY <1>1, <2>3, <2>4, <2>5, SameTrans
<1> QED
  BY <1>3, <1>4

\* A stake adds its amount to the powers.
LEMMA StakeMoney ==
    ASSUME ValidatorsTypeOK, NEW k \in Keys, NEW amount \in UInt32, NEW fee \in UInt32,
           ExecStakeValidator(k, amount, fee), NEW W \in {0, Word}, Exact(W, totalFees + fee)
    PROVE  /\ TotalPower(validatorTree') = TotalPower(validatorTree) + amount
           /\ totalFees' \in Int /\ Same(W, totalFees', totalFees + fee)
<1>1. PICK tree : tree = validatorTree'
  OBVIOUS
<1>2. PICK old : old = validatorTree
  OBVIOUS
<1>3. /\ DOMAIN tree = DOMAIN old \cup {k}
      /\ tree[k] = StakeOf(k) + amount
      /\ \A j \in DOMAIN old : j # k => tree[j] = old[j]
  BY <1>1, <1>2 DEF ExecStakeValidator
<1>4. /\ IsFiniteSet(DOMAIN old) /\ \A j \in DOMAIN old : old[j] \in Int
      /\ TotalPower(old) = SumOver(old, DOMAIN old) /\ SumOver(old, DOMAIN old) \in Int
  BY <1>2, PowerSum
<1>5. amount \in Int /\ StakeOf(k) \in Int
  BY StakeType, WordAssumption DEF UInt32
<1>6. \A j \in DOMAIN tree : tree[j] \in Int
  BY <1>3, <1>4, <1>5
<1>7. SumOver(tree, DOMAIN tree) = SumOver(old, DOMAIN old) + amount
  <2>1. CASE k \in DOMAIN old
    <3>1. DOMAIN tree = DOMAIN old /\ old[k] = StakeOf(k)
      BY <1>2, <1>3, <2>1 DEF StakeOf
    <3>2. SumOver(tree, DOMAIN old) = SumOver(old, DOMAIN old) + tree[k] - old[k]
      BY <1>3, <1>4, <1>6, <2>1, <3>1, SumChange
    <3> QED
      BY <1>3, <1>4, <1>5, <3>1, <3>2
  <2>2. CASE k \notin DOMAIN old
    <3>1. StakeOf(k) = 0
      BY <1>2, <2>2 DEF StakeOf
    <3>2. SumOver(tree, DOMAIN old) = SumOver(old, DOMAIN old)
      BY <1>3, <1>4, <1>6, <2>2, SumAlike
    <3>3. SumOver(tree, DOMAIN tree) = tree[k] + SumOver(tree, DOMAIN old)
      BY <1>3, <1>4, <1>6, <2>2, SumAdd
    <3> QED
      BY <1>3, <1>4, <1>5, <3>1, <3>2, <3>3
  <2> QED
    BY <2>1, <2>2
<1>8. TotalPower(validatorTree') = TotalPower(validatorTree) + amount
  BY <1>1, <1>2, <1>4, <1>7 DEF TotalPower, SumOver
<1>9. totalFees' \in Int /\ Same(W, totalFees', totalFees + fee)
  <2>1. fee \in Nat /\ Wrap(fee) = fee
    BY WrapOnce, WordAssumption DEF UInt32
  <2> QED
    BY <2>1, FeesMoney DEF ExecStakeValidator
<1> QED
  BY <1>8, <1>9

\* A release takes the whole power of its key away.
LEMMA ReleaseStakeMoney ==
    ASSUME ValidatorsTypeOK, NEW k \in DOMAIN validatorTree, NEW fee \in UInt32,
           ExecReleaseValidator(k, fee), NEW W \in {0, Word}, Exact(W, totalFees + fee)
    PROVE  /\ TotalPower(validatorTree') = TotalPower(validatorTree) - validatorTree[k]
           /\ totalFees' \in Int /\ Same(W, totalFees', totalFees + fee)
<1>1. PICK tree : tree = validatorTree'
  OBVIOUS
<1>2. PICK old : old = validatorTree
  OBVIOUS
<1>3. /\ DOMAIN tree = DOMAIN old /\ k \in DOMAIN old
      /\ tree[k] = 0
      /\ \A j \in DOMAIN old : j # k => tree[j] = old[j]
  BY <1>1, <1>2 DEF ExecReleaseValidator
<1>4. /\ IsFiniteSet(DOMAIN old) /\ \A j \in DOMAIN old : old[j] \in Int
      /\ TotalPower(old) = SumOver(old, DOMAIN old) /\ SumOver(old, DOMAIN old) \in Int
  BY <1>2, PowerSum
<1>5. \A j \in DOMAIN old : tree[j] \in Int
  BY <1>3, <1>4
<1>6. SumOver(tree, DOMAIN old) = SumOver(old, DOMAIN old) + tree[k] - old[k]
  BY <1>3, <1>4, <1>5, SumChange
<1>7. TotalPower(tree) = SumOver(tree, DOMAIN old)
  BY <1>3 DEF TotalPower, SumOver
<1>8. TotalPower(validatorTree') = TotalPower(validatorTree) - validatorTree[k]
  BY <1>1, <1>2, <1>3, <1>4, <1>6, <1>7
<1>9. totalFees' \in Int /\ Same(W, totalFees', totalFees + fee)
  <2>1. fee \in Nat /\ Wrap(fee) = fee
    BY WrapOnce, WordAssumption DEF UInt32
  <2> QED
    BY <2>1, FeesMoney DEF ExecReleaseValidator
<1> QED
  BY <1>8, <1>9

\* Other transactions leave the powers alone.
LEMMA OthersMoney ==
    ASSUME ValidatorsTypeOK, NEW fee \in Nat, ExecOtherValidators(Wrap(fee)),
           NEW W \in {0, Word}, Exact(W, totalFees + fee)
    PROVE  /\ TotalPower(validatorTree') = TotalPower(validatorTree)
           /\ totalFees' \in Int /\ Same(W, totalFees', totalFees + fee)
BY FeesMoney DEF ExecOtherValidators, TotalPower

-----------------------------------------------------------------------------
(***************************************************************************)
(* The supply.                                                             *)
(***************************************************************************)
SupplyTypeOK ==
    /\ Money(Live) \in Int
    /\ Money(tempNewAccountMap) \in Int
    /\ TotalPower(validatorTree) \in Int
    /\ totalFees \in Int

\* In a node with the invariant the parts of the supply are numbers,
LEMMA SupplyTypes == NodeInv => SupplyTypeOK
<1> SUFFICES ASSUME NodeInv PROVE SupplyTypeOK
  OBVIOUS
<1>1. AccountsInv /\ ValidatorsTypeOK /\ IsMap(tempNewAccountMap, Addresses, Leaf)
  BY DEF NodeInv, ValidatorsInv, AccountsInv, AccountsTypeOK
<1> QED
  BY <1>1, LiveMap, MoneySum, PowerSum DEF SupplyTypeOK

\* and so they are after its steps.
LEMMA SupplyTypesPrimed == NodeInv' => SupplyTypeOK'
BY SupplyTypes, PTL

\* What one part loses another gains.
LEMMA Balance ==
    ASSUME NEW W \in Int, NEW m \in Int, NEW p \in Int, NEW t \in Int, NEW f \in Int,
           NEW m2 \in Int, NEW p2 \in Int, NEW t2 \in Int, NEW f2 \in Int,
           NEW a \in Int, NEW b \in Int, NEW c \in Int, NEW e \in Int,
           Same(W, m2, m + a), p2 = p + b, t2 = t + c, Same(W, f2, f + e), a + b + c + e = 0
    PROVE  Same(W, m2 + p2 + t2 + f2, m + p + t + f)
<1>1. PICK q \in Int : m2 = m + a + q * W
  BY DEF Same
<1>2. PICK r \in Int : f2 = f + e + r * W
  BY DEF Same
<1>3. PICK x : x = q * W
  OBVIOUS
<1>4. PICK y : y = r * W
  OBVIOUS
<1>5. x \in Int /\ y \in Int /\ x + y = (q + r) * W /\ q + r \in Int
  BY <1>3, <1>4, SMTT(30)
<1>6. m2 = m + a + x /\ f2 = f + e + y
  BY <1>1, <1>2, <1>3, <1>4
<1>7. m2 + p2 + t2 + f2 = (m + p + t + f) + (a + b + c + e) + (x + y)
  BY ONLY <1>5, <1>6, p2 = p + b, t2 = t + c, m \in Int, p \in Int, t \in Int, f \in Int,
          a \in Int, b \in Int, c \in Int, e \in Int
<1>8. m2 + p2 + t2 + f2 = (m + p + t + f) + (q + r) * W
  BY <1>5, <1>7
<1> QED
  BY <1>5, <1>8 DEF Same

\* Conserved: the supply is what it was; or, if something is cut to 32 bits, the
\* same modulo Word.
Conserved(W) == /\ W = 0 => Supply' = Supply
                /\ Wrap(Supply') = Wrap(Supply)

\* If the four changes of a step sum up to nothing, the supply is conserved.
LEMMA SupplySame ==
    ASSUME SupplyTypeOK, SupplyTypeOK', NEW W \in {0, Word},
           NEW a \in Int, NEW b \in Int, NEW c \in Int, NEW e \in Int,
           Same(W, Money(Live'), Money(Live) + a),
           Money(tempNewAccountMap') = Money(tempNewAccountMap) + b,
           TotalPower(validatorTree') = TotalPower(validatorTree) + c,
           Same(W, totalFees', totalFees + e),
           a + b + c + e = 0
    PROVE  Conserved(W)
<1>0. W \in Int
  BY WordAssumption
<1>1. Same(W, Money(Live') + Money(tempNewAccountMap') + TotalPower(validatorTree') + totalFees',
           Money(Live) + Money(tempNewAccountMap) + TotalPower(validatorTree) + totalFees)
  BY <1>0, Balance DEF SupplyTypeOK
<1>2. Supply \in Int /\ Supply' \in Int /\ Same(W, Supply', Supply)
  BY <1>1 DEF SupplyTypeOK, Supply
<1>3. CASE W = 0
  <2>1. PICK q \in Int : Supply' = Supply + q * W
    BY <1>2 DEF Same
  <2>2. Supply' = Supply
    BY <1>2, <1>3, <2>1
  <2> QED
    BY <2>2 DEF Conserved
<1>4. CASE W = Word
  <2>1. Wrap(Supply') = Wrap(Supply) /\ Word # 0
    BY <1>2, <1>4, SameWrap, WordAssumption
  <2> QED
    BY <1>4, <2>1 DEF Conserved
<1> QED
  BY <1>3, <1>4

\* A released stake is paid to the account, wrapped.
LEMMA ReleaseBoth ==
    ASSUME AccountsInv, ValidatorsTypeOK, NEW s \in Addresses, NEW k \in DOMAIN validatorTree,
           NEW fee \in UInt32, Money(Live) \in Int, Money(Live') \in Int,
           ExecRelease(s, Wrap(validatorTree[k]), fee),
           NEW W \in {0, Word}, Exact(W, validatorTree[k]),
           Exact(W, Live[s].Amount + validatorTree[k] - fee)
    PROVE  Same(W, Money(Live'), Money(Live) + (validatorTree[k] - fee))
<1>0. W \in Int
  BY WordAssumption
<1>1. PICK p : p = validatorTree[k]
  OBVIOUS
<1>2. p \in Int /\ fee \in Int
  BY <1>1, PowerSum, WordAssumption DEF UInt32
<1>3. PICK w : w = Wrap(p)
  OBVIOUS
<1>4. w \in UInt32 /\ w \in Int /\ Same(W, w, p)
  BY <1>1, <1>2, <1>3, WrapType, WrapSame, WordAssumption DEF UInt32
<1>11. W = 0 => w = p
  BY <1>1, <1>3, WrapOnce DEF Exact
<1>12. Exact(W, Live[s].Amount + w - fee)
  BY <1>1, <1>11 DEF Exact
<1>5. Same(W, Money(Live'), Money(Live) + (w - fee))
  BY <1>1, <1>3, <1>4, <1>12, ReleaseMoney
<1>6. PICK m : m = Money(Live) - fee
  OBVIOUS
<1>7. m \in Int /\ m + w = Money(Live) + (w - fee) /\ m + p = Money(Live) + (p - fee)
  BY ONLY <1>2, <1>4, <1>6, Money(Live) \in Int
<1>8. Same(W, m + w, m + p)
  BY <1>0, <1>2, <1>4, <1>7, SameSelf, SameSum
<1>9. m + w \in Int /\ m + p \in Int /\ Same(W, Money(Live'), m + w)
  BY <1>2, <1>4, <1>5, <1>7
<1>10. Same(W, Money(Live'), m + p)
  BY ONLY <1>0, <1>8, <1>9, SameTrans, Money(Live') \in Int
<1> QED
  BY <1>1, <1>7, <1>10

\* There are n numbers up to n.
LEMMA CountTo == \A n \in Nat : IsFiniteSet(1 .. n) /\ Cardinality(1 .. n) = n
<1>1. \A n \in Nat : 1 \in Int /\ n \in Int /\ (1 > n => n = 0) /\ n - 1 + 1 = n
  OBVIOUS
<1> QED
  BY <1>1, FS_Interval

\* What DeliverTx accepts moves money: accounts, stakes and fees change by amounts
\* that sum up to nothing, exactly when all results fit.
LEMMA AcceptConserves ==
    ASSUME RoomForTxs, NodeInv, NEW raw \in RawTxs, Accept(raw), Balanced(raw.data),
           NEW W \in {0, Word}, W = 0 => Fits(raw.data)
    PROVE  Conserved(W)
<1> DEFINE d == raw.data
           s == d.source
           fee == Fee(d)
           k == fetchAccount(s).schnorrPubKey
<1>1. SupplyTypeOK /\ SupplyTypeOK' /\ AccountsInv /\ ValidatorsTypeOK
  BY AcceptStep, SupplyTypes, SupplyTypesPrimed DEF NodeInv, ValidatorsInv
<1>2. d \in TxData /\ accountsCode(d) = 0 /\ selectTxType(d) # "none"
      /\ ExecAccounts(d) /\ ExecValidators(d)
  BY DeliveredCode DEF Accept, NodeInv, TxData
<1>0. W \in Int /\ \A n \in Results(d) : Exact(W, n)
  BY WordAssumption DEF Fits, Exact
<1> HIDE DEF d
<1>3. /\ s \in Addresses /\ k \in Keys /\ fee \in UInt32 /\ d.amount \in UInt32
      /\ d.state \in States \cup {NoState} /\ NoState \in States \cup {NoState}
      /\ d.schnorr \in Keys /\ d.bls \in BlsKeys
      /\ d.addresses \in Seq(Addresses) /\ d.tail \in BOOLEAN
  BY <1>1, <1>2, AccountsFound, FieldTypes, FetchedTypes
<1>4. fee \in Int /\ fee \in Nat /\ d.amount \in Int /\ fee = Wrap(fee) /\ 0 \in UInt32
  BY <1>3, WrapOnce, WordAssumption DEF UInt32
<1>5. selectTxType(d) \in {"update", "release", "stake", "transfer", "change",
                           "create", "batch", "contract"}
  BY <1>1, <1>2, KindOf, AccountsFound DEF Kinds
<1>6. ASSUME UNCHANGED tempNewAccountMap
      PROVE  Money(tempNewAccountMap') = Money(tempNewAccountMap) + 0
  BY <1>1, <1>6 DEF SupplyTypeOK
<1> HIDE DEF s, fee, k
<1>16. ASSUME selectTxType(d) \notin {"release", "batch"}
      PROVE  /\ Exact(W, totalFees + fee)
             /\ selectTxType(d) # "transfer" => Exact(W, Live[s].Amount - AmountOf(d) - fee)
  BY <1>0, <1>16 DEF Results, s, fee
<1>7. ASSUME selectTxType(d) \in {"update", "transfer", "change", "create", "contract"}
      PROVE  /\ TotalPower(validatorTree') = TotalPower(validatorTree) + 0
             /\ Same(W, totalFees', totalFees + fee)
  <2>1. ExecOtherValidators(Wrap(fee))
    BY <1>2, <1>4, <1>7 DEF ExecValidators, fee
  <2> QED
    BY <1>1, <1>4, <1>7, <1>16, <2>1, OthersMoney DEF SupplyTypeOK
<1>8. CASE selectTxType(d) = "update"
  <2>1. ExecUpdate(s, {}, 0, fee, d.state)
    BY <1>2, <1>8 DEF ExecAccounts, s, fee
  <2>2. Same(W, Money(Live'), Money(Live) + (0 - 0 - fee)) /\ UNCHANGED tempNewAccountMap
    <3>1. Exact(W, Live[s].Amount - 0 - fee)
      BY <1>8, <1>16 DEF AmountOf
    <3> QED
      BY <1>1, <1>3, <1>4, <2>1, <3>1, UpdateMoney
  <2>3. 0 - 0 - fee \in Int /\ (0 - 0 - fee) + 0 + 0 + fee = 0
    BY <1>4
  <2> QED
    BY <1>1, <1>4, <1>6, <1>7, <1>8, <2>2, <2>3, SupplySame
<1>9. CASE selectTxType(d) = "transfer"
  <2>1. ExecTransfer(s, d.target, d.amount, fee, d.state)
    BY <1>2, <1>9 DEF ExecAccounts, s, fee
  <2>2. d.target \in Addresses
    BY <1>1, <1>2, <1>9, AccountsFound DEF TargetsOf
  <2>3. Same(W, Money(Live'), Money(Live) + (0 - fee)) /\ UNCHANGED tempNewAccountMap
    <3>1. /\ Exact(W, Live[s].Amount - d.amount - fee)
          /\ Exact(W, d.amount + IF d.target = s THEN Live[s].Amount - d.amount - fee
                                                 ELSE Live[d.target].Amount)
      BY <1>0, <1>9 DEF Results, AmountOf, s, fee
    <3> QED
      BY <1>1, <1>3, <2>1, <2>2, <3>1, TransferMoney
  <2>4. 0 - fee \in Int /\ (0 - fee) + 0 + 0 + fee = 0
    BY <1>4
  <2> QED
    BY <1>1, <1>4, <1>6, <1>7, <1>9, <2>3, <2>4, SupplySame
<1>10. CASE selectTxType(d) = "change"
  <2>1. ExecAccountKeyChanger(s, d.schnorr, d.bls, fee)
    BY <1>2, <1>10 DEF ExecAccounts, s, fee
  <2>2. Same(W, Money(Live'), Money(Live) + (0 - fee)) /\ UNCHANGED tempNewAccountMap
    <3>1. s \in DOMAIN Live
      BY <1>1, <1>2, AccountsFound DEF Found, Live, AccountsInv, CacheCoherent, s
    <3>2. Live[s].Amount \in Int
      BY <1>1, <3>1, LiveMap, WordAssumption DEF IsMap, Leaf, UInt32
    <3>3. Exact(W, Live[s].Amount - 0 - fee) /\ Live[s].Amount - 0 - fee = Live[s].Amount - fee
      BY <1>4, <1>10, <1>16, <3>2 DEF AmountOf
    <3> QED
      BY <1>1, <1>3, <2>1, <3>3, KeyChangeMoney
  <2>3. 0 - fee \in Int /\ (0 - fee) + 0 + 0 + fee = 0
    BY <1>4
  <2> QED
    BY <1>1, <1>4, <1>6, <1>7, <1>10, <2>2, <2>3, SupplySame
<1>11. CASE selectTxType(d) = "contract"
  <2>1. ExecUpdate(s, {d.target}, 0, fee, NoState)
    BY <1>2, <1>11 DEF ExecAccounts, Balanced, s, fee, d
  <2>2. Same(W, Money(Live'), Money(Live) + (0 - 0 - fee)) /\ UNCHANGED tempNewAccountMap
    <3>1. Exact(W, Live[s].Amount - 0 - fee)
      BY <1>11, <1>16 DEF AmountOf, Balanced, d
    <3> QED
      BY <1>1, <1>3, <1>4, <2>1, <3>1, UpdateMoney
  <2>3. 0 - 0 - fee \in Int /\ (0 - 0 - fee) + 0 + 0 + fee = 0
    BY <1>4
  <2> QED
    BY <1>1, <1>4, <1>6, <1>7, <1>11, <2>2, <2>3, SupplySame
<1>12. CASE selectTxType(d) = "create"
  <2>1. ExecCreateAccount(s, d.amount, fee, d.schnorr, d.bls)
    BY <1>2, <1>12 DEF ExecAccounts, s, fee
  <2>2. /\ Same(W, Money(Live'), Money(Live) + (0 - d.amount - fee))
        /\ Money(tempNewAccountMap') = Money(tempNewAccountMap) + d.amount
    <3>1. Exact(W, Live[s].Amount - d.amount - fee)
      BY <1>12, <1>16 DEF AmountOf
    <3> QED
      BY <1>1, <1>3, <2>1, <3>1, CreateMoney
  <2>3. PICK m : m = 0 - d.amount - fee
    OBVIOUS
  <2>4. m \in Int /\ m + d.amount + 0 + fee = 0
    BY <1>4, <2>3
  <2>5. Same(W, Money(Live'), Money(Live) + m)
    BY <2>2, <2>3
  <2>6. PICK b : b = d.amount
    OBVIOUS
  <2>7. b \in Int /\ m + b + 0 + fee = 0
        /\ Money(tempNewAccountMap') = Money(tempNewAccountMap) + b
    BY <1>4, <2>2, <2>4, <2>6
  <2>8. /\ TotalPower(validatorTree') = TotalPower(validatorTree) + 0
        /\ Same(W, totalFees', totalFees + fee) /\ fee \in Int /\ 0 \in Int
    BY <1>4, <1>7, <1>12
  <2> QED
    BY ONLY W \in {0, Word}, <1>1, <2>4, <2>5, <2>7, <2>8, SupplySame
<1>13. CASE selectTxType(d) = "stake"
  <2>1. ExecUpdate(s, {}, d.amount, fee, NoState) /\ ExecStakeValidator(k, d.amount, fee)
    BY <1>2, <1>13 DEF ExecAccounts, ExecValidators, s, fee, k
  <2>2. Same(W, Money(Live'), Money(Live) + (0 - d.amount - fee)) /\ UNCHANGED tempNewAccountMap
    <3>1. Exact(W, Live[s].Amount - d.amount - fee)
      BY <1>13, <1>16 DEF AmountOf
    <3> QED
      BY <1>1, <1>3, <2>1, <3>1, UpdateMoney
  <2>3. /\ TotalPower(validatorTree') = TotalPower(validatorTree) + d.amount
        /\ Same(W, totalFees', totalFees + fee)
    BY <1>1, <1>3, <1>13, <1>16, <2>1, StakeMoney
  <2>4. 0 - d.amount - fee \in Int /\ (0 - d.amount - fee) + 0 + d.amount + fee = 0
    BY <1>4
  <2> QED
    BY <1>1, <1>4, <1>6, <2>2, <2>3, <2>4, SupplySame
<1>14. CASE selectTxType(d) = "release"
  <2>1. CASE k \in DOMAIN validatorTree
    <3>1. ExecRelease(s, Wrap(validatorTree[k]), fee) /\ ExecReleaseValidator(k, fee)
      BY <1>2, <1>14, <2>1 DEF ExecAccounts, ExecValidators, s, fee, k
    <3>0. /\ Exact(W, totalFees + fee) /\ Exact(W, validatorTree[k])
          /\ Exact(W, Live[s].Amount + validatorTree[k] - fee)
      BY <1>0, <1>14, <2>1 DEF Results, StakeOf, s, fee, k
    <3>2. Same(W, Money(Live'), Money(Live) + (validatorTree[k] - fee)) /\ UNCHANGED tempNewAccountMap
      BY <1>1, <1>3, <2>1, <3>0, <3>1, ReleaseBoth DEF SupplyTypeOK, ExecRelease
    <3>3. PICK p : p = validatorTree[k]
      OBVIOUS
    <3>4. /\ TotalPower(validatorTree') = TotalPower(validatorTree) - p
          /\ Same(W, totalFees', totalFees + fee) /\ p \in Int
      BY <1>1, <1>3, <2>1, <3>0, <3>1, <3>3, ReleaseStakeMoney, PowerSum
    <3>5. PICK m : m = p - fee
      OBVIOUS
    <3>6. PICK c : c = 0 - p
      OBVIOUS
    <3>7. m \in Int /\ c \in Int /\ m + 0 + c + fee = 0
          /\ TotalPower(validatorTree') = TotalPower(validatorTree) + c
      BY <1>1, <1>4, <3>4, <3>5, <3>6 DEF SupplyTypeOK
    <3>8. Same(W, Money(Live'), Money(Live) + m)
      BY <3>2, <3>3, <3>5
    <3>9. /\ Money(tempNewAccountMap') = Money(tempNewAccountMap) + 0
          /\ Same(W, totalFees', totalFees + fee) /\ fee \in Int /\ 0 \in Int
      BY <1>4, <1>6, <3>2, <3>4
    <3> QED
      BY ONLY W \in {0, Word}, <1>1, <3>7, <3>8, <3>9, SupplySame
  <2>2. CASE k \notin DOMAIN validatorTree
    <3>1. Fetch({s}) /\ UNCHANGED validatorsVars
      BY <1>2, <1>14, <2>2 DEF ExecAccounts, ExecValidators, ExecReleaseValidator, s, fee, k
    <3> QED
      BY <1>1, <3>1, FetchRefines DEF Supply, validatorsVars, Conserved
  <2> QED
    BY <2>1, <2>2
<1>15. CASE selectTxType(d) = "batch"
  <2>1. ExecBatch(s, d.addresses, d.tail, d.amount, fee, d.state)
    BY <1>2, <1>15 DEF ExecAccounts, s, fee
  <2>2. PICK p : p = d.addresses
    OBVIOUS
  <2>3. Members(d) = p /\ d.tail /\ \A i \in DOMAIN p : Found(p[i])
    BY <1>15, <2>2 DEF Balanced, Members, BatchMembers, d
  <2>4. /\ Same(W, Money(Live'), Money(Live) + (0 - fee * (Len(p) + 1)))
        /\ UNCHANGED tempNewAccountMap
    <3>1. /\ \A a \in DOMAIN Live : Exact(W, Live[a].Amount - Occurrences(p, a) * (d.amount + fee))
          /\ s \in DOMAIN Live => Exact(W, Live[s].Amount - Occurrences(p, s) * (d.amount + fee)
                                             + d.amount * Len(p) - fee)
      <4> DEFINE settled == [a \in DOMAIN Live |->
                               Live[a].Amount - Occurrences(p, a) * (d.amount + fee)]
      <4>1. Results(d) = {totalFees + fee * (Charged(d) + 1),
                          settled[s] + d.amount * Len(p) - fee} \cup {settled[a] : a \in DOMAIN Live}
        BY <1>15, <2>2, <2>3 DEF Results, s, fee
      <4>2. Exact(W, settled[s] + d.amount * Len(p) - fee) /\ \A a \in DOMAIN Live : Exact(W, settled[a])
        BY <1>0, <4>1
      <4> QED
        BY <4>2
    <3>2. s \in DOMAIN Live
      BY <1>1, <1>2, AccountsFound DEF Found, Live, AccountsInv, CacheCoherent, s
    <3> QED
      BY <1>1, <1>3, <2>1, <2>2, <2>3, <3>1, <3>2, BatchMoney
  <2>5. Charged(d) = Len(p) /\ Len(p) \in Int
    <3>1. DOMAIN p = 1 .. Len(p) /\ Len(p) \in Nat
      BY <1>3, <2>2
    <3>2. {i \in DOMAIN Members(d) : Found(Members(d)[i])} = 1 .. Len(p)
      <4>1. DOMAIN Members(d) = 1 .. Len(p)
        BY <2>3, <3>1
      <4>2. \A i \in DOMAIN Members(d) : Found(Members(d)[i])
        BY <2>3, Zenon
      <4> QED
        BY ONLY <4>1, <4>2
    <3>3. Charged(d) = Cardinality(1 .. Len(p))
      BY <3>2 DEF Charged
    <3>4. Cardinality(1 .. Len(p)) = Len(p)
      BY <3>1, CountTo
    <3> QED
      BY <3>1, <3>3, <3>4
  <2>6. PICK x : x = fee * (Len(p) + 1)
    OBVIOUS
  <2>7. x \in Int /\ x \in Nat /\ 0 - x \in Int /\ (0 - x) + 0 + 0 + x = 0
    <3>1. Len(p) + 1 \in Nat
      BY <1>3, <2>2
    <3>2. \A i, j \in Nat : i * j \in Nat
      BY SMTT(30)
    <3> QED
      BY <1>4, <2>6, <3>1, <3>2
  <2>10. Exact(W, totalFees + x)
    BY <1>0, <1>15, <2>5, <2>6 DEF Results, fee
  <2>8. ExecOtherValidators(Wrap(x))
    BY <1>2, <1>15, <2>5, <2>6 DEF ExecValidators, fee
  <2>9. /\ TotalPower(validatorTree') = TotalPower(validatorTree) + 0
        /\ Same(W, totalFees', totalFees + x)
    BY <1>1, <2>7, <2>8, <2>10, OthersMoney DEF SupplyTypeOK
  <2>11. PICK m : m = 0 - x
    OBVIOUS
  <2>12. m \in Int /\ m + 0 + 0 + x = 0 /\ Same(W, Money(Live'), Money(Live) + m)
    BY <2>4, <2>6, <2>7, <2>11
  <2> QED
    BY <1>1, <1>6, <2>4, <2>7, <2>9, <2>12, SupplySame
<1> QED
  BY <1>5, <1>8, <1>9, <1>10, <1>11, <1>12, <1>13, <1>14, <1>15

\* Fetching leaves the money where it is.
LEMMA FetchMoney ==
    ASSUME AccountsInv, NEW A, Fetch(A), UNCHANGED validatorsVars
    PROVE  Supply' = Supply
<1>1. Live' = Live /\ tempNewAccountMap' = tempNewAccountMap
  BY FetchRefines
<1> QED
  BY <1>1 DEF Supply, validatorsVars

\* A query of two bytes too.
LEMMA QueryMoney ==
    ASSUME NodeInv, Query
    PROVE  Supply' = Supply
<1>1. ((\E A : Fetch(A)) \/ ToggleAccountWatch) /\ UNCHANGED validatorsVars
  BY DEF Query, FindAccountByPubKey, chainVars
<1>2. CASE \E A : Fetch(A)
  BY <1>1, <1>2, FetchMoney DEF NodeInv
<1>3. CASE ToggleAccountWatch
  <2>1. UNCHANGED <<accountTree, tempAccountMap, tempNewAccountMap>>
    BY <1>3 DEF ToggleAccountWatch
  <2>2. Live' = Live
    BY <2>1 DEF Live, fetchAccount
  <2> QED
    BY <1>1, <2>1, <2>2 DEF Supply, validatorsVars
<1> QED
  BY <1>1, <1>2, <1>3

\* No call but BeginBlock and InitChain makes or loses money, but for transactions
\* that are not balanced or have results that do not fit.
LEMMA SupplyStep ==
    ASSUME RoomForTxs, NodeInv, phase \notin {"genesis", "down"}, [AppNext]_appVars,
           ~BlockBegins,
           ~\E raw \in RawTxs : /\ Accept(raw)
                                /\ Balanced(raw.data) => /\ ~Fits(raw.data)
                                                         /\ Wrap(Supply') = Wrap(Supply)
    PROVE  Supply' = Supply
<1>1. CASE InitChain
  BY <1>1 DEF InitChain, InitChainValidators, TmInitChain
<1>2. ASSUME NEW signed, NEW proposer, NEW byzantine, BeginBlock(signed, proposer, byzantine)
      PROVE  FALSE
  BY <1>2 DEF BeginBlock, BeginBlockValidators, TmBeginBlock, BlockBegins
<1>3. ASSUME NEW raw \in RawTxs, CheckTx(raw) PROVE Supply' = Supply
  <2>1. Fetch(FetchedBy(raw.data, CheckTxCode(raw))) /\ UNCHANGED validatorsVars
    BY <1>3 DEF CheckTx, chainVars
  <2> QED
    BY <2>1, FetchMoney DEF NodeInv
<1>4. ASSUME NEW raw \in RawTxs, DeliverTx(raw) PROVE Supply' = Supply
  <2>1. CASE Accept(raw)
    <3>1. Balanced(raw.data)
      BY <2>1
    <3>2. ASSUME ~Fits(raw.data) PROVE Wrap(Supply') = Wrap(Supply)
      <4>1. Word \in {0, Word} /\ Word # 0
        BY WordAssumption
      <4> QED
        BY <2>1, <3>1, <4>1, AcceptConserves DEF Conserved
    <3>3. Fits(raw.data)
      BY <2>1, <3>2
    <3>4. 0 \in {0, Word}
      OBVIOUS
    <3> QED
      BY <2>1, <3>1, <3>3, <3>4, AcceptConserves DEF Conserved
  <2>2. CASE Reject(raw) \/ DeliverTxPanics(raw)
    <3>1. (\E A : Fetch(A)) /\ UNCHANGED validatorsVars
      BY <2>2 DEF Reject, DeliverTxPanics, chainVars
    <3> QED
      BY <3>1, FetchMoney DEF NodeInv
  <2> QED
    BY <1>4, <2>1, <2>2 DEF DeliverTx
<1>5. CASE EndBlock
  <2>1. UNCHANGED <<accountTree, tempAccountMap, tempNewAccountMap, validatorTree, totalFees>>
    BY <1>5 DEF EndBlock, EndBlockValidators, accountsVars
  <2>2. Live' = Live
    BY <2>1 DEF Live, fetchAccount
  <2> QED
    BY <2>1, <2>2 DEF Supply
<1>6. CASE CommitBlock
  <2>1. CommitAccounts /\ UNCHANGED validatorsVars
    BY <1>6 DEF CommitBlock, CommitValidators
  <2>2. Money(Live') + Money(tempNewAccountMap') = Money(Live) + Money(tempNewAccountMap)
    <3>1. Money(Live') = Money(Live) + Money(tempNewAccountMap) /\ Money(tempNewAccountMap') = 0
      BY <2>1, CommitMoney DEF NodeInv
    <3>2. SupplyTypeOK
      BY SupplyTypes
    <3> QED
      BY <3>1, <3>2 DEF SupplyTypeOK
  <2>3. UNCHANGED <<validatorTree, totalFees>>
    BY <2>1 DEF validatorsVars
  <2> QED
    BY <2>2, <2>3 DEF Supply
<1>7. CASE Query
  BY <1>7, QueryMoney
<1>8. CASE UNCHANGED appVars
  <2>1. UNCHANGED <<accountTree, tempAccountMap, tempNewAccountMap, validatorTree, totalFees>>
    BY <1>8 DEF appVars, accountsVars, chainVars, validatorsVars
  <2>2. Live' = Live
    BY <2>1 DEF Live, fetchAccount
  <2> QED
    BY <2>1, <2>2 DEF Supply
<1> QED
  BY <1>1, <1>2, <1>3, <1>4, <1>5, <1>6, <1>7, <1>8 DEF AppNext

\* Money is neither made nor lost between the accounts, the accounts being
\* opened, the stakes and the fees that are not paid out, whatever is checked,
\* delivered, queried and committed, as long as what a transaction computes fits
\* 32 bits (app.go, DeliverTx and Commit; exectx.go); what does not fit makes or
\* loses multiples of Word.
THEOREM Conservation == RoomForTxs => (AppSpec => SupplyConserved)
<1> SUFFICES ASSUME RoomForTxs PROVE AppSpec => SupplyConserved
  OBVIOUS
<1> DEFINE A == \/ phase \in {"genesis", "down"} \/ BlockBegins \/ phase' = "down"
                \/ Supply' = Supply
                \/ \E raw \in RawTxs :
                     /\ Accept(raw)
                     /\ Balanced(raw.data) => ~Fits(raw.data) /\ Wrap(Supply') = Wrap(Supply)
<1>1. AppInv /\ [AppNext]_appVars => [A]_appVars
  BY SupplyStep DEF AppInv
<1>2. AppSpec => []AppInv
  BY AppInvariance
<1> QED
  BY <1>1, <1>2, PTL DEF AppSpec, SupplyConserved

=============================================================================
