--------------------------- MODULE RestartProofs ----------------------------
(***************************************************************************)
(* Proofs about Restart: wherever the process ends - between two calls, in *)
(* the writes of Commit, in InitChain - and however it is started again,   *)
(* the chain runs only over databases of its own blocks, money is neither  *)
(* made nor lost, no signature is spent twice, the databases agree with    *)
(* each other, and an account pays only for what its owner signed.         *)
(***************************************************************************)
EXTENDS Restart, AppProofs

\* What a process that has ended has in memory, and one that starts.
NothingInMemory ==
    /\ tempAccountMap = EmptyMap
    /\ tempNewAccountMap = EmptyMap
    /\ accountWatch = TRUE
    /\ valUpdates = <<>>
    /\ totalFees = 0
    /\ tempContractMap = EmptyMap
    /\ tempNewContractMap = EmptyMap
    /\ contractNumOnDb = 0
    /\ txQueue = <<>>
    /\ blockHeight = 0
    /\ txMap = EmptyMap

\* Databases no block has been written to.
Pristine ==
    /\ accountTree = Genesis
    /\ DOMAIN accountLedgerDb = {Genesis[a].bls : a \in DOMAIN Genesis}
    /\ \A b \in DOMAIN accountLedgerDb :
         accountLedgerDb[b] \in DOMAIN Genesis /\ Genesis[accountLedgerDb[b]].bls = b
    /\ validatorTree = EmptyMap
    /\ contractTree = EmptyMap
    /\ contractStorageDb = EmptyMap
    /\ contractStorageDb2 = EmptyMap
    /\ contractLedgerDb = EmptyMap
    /\ txStorageTree = EmptyMap
    /\ txStorageTree2 = EmptyMap
    /\ blockHashTree = EmptyMap

\* validatorTree is the first database a chain writes to, and the one InitChain
\* looks at: with no validator of the genesis file in it, there was no block.
ValidatorsFirst == DOMAIN validatorTree \cap DOMAIN GenesisPowers = {} => Pristine

\* The validator sets Tendermint starts with, and the accounts NewApp counts.
AtStart ==
    /\ lastSet = EmptyMap
    /\ curSet = GenesisPowers
    /\ nextSet = GenesisPowers
    /\ everSet = DOMAIN GenesisPowers
    /\ accountNumOnDb = Cardinality(DOMAIN Genesis)

RestartInv ==
    /\ AppTypeOK
    /\ phase \notin {"genesis", "down"} => NodeInv
    /\ phase \in {"genesis", "down"} => NothingInMemory /\ ValidatorsFirst
    /\ phase = "genesis" => AtStart

-----------------------------------------------------------------------------
(***************************************************************************)
(* What is on disk when the process ends.                                  *)
(***************************************************************************)
\* A database of one type stays one when entries of its type are Set.
LEMMA EnteredMap ==
    ASSUME NEW K, NEW V, NEW db, IsMap(db, K, V), NEW entries \in SUBSET (K \X V),
           NEW new \in Entered(db, entries)
    PROVE  /\ IsMap(new, K, V)
           /\ DOMAIN new = DOMAIN db \cup {e[1] : e \in entries}
           /\ \A k \in DOMAIN new : IF \E e \in entries : e[1] = k THEN <<k, new[k]>> \in entries
                                    ELSE new[k] = db[k]
<1>1. /\ new \in [DOMAIN db \cup {e[1] : e \in entries} ->
                    {db[k] : k \in DOMAIN db} \cup {e[2] : e \in entries}]
      /\ \A k \in DOMAIN new : IF \E e \in entries : e[1] = k THEN <<k, new[k]>> \in entries
                               ELSE new[k] = db[k]
  BY DEF Entered
<1>2. /\ {e[1] : e \in entries} \subseteq K
      /\ {e[2] : e \in entries} \subseteq V
      /\ {db[k] : k \in DOMAIN db} \subseteq V
  BY DEF IsMap
<1> QED
  BY <1>1, <1>2 DEF IsMap

\* If the databases have their types, so has the node that has just ended.
LEMMA EndTypes ==
    ASSUME AppTypeOK, TmCrash, Forgotten,
           IsMap(accountTree', Addresses, Leaf),
           IsMap(accountLedgerDb', BlsKeys, Addresses),
           IsMap(validatorTree', Keys, Nat),
           IsMap(contractTree', Addressed, Nat),
           IsMap(contractStorageDb', Addressed \X Nat, Payloads),
           IsMap(contractStorageDb2', Addressed \X Nat, Payloads),
           IsMap(contractLedgerDb', Payloads, Addressed),
           Tree(txStorageTree'), Tree(txStorageTree2'),
           DOMAIN blockHashTree' \subseteq 1 .. MaxHeight,
           \A h \in DOMAIN blockHashTree' : Tree(blockHashTree'[h])
    PROVE  AppTypeOK' /\ NothingInMemory' /\ phase' = "down"
<1>1. NothingInMemory' /\ phase' = "down"
  BY DEF Forgotten, NothingInMemory, TmCrash
<1>2. AccountsTypeOK'
  BY <1>1, EmptyIsMap, AccountsAssumption DEF AccountsTypeOK, NothingInMemory, Forgotten
<1>3. ValidatorsTypeOK'
  <2>1. 0 \in UInt32
    BY WordAssumption DEF UInt32
  <2>2. <<>> \in Seq(TypeOfUpdate)
    OBVIOUS
  <2>3. UNCHANGED validatorSets /\ ValidatorsTypeOK
    BY DEF TmCrash, AppTypeOK
  <2> QED
    BY <1>1, <2>1, <2>2, <2>3 DEF ValidatorsTypeOK, NothingInMemory, validatorSets, Phases
<1>4. ContractsTypeOK'
  BY <1>1, EmptyIsMap, ContractsAssumption DEF ContractsTypeOK, NothingInMemory
<1>5. TxStoreTypeOK'
  BY <1>1, TxStoreAssumption DEF TxStoreTypeOK, NothingInMemory
<1>6. IsMap(txMap', {raw.data : raw \in RawTxs}, [counter : UInt32, hash : TxHashes])
  BY <1>1, EmptyIsMap DEF NothingInMemory
<1> QED
  BY <1>1, <1>2, <1>3, <1>4, <1>5, <1>6 DEF AppTypeOK

\* The accounts the write batches of Commit leave.
LEMMA CommittedAccounts ==
    ASSUME AccountsInv
    PROVE  /\ IsMap(CommittedTree, Addresses, Leaf)
           /\ NewIndexEntries \in SUBSET (BlsKeys \X Addresses)
<1>1. /\ IsMap(accountTree, Addresses, Leaf)
      /\ IsMap(tempAccountMap, Addresses, CachedAccount)
      /\ IsMap(tempNewAccountMap, Addresses, Leaf)
  BY DEF AccountsInv, AccountsTypeOK
<1>2. \A a \in DOMAIN CommittedTree : CommittedTree[a] \in Leaf
  BY <1>1 DEF CommittedTree, IsMap, CachedAccount
<1>3. \A a \in DOMAIN tempNewAccountMap : a \in Addresses /\ tempNewAccountMap[a].bls \in BlsKeys
  BY <1>1 DEF IsMap, Leaf
<1>4. DOMAIN CommittedTree \subseteq Addresses
      /\ CommittedTree = [a \in DOMAIN CommittedTree |-> CommittedTree[a]]
  BY <1>1 DEF CommittedTree, IsMap
<1> QED
  BY <1>2, <1>3, <1>4 DEF NewIndexEntries, IsMap

\* The contracts, and what is Set for them in the index.
LEMMA CommittedCalls ==
    ASSUME ContractsInv
    PROVE  /\ IsMap(CalledContracts, Addressed, Nat)
           /\ IsMap(CreatedContracts, Addressed, Nat)
           /\ \A watch \in BOOLEAN : NewContractEntries(watch) \in SUBSET (Payloads \X Addressed)
<1>1. /\ IsMap(contractTree, Addressed, Nat)
      /\ IsMap(tempContractMap, Addressed, Call)
      /\ IsMap(tempNewContractMap, Addressed, Payloads)
  BY DEF ContractsInv, ContractsTypeOK
<1>2. /\ DOMAIN CalledContracts = DOMAIN contractTree
      /\ \A c \in DOMAIN contractTree : CalledContracts[c] \in Nat
  BY <1>1 DEF CalledContracts, IsMap, Call
<1>3. \A c \in DOMAIN contractTree \cup DOMAIN tempNewContractMap : CreatedContracts[c] \in Nat
  BY <1>2 DEF CreatedContracts
<1>4. IsMap(CalledContracts, Addressed, Nat)
  BY <1>1, <1>2 DEF CalledContracts, IsMap
<1>5. IsMap(CreatedContracts, Addressed, Nat)
  BY <1>1, <1>3 DEF CreatedContracts, IsMap
<1>6. \A watch \in BOOLEAN : NewContractEntries(watch) \in SUBSET (Payloads \X Addressed)
  BY <1>1 DEF NewContractEntries, IsMap
<1> QED
  BY <1>4, <1>5, <1>6

-----------------------------------------------------------------------------
(***************************************************************************)
(* The steps.                                                              *)
(***************************************************************************)
\* A node that runs has the genesis validators in validatorTree.
LEMMA RunningNotFirst ==
    ASSUME NodeInv
    PROVE  DOMAIN validatorTree \cap DOMAIN GenesisPowers # {}
BY GenesisPowersAssumption DEF NodeInv

\* The process ends between two calls.
LEMMA CrashStep == ASSUME RestartInv, Crash PROVE RestartInv'
<1>1. AppTypeOK' /\ NothingInMemory' /\ phase' = "down"
  <2>1. /\ AppTypeOK /\ TmCrash /\ Forgotten
        /\ UNCHANGED <<accountTree, accountLedgerDb, validatorTree, contractTree,
                       contractLedgerDb, blockHashTree>>
    BY DEF Crash, RestartInv
  <2>2. Tree(txStorageTree') /\ Tree(txStorageTree2')
    BY DEF Crash, ReopenedTxs, RestartInv, AppTypeOK, TxStoreTypeOK
  <2>3. /\ IsMap(contractStorageDb', Addressed \X Nat, Payloads)
        /\ IsMap(contractStorageDb2', Addressed \X Nat, Payloads)
    BY DEF Crash, ReopenedPayloads, RestartInv, AppTypeOK, ContractsTypeOK
  <2>4. /\ IsMap(accountTree', Addresses, Leaf)
        /\ IsMap(accountLedgerDb', BlsKeys, Addresses)
        /\ IsMap(validatorTree', Keys, Nat)
        /\ IsMap(contractTree', Addressed, Nat)
        /\ IsMap(contractLedgerDb', Payloads, Addressed)
        /\ DOMAIN blockHashTree' \subseteq 1 .. MaxHeight
        /\ \A h \in DOMAIN blockHashTree' : Tree(blockHashTree'[h])
    BY <2>1 DEF AppTypeOK, AccountsTypeOK, ValidatorsTypeOK, ContractsTypeOK, TxStoreTypeOK
  <2> QED
    BY <2>1, <2>2, <2>3, <2>4, EndTypes
<1>2. ValidatorsFirst'
  <2>1. CASE phase = "genesis"
    <3>1. ~Exchanged /\ ValidatorsFirst
      BY <2>1 DEF Exchanged, RestartInv
    <3> QED
      BY <3>1 DEF Crash, ReopenedTxs, ReopenedPayloads, ValidatorsFirst, Pristine
  <2>2. CASE phase \notin {"genesis", "down"}
    BY <2>2, RunningNotFirst DEF RestartInv, Crash, ValidatorsFirst
  <2> QED
    BY <2>1, <2>2 DEF Crash, TmCrash
<1> QED
  BY <1>1, <1>2 DEF RestartInv

\* The process ends in Commit.
LEMMA CrashInCommitStep ==
    ASSUME RestartInv, NEW n \in 1 .. Len(CommitOrder), CrashInCommit(n)
    PROVE  RestartInv'
<1> DEFINE done(write) == write \in Written(n)
<1>1. /\ phase = "ended" /\ TmCrash /\ Forgotten /\ UNCHANGED validatorTree
      /\ AppTypeOK /\ NodeInv
  BY DEF CrashInCommit, RestartInv
<1>2. AccountsInv /\ ContractsInv /\ TxStoreInv
  BY <1>1 DEF NodeInv
<1>3. IsMap(accountTree', Addresses, Leaf)
  BY <1>2, CommittedAccounts DEF CrashInCommit, AccountsInv, AccountsTypeOK
<1>4. IsMap(accountLedgerDb', BlsKeys, Addresses)
  <2>1. accountLedgerDb' \in Entered(accountLedgerDb, IF done("index") THEN NewIndexEntries ELSE {})
    BY DEF CrashInCommit
  <2>2. (IF done("index") THEN NewIndexEntries ELSE {}) \in SUBSET (BlsKeys \X Addresses)
    BY <1>2, CommittedAccounts
  <2>3. IsMap(accountLedgerDb, BlsKeys, Addresses)
    BY <1>2 DEF AccountsInv, AccountsTypeOK
  <2> QED
    BY <2>1, <2>2, <2>3, EnteredMap
<1>5. IsMap(contractTree', Addressed, Nat)
  BY <1>2, CommittedCalls DEF CrashInCommit, ContractsInv, ContractsTypeOK
<1>6. /\ IsMap(contractStorageDb', Addressed \X Nat, Payloads)
      /\ IsMap(contractStorageDb2', Addressed \X Nat, Payloads)
  <2>1. ReopenedPayloads(IF done("payloads") THEN StoredPayloads ELSE contractStorageDb,
                         contractStorageDb2)
    BY DEF CrashInCommit
  <2>2. \A db \in {StoredPayloads, contractStorageDb, contractStorageDb2} :
          IsMap(db, Addressed \X Nat, Payloads)
    BY <1>2, StoredKeeps DEF ContractsInv, ContractsTypeOK
  <2> QED
    BY <2>1, <2>2 DEF ReopenedPayloads
<1>7. IsMap(contractLedgerDb', Payloads, Addressed)
  <2>1. contractLedgerDb' \in Entered(contractLedgerDb,
                                IF done("ledger") THEN NewContractEntries(accountWatch) ELSE {})
    BY DEF CrashInCommit
  <2>2. accountWatch \in BOOLEAN
    BY <1>2 DEF AccountsInv, AccountsTypeOK
  <2>3. (IF done("ledger") THEN NewContractEntries(accountWatch) ELSE {})
          \in SUBSET (Payloads \X Addressed)
    BY <1>2, <2>2, CommittedCalls
  <2>4. IsMap(contractLedgerDb, Payloads, Addressed)
    BY <1>2 DEF ContractsInv, ContractsTypeOK
  <2> QED
    BY <2>1, <2>3, <2>4, EnteredMap
<1>8. /\ Tree(txStorageTree') /\ Tree(txStorageTree2')
      /\ DOMAIN blockHashTree' \subseteq 1 .. MaxHeight
      /\ \A h \in DOMAIN blockHashTree' : Tree(blockHashTree'[h])
  <2>1. PICK tree \in AddBatch(txStorageTree) :
          /\ ReopenedTxs(IF done("txs") THEN tree ELSE txStorageTree,
                         IF done("clear") THEN EmptyMap ELSE txStorageTree2)
          /\ blockHashTree' = IF done("hashes") THEN With(blockHashTree, blockHeight, tree)
                              ELSE blockHashTree
    BY DEF CrashInCommit
  <2>2. /\ Tree(txStorageTree) /\ Tree(txStorageTree2) /\ Tree(EmptyMap)
        /\ DOMAIN blockHashTree \subseteq 1 .. MaxHeight
        /\ \A h \in DOMAIN blockHashTree : Tree(blockHashTree[h])
    BY <1>2, EmptyIsMap DEF TxStoreInv, TxStoreTypeOK, Tree
  <2>3. Tree(tree)
    BY <1>2, <2>1, <2>2, AddBatchGrows DEF TxStoreInv
  <2>4. blockHeight \in 1 .. MaxHeight
    <3>1. Committing
      BY <1>1 DEF NodeInv, HeightInPhase, Running
    <3>2. blockHeight \in 0 .. MaxHeight
      BY <1>2 DEF TxStoreInv, TxStoreTypeOK
    <3> QED
      BY <3>1, <3>2, TxStoreAssumption DEF Committing
  <2>5. Tree(txStorageTree') /\ Tree(txStorageTree2')
    BY <2>1, <2>2, <2>3 DEF ReopenedTxs
  <2>6. /\ DOMAIN With(blockHashTree, blockHeight, tree) \subseteq 1 .. MaxHeight
        /\ \A h \in DOMAIN With(blockHashTree, blockHeight, tree) :
             Tree(With(blockHashTree, blockHeight, tree)[h])
    BY <2>2, <2>3, <2>4 DEF With
  <2> QED
    BY <2>1, <2>2, <2>5, <2>6
<1>9. IsMap(validatorTree', Keys, Nat)
  BY <1>1 DEF AppTypeOK, ValidatorsTypeOK
<1>10. AppTypeOK' /\ NothingInMemory' /\ phase' = "down"
  BY <1>1, <1>3, <1>4, <1>5, <1>6, <1>7, <1>8, <1>9, EndTypes
<1>11. ValidatorsFirst'
  BY <1>1, RunningNotFirst DEF ValidatorsFirst
<1> QED
  BY <1>10, <1>11 DEF RestartInv

\* InitChain ends the process: what it has added, if anything, is told from
\* databases without a block.
LEMMA InitChainEndsStep ==
    ASSUME RestartInv, NEW added \in SUBSET DOMAIN GenesisPowers, InitChainEnds(added)
    PROVE  RestartInv'
<1>1. /\ phase = "genesis" /\ TmCrash /\ Forgotten /\ AppTypeOK /\ ValidatorsFirst
      /\ UNCHANGED <<accountTree, accountLedgerDb, contractTree, contractStorageDb,
                     contractStorageDb2, contractLedgerDb, txStorageTree, txStorageTree2,
                     blockHashTree>>
      /\ validatorTree' = [k \in DOMAIN validatorTree \cup added |->
           IF k \in added THEN GenesisPowers[k] ELSE validatorTree[k]]
  BY DEF InitChainEnds, RestartInv
<1>2. IsMap(validatorTree, Keys, Nat)
  BY <1>1 DEF AppTypeOK, ValidatorsTypeOK
<1>3. IsMap(validatorTree', Keys, Nat)
  <2>1. \A k \in added : k \in Keys /\ GenesisPowers[k] \in Nat
    BY GenesisPowersAssumption DEF IsMap
  <2> QED
    BY <1>1, <1>2, <2>1 DEF IsMap
<1>4. /\ IsMap(accountTree', Addresses, Leaf)
      /\ IsMap(accountLedgerDb', BlsKeys, Addresses)
      /\ IsMap(contractTree', Addressed, Nat)
      /\ IsMap(contractStorageDb', Addressed \X Nat, Payloads)
      /\ IsMap(contractStorageDb2', Addressed \X Nat, Payloads)
      /\ IsMap(contractLedgerDb', Payloads, Addressed)
      /\ Tree(txStorageTree') /\ Tree(txStorageTree2')
      /\ DOMAIN blockHashTree' \subseteq 1 .. MaxHeight
      /\ \A h \in DOMAIN blockHashTree' : Tree(blockHashTree'[h])
  BY <1>1 DEF AppTypeOK, AccountsTypeOK, ContractsTypeOK, TxStoreTypeOK
<1>5. AppTypeOK' /\ NothingInMemory' /\ phase' = "down"
  BY <1>1, <1>3, <1>4, EndTypes
<1>6. ValidatorsFirst'
  <2>1. CASE added = {}
    <3>1. validatorTree' = validatorTree
      BY <1>1, <1>2, <2>1 DEF IsMap
    <3> QED
      BY <1>1, <3>1 DEF ValidatorsFirst, Pristine
  <2>2. CASE added # {}
    BY <1>1, <2>2 DEF ValidatorsFirst
  <2> QED
    BY <2>1, <2>2
<1> QED
  BY <1>5, <1>6 DEF RestartInv

\* The template accounts, as NewApp enters them in the index and counts them.
LEMMA Template ==
    /\ TemplateEntries \in SUBSET (BlsKeys \X Addresses)
    /\ {e[1] : e \in TemplateEntries} = {Genesis[a].bls : a \in DOMAIN Genesis}
    /\ \A e \in TemplateEntries : e[2] \in DOMAIN Genesis /\ Genesis[e[2]].bls = e[1]
    /\ Cardinality(DOMAIN Genesis) \in 0 .. MaxAccounts
<1>1. \A a \in DOMAIN Genesis : a \in Addresses /\ Genesis[a].bls \in BlsKeys
  BY GenesisAssumption DEF IsMap, Leaf
<1>2. Cardinality(DOMAIN Genesis) \in 0 .. MaxAccounts
  <2>1. PICK n \in 0 .. MaxAccounts : DOMAIN Genesis = 0 .. n - 1
    BY GenesisAssumption
  <2>2. Cardinality(0 .. n - 1) = n
    BY <2>1, AccountsAssumption, FS_Interval
  <2> QED
    BY <2>1, <2>2
<1>3. TemplateEntries \in SUBSET (BlsKeys \X Addresses)
  BY <1>1 DEF TemplateEntries
<1>4. \A e \in TemplateEntries : e[2] \in DOMAIN Genesis /\ Genesis[e[2]].bls = e[1]
  BY DEF TemplateEntries
<1>5. {e[1] : e \in TemplateEntries} = {Genesis[a].bls : a \in DOMAIN Genesis}
  <2>1. \A a \in DOMAIN Genesis : \E e \in TemplateEntries : e[1] = Genesis[a].bls
    <3> TAKE a \in DOMAIN Genesis
    <3>1. <<Genesis[a].bls, a>> \in TemplateEntries
      BY DEF TemplateEntries
    <3>2. <<Genesis[a].bls, a>>[1] = Genesis[a].bls
      OBVIOUS
    <3> QED
      BY <3>1, <3>2
  <2> QED
    BY <1>4, <2>1
<1> QED
  BY <1>2, <1>3, <1>4, <1>5

\* Tendermint starts with the validators of the genesis file, and its variables
\* have their types.
LEMMA StartSets ==
    ASSUME ValidatorsTypeOK, TmStart, UNCHANGED <<valUpdates, totalFees>>,
           IsMap(validatorTree', Keys, Nat)
    PROVE  ValidatorsTypeOK' /\ phase' = "genesis"
BY GenesisPowersAssumption, EmptyIsMap DEF TmStart, ValidatorsTypeOK, Phases, IsMap

\* NewApp over the databases there are.
LEMMA StartStep == ASSUME RestartInv, Start PROVE RestartInv'
<1>1. /\ AppTypeOK /\ NothingInMemory /\ ValidatorsFirst /\ TmStart
      /\ UNCHANGED <<accountTree, tempAccountMap, tempNewAccountMap, accountWatch,
                     validatorsVars, contractsVars, txStoreVars, txMap>>
      /\ accountLedgerDb' \in Entered(accountLedgerDb, TemplateEntries)
      /\ accountNumOnDb' = Cardinality(DOMAIN Genesis)
  BY DEF RestartInv, Start, TmStart
<1>2. IsMap(accountLedgerDb, BlsKeys, Addresses)
  BY <1>1 DEF AppTypeOK, AccountsTypeOK
<1>3. /\ IsMap(accountLedgerDb', BlsKeys, Addresses)
      /\ DOMAIN accountLedgerDb' = DOMAIN accountLedgerDb \cup {e[1] : e \in TemplateEntries}
      /\ \A b \in DOMAIN accountLedgerDb' :
           (\E e \in TemplateEntries : e[1] = b) => <<b, accountLedgerDb'[b]>> \in TemplateEntries
  <2>1. TemplateEntries \in SUBSET (BlsKeys \X Addresses)
    BY Template
  <2>2. PICK db : db = accountLedgerDb
    OBVIOUS
  <2>3. accountLedgerDb' \in Entered(db, TemplateEntries) /\ IsMap(db, BlsKeys, Addresses)
    BY <1>1, <1>2, <2>2
  <2>4. /\ IsMap(accountLedgerDb', BlsKeys, Addresses)
        /\ DOMAIN accountLedgerDb' = DOMAIN db \cup {e[1] : e \in TemplateEntries}
        /\ \A b \in DOMAIN accountLedgerDb' :
             (\E e \in TemplateEntries : e[1] = b) =>
                <<b, accountLedgerDb'[b]>> \in TemplateEntries
    BY <2>1, <2>3, EnteredMap
  <2> QED
    BY <2>2, <2>4
<1>4. AccountsTypeOK'
  BY <1>1, <1>3, Template DEF AppTypeOK, AccountsTypeOK
<1>5. ValidatorsTypeOK' /\ phase' = "genesis"
  BY <1>1, StartSets DEF validatorsVars, AppTypeOK, ValidatorsTypeOK
<1>6. ContractsTypeOK' /\ TxStoreTypeOK'
  BY <1>1 DEF AppTypeOK, ContractsTypeOK, TxStoreTypeOK, contractsVars, txStoreVars
<1>7. AppTypeOK'
  BY <1>1, <1>4, <1>5, <1>6 DEF AppTypeOK
<1>8. NothingInMemory' /\ AtStart'
  BY <1>1 DEF NothingInMemory, AtStart, TmStart, validatorsVars, contractsVars, txStoreVars
<1>9. ValidatorsFirst'
  <2> SUFFICES ASSUME Pristine PROVE Pristine'
    BY <1>1 DEF ValidatorsFirst, validatorsVars
  <2>1. DOMAIN accountLedgerDb' = {Genesis[a].bls : a \in DOMAIN Genesis}
    BY <1>3, Template DEF Pristine
  <2>2. \A b \in DOMAIN accountLedgerDb' :
          accountLedgerDb'[b] \in DOMAIN Genesis /\ Genesis[accountLedgerDb'[b]].bls = b
    <3> TAKE b \in DOMAIN accountLedgerDb'
    <3>1. <<b, accountLedgerDb'[b]>> \in TemplateEntries
      BY <1>3, <2>1, Template
    <3> QED
      BY <3>1, Template
  <2> QED
    BY <1>1, <2>1, <2>2 DEF Pristine, validatorsVars, contractsVars, txStoreVars
<1> QED
  BY <1>5, <1>7, <1>8, <1>9 DEF RestartInv

\* And over the empty ones run.sh leaves.
LEMMA StartFreshStep == ASSUME RestartInv, StartFresh PROVE RestartInv'
<1>1. /\ AppTypeOK /\ NothingInMemory /\ TmStart
      /\ UNCHANGED <<tempAccountMap, tempNewAccountMap, accountWatch, valUpdates, totalFees,
                     tempContractMap, tempNewContractMap, contractNumOnDb, txQueue,
                     blockHeight, txMap>>
      /\ accountLedgerDb' \in Entered(EmptyMap, TemplateEntries)
      /\ accountNumOnDb' = Cardinality(DOMAIN Genesis)
      /\ accountTree' = Genesis
      /\ validatorTree' = EmptyMap
      /\ contractTree' = EmptyMap
      /\ contractStorageDb' = EmptyMap
      /\ contractStorageDb2' = EmptyMap
      /\ contractLedgerDb' = EmptyMap
      /\ txStorageTree' = EmptyMap
      /\ txStorageTree2' = EmptyMap
      /\ blockHashTree' = EmptyMap
  BY DEF RestartInv, StartFresh, TmStart
<1>2. IsMap(EmptyMap, BlsKeys, Addresses) /\ DOMAIN EmptyMap = {}
  BY EmptyIsMap
<1>3. /\ IsMap(accountLedgerDb', BlsKeys, Addresses)
      /\ DOMAIN accountLedgerDb' = DOMAIN EmptyMap \cup {e[1] : e \in TemplateEntries}
      /\ \A b \in DOMAIN accountLedgerDb' :
           (\E e \in TemplateEntries : e[1] = b) => <<b, accountLedgerDb'[b]>> \in TemplateEntries
  <2>1. TemplateEntries \in SUBSET (BlsKeys \X Addresses)
    BY Template
  <2>2. PICK db : db = EmptyMap
    OBVIOUS
  <2>3. accountLedgerDb' \in Entered(db, TemplateEntries) /\ IsMap(db, BlsKeys, Addresses)
    BY <1>1, <1>2, <2>2
  <2>4. /\ IsMap(accountLedgerDb', BlsKeys, Addresses)
        /\ DOMAIN accountLedgerDb' = DOMAIN db \cup {e[1] : e \in TemplateEntries}
        /\ \A b \in DOMAIN accountLedgerDb' :
             (\E e \in TemplateEntries : e[1] = b) =>
                <<b, accountLedgerDb'[b]>> \in TemplateEntries
    BY <2>1, <2>3, EnteredMap
  <2> QED
    BY <2>2, <2>4
<1>4. AccountsTypeOK'
  BY <1>1, <1>3, Template, GenesisAssumption DEF AppTypeOK, AccountsTypeOK
<1>5. ValidatorsTypeOK' /\ phase' = "genesis"
  BY <1>1, EmptyIsMap, StartSets DEF AppTypeOK
<1>6. ContractsTypeOK'
  BY <1>1, EmptyIsMap DEF AppTypeOK, ContractsTypeOK
<1>7. TxStoreTypeOK'
  BY <1>1, EmptyIsMap DEF AppTypeOK, TxStoreTypeOK, Tree
<1>8. AppTypeOK'
  BY <1>1, <1>4, <1>5, <1>6, <1>7 DEF AppTypeOK
<1>9. NothingInMemory' /\ AtStart'
  BY <1>1 DEF NothingInMemory, AtStart, TmStart
<1>10. Pristine'
  <2>1. DOMAIN accountLedgerDb' = {Genesis[a].bls : a \in DOMAIN Genesis}
    BY <1>2, <1>3, Template
  <2>2. \A b \in DOMAIN accountLedgerDb' :
          accountLedgerDb'[b] \in DOMAIN Genesis /\ Genesis[accountLedgerDb'[b]].bls = b
    <3> TAKE b \in DOMAIN accountLedgerDb'
    <3>1. <<b, accountLedgerDb'[b]>> \in TemplateEntries
      BY <1>3, <2>1, Template
    <3> QED
      BY <3>1, Template
  <2> QED
    BY <1>1, <2>1, <2>2 DEF Pristine
<1> QED
  BY <1>5, <1>8, <1>9, <1>10 DEF RestartInv, ValidatorsFirst

\* A genesis over databases without a block is the first one.
LEMMA GenesisAgain ==
    ASSUME RestartInv, phase = "genesis",
           DOMAIN validatorTree \cap DOMAIN GenesisPowers = {}
    PROVE  AppInit
<1>1. /\ NothingInMemory /\ Pristine /\ AtStart
      /\ IsMap(accountLedgerDb, BlsKeys, Addresses)
  BY DEF RestartInv, ValidatorsFirst, AppTypeOK, AccountsTypeOK
<1>2. AccountsInit
  BY <1>1 DEF AccountsInit, NothingInMemory, Pristine, AtStart, IsMap
<1>3. ValidatorsInit /\ ContractsInit /\ TxStoreInit /\ txMap = EmptyMap
  BY <1>1 DEF ValidatorsInit, TendermintInit, ContractsInit, TxStoreInit,
              NothingInMemory, Pristine, AtStart
<1> QED
  BY <1>2, <1>3 DEF AppInit

\* A process that has ended answers no call.
LEMMA DownStep == ASSUME phase = "down" PROVE ~AppNext
<1>1. ~Running
  BY DEF Running
<1>2. \A raw : ~CheckTx(raw) /\ ~Accept(raw) /\ ~Reject(raw) /\ ~DeliverTxPanics(raw)
  BY <1>1 DEF CheckTx, Accept, Reject, DeliverTxPanics, TmFail
<1>3. \A signed, proposer, byzantine : ~BeginBlock(signed, proposer, byzantine)
  BY DEF BeginBlock, BeginBlockValidators, TmBeginBlock
<1>4. ~EndBlock /\ ~CommitBlock /\ ~Query /\ ~InitChain
  BY <1>1 DEF EndBlock, EndBlockValidators, TmEndBlock, CommitBlock, CommitValidators, TmCommit,
              Query, InitChain, InitChainValidators, TmInitChain
<1> QED
  BY <1>2, <1>3, <1>4 DEF AppNext, DeliverTx

\* A node that has answered a call has had its InitChain.
LEMMA CalledNode ==
    ASSUME RoomForTxs, RestartInv, AppNext
    PROVE  NodeInv' /\ phase' \notin {"genesis", "down"}
<1>1. CASE phase = "genesis"
  <2>1. InitChain
    BY <1>1, GenesisStep
  <2>2. DOMAIN validatorTree \cap DOMAIN GenesisPowers = {}
    BY <2>1 DEF InitChain, InitChainValidators
  <2> QED
    BY <1>1, <2>1, <2>2, GenesisAgain, FirstStep
<1>2. CASE phase = "down"
  BY <1>2, DownStep
<1>3. CASE phase \notin {"genesis", "down"}
  BY <1>3, NodeStep DEF RestartInv
<1> QED
  BY <1>1, <1>2, <1>3

\* The calls of Tendermint and the clients.
LEMMA CallStep == ASSUME RoomForTxs, RestartInv, AppNext PROVE RestartInv'
<1>1. NodeInv' /\ phase' \notin {"genesis", "down"}
  BY CalledNode
<1>2. NodeInv' => AppTypeOK'
  BY NodeTypes, PTL
<1> QED
  BY <1>1, <1>2 DEF RestartInv

-----------------------------------------------------------------------------
(***************************************************************************)
(* The theorems.                                                           *)
(***************************************************************************)
\* Every step keeps the invariant.
LEMMA RestartStep == RoomForTxs /\ RestartInv /\ [RestartNext]_appVars => RestartInv'
<1> SUFFICES ASSUME RoomForTxs, RestartInv, [RestartNext]_appVars PROVE RestartInv'
  OBVIOUS
<1>1. CASE AppNext
  BY <1>1, CallStep
<1>2. CASE Crash
  BY <1>2, CrashStep
<1>3. ASSUME NEW n \in 1 .. Len(CommitOrder), CrashInCommit(n) PROVE RestartInv'
  BY <1>3, CrashInCommitStep
<1>4. ASSUME NEW added \in SUBSET DOMAIN GenesisPowers, InitChainEnds(added) PROVE RestartInv'
  BY <1>4, InitChainEndsStep
<1>5. CASE Start
  BY <1>5, StartStep
<1>6. CASE StartFresh
  BY <1>6, StartFreshStep
<1>7. CASE UNCHANGED appVars
  <2>1. CASE phase \notin {"genesis", "down"}
    <3>1. NodeInv' /\ phase' \notin {"genesis", "down"}
      BY <1>7, <2>1, NodeStep DEF RestartInv
    <3>2. NodeInv' => AppTypeOK'
      BY NodeTypes, PTL
    <3> QED
      BY <3>1, <3>2 DEF RestartInv
  <2>2. CASE phase \in {"genesis", "down"}
    <3>1. UNCHANGED <<accountsVars, phase, lastSet, curSet, nextSet, everSet, validatorsVars,
                      contractsVars, txStoreVars, txMap>>
      BY <1>7 DEF appVars, chainVars, tendermintVars, validatorSets
    <3>2. AppTypeOK'
      BY <3>1 DEF RestartInv, AppTypeOK, AccountsTypeOK, ValidatorsTypeOK, ContractsTypeOK,
                  TxStoreTypeOK, accountsVars, validatorsVars, contractsVars, txStoreVars
    <3>3. NothingInMemory' /\ ValidatorsFirst'
      BY <2>2, <3>1 DEF RestartInv, NothingInMemory, ValidatorsFirst, Pristine,
                        accountsVars, validatorsVars, contractsVars, txStoreVars
    <3>4. phase' = "genesis" => AtStart'
      BY <3>1 DEF RestartInv, AtStart, accountsVars
    <3> QED
      BY <2>2, <3>1, <3>2, <3>3, <3>4 DEF RestartInv
  <2> QED
    BY <2>1, <2>2
<1> QED
  BY <1>1, <1>2, <1>3, <1>4, <1>5, <1>6, <1>7 DEF RestartNext

\* The genesis of a new chain.
LEMMA FirstGenesis == AppInit => RestartInv
<1> SUFFICES ASSUME AppInit PROVE RestartInv
  OBVIOUS
<1>1. AppTypeOK /\ phase = "genesis"
  BY AppInvTypes DEF AppInv, AppInit, ValidatorsInit, TendermintInit
<1>2. NothingInMemory /\ AtStart
  BY DEF AppInit, AccountsInit, ValidatorsInit, TendermintInit, ContractsInit, TxStoreInit,
         NothingInMemory, AtStart
<1>3. Pristine
  BY DEF AppInit, AccountsInit, ValidatorsInit, ContractsInit, TxStoreInit, Pristine
<1> QED
  BY <1>1, <1>2, <1>3 DEF RestartInv, ValidatorsFirst

\* Wherever the process ends and however it starts again, a node that answers
\* calls has the invariant of one that never ended.
THEOREM RestartInvariance == RoomForTxs => (RestartSpec => []RestartInv)
<1> SUFFICES ASSUME RoomForTxs PROVE RestartSpec => []RestartInv
  OBVIOUS
<1>1. RestartInv /\ [RestartNext]_appVars => RestartInv'
  BY RestartStep
<1> QED
  BY <1>1, FirstGenesis, PTL DEF RestartSpec

\* The types of App, also of databases half written.
THEOREM RestartTypes == RoomForTxs => (RestartSpec => []AppTypeOK)
<1>1. RestartInv => AppTypeOK
  BY DEF RestartInv
<1> QED
  BY <1>1, RestartInvariance, PTL

\* No start over the databases of another run leads to a block: InitChain panics
\* when validatorTree has a validator of the genesis file, and every database
\* with a block's data comes with such a validatorTree (app.go, InitChain; db.go).
THEOREM OnlyOwnBlocks == RoomForTxs => (RestartSpec => []NoBlockOnOldDatabases)
<1>1. RestartInv => NoBlockOnOldDatabases
  <2> SUFFICES ASSUME RestartInv, Running
               PROVE  /\ TreeMatchesTendermint /\ AddressesDense /\ ContractsDense
                      /\ DOMAIN blockHashTree =
                           1 .. (IF phase = "ended" THEN blockHeight - 1 ELSE blockHeight)
                      /\ FrontProofsVerify
    BY DEF NoBlockOnOldDatabases
  <2>1. NodeInv
    BY DEF RestartInv, Running
  <2>2. DOMAIN blockHashTree = 1 .. (IF phase = "ended" THEN blockHeight - 1 ELSE blockHeight)
    BY <2>1 DEF NodeInv, HeightInPhase, TxStoreInv, HeightsFiled, LastFiled
  <2> QED
    BY <2>1, <2>2, FrontRootFits DEF NodeInv, AccountsInv, ContractsInv, ValidatorsInv
<1> QED
  BY <1>1, RestartInvariance, PTL

\* What a process ends with or starts with is not counted; until then no step
\* makes money or loses it (app.go, DeliverTx and Commit; exectx.go), in
\* whichever of the runs of the program it is.
THEOREM ConservationOnEveryStart == RoomForTxs => (RestartSpec => SupplyConserved)
<1> SUFFICES ASSUME RoomForTxs PROVE RestartSpec => SupplyConserved
  OBVIOUS
<1> DEFINE A == \/ phase \in {"genesis", "down"} \/ BlockBegins \/ phase' = "down"
                \/ Supply' = Supply
                \/ \E raw \in RawTxs :
                     /\ Accept(raw)
                     /\ Balanced(raw.data) => ~Fits(raw.data) /\ Wrap(Supply') = Wrap(Supply)
<1>1. ASSUME RestartInv, [RestartNext]_appVars, ~UNCHANGED appVars PROVE A
  <2>1. CASE AppNext
    BY <1>1, <2>1, SupplyStep DEF RestartInv
  <2>2. CASE Crash \/ \E n \in 1 .. Len(CommitOrder) : CrashInCommit(n)
    BY <2>2 DEF Crash, CrashInCommit, TmCrash
  <2>3. CASE \E added \in SUBSET DOMAIN GenesisPowers : InitChainEnds(added)
    BY <2>3 DEF InitChainEnds
  <2>4. CASE Start \/ StartFresh
    BY <2>4 DEF Start, StartFresh, TmStart
  <2> QED
    BY <1>1, <2>1, <2>2, <2>3, <2>4 DEF RestartNext
<1>2. RestartInv /\ [RestartNext]_appVars => [A]_appVars
  BY <1>1
<1>3. RestartSpec => []RestartInv
  BY RestartInvariance
<1> QED
  BY <1>2, <1>3, PTL DEF RestartSpec, SupplyConserved

-----------------------------------------------------------------------------
(***************************************************************************)
(* Counters.                                                               *)
(***************************************************************************)
\* What a record becomes: its counter does not go back, and with another key
\* comes another counter.
Later(old, new) ==
    /\ old.Counter <= new.Counter
    /\ new.Counter = old.Counter => new.schnorr = old.schnorr

\* No account is so near its last counter that one transaction, with all the
\* participants there is room for, takes it there.
CountersLeft == \A a \in DOMAIN Live : Live[a].Counter + MaxLength < Word

\* The counters and keys of the records the handlers write.
LEMMA RecordCounters ==
    ASSUME NEW leaf \in Leaf, leaf.Counter + MaxLength < Word,
           NEW amount \in UInt32, NEW fee \in UInt32
    PROVE  /\ \A st : /\ Debited(leaf, amount, fee, st).Counter = leaf.Counter + 1
                      /\ Debited(leaf, amount, fee, st).schnorr = leaf.schnorr
           /\ Released(leaf, amount, fee).Counter = leaf.Counter + 1
           /\ Released(leaf, amount, fee).schnorr = leaf.schnorr
           /\ Credited(leaf, amount).Counter = leaf.Counter
           /\ Credited(leaf, amount).schnorr = leaf.schnorr
           /\ \A s, b : Rekeyed(leaf, s, b, fee).Counter = leaf.Counter + 1
           /\ \A n \in 0 .. MaxLength : \A st :
                /\ Settled(leaf, n, amount, fee, st).Counter = leaf.Counter + n
                /\ Settled(leaf, n, amount, fee, st).schnorr = leaf.schnorr
           /\ \A p : /\ BatchCredited(leaf, p, amount, fee).Counter = leaf.Counter
                     /\ BatchCredited(leaf, p, amount, fee).schnorr = leaf.schnorr
<1>1. leaf.Counter \in Int /\ 0 <= leaf.Counter /\ Word \in Int /\ MaxLength = 1401
  BY WordAssumption DEF Leaf, UInt32, MaxLength
<1>2. \A n \in 0 .. MaxLength : Plus(leaf.Counter, n) = leaf.Counter + n
  <2> TAKE n \in 0 .. MaxLength
  <2>1. leaf.Counter + n \in 0 .. Word - 1
    BY <1>1
  <2> QED
    BY <1>1, <2>1 DEF Plus, Wrap
<1>3. Plus(leaf.Counter, 1) = leaf.Counter + 1
  BY <1>1, <1>2
<1>4. \A m, n, st : /\ Updated(leaf, m, n, st).Counter = Plus(leaf.Counter, n)
                    /\ Updated(leaf, m, n, st).schnorr = leaf.schnorr
  BY DEF Updated, Leaf
<1>5. \A n \in 0 .. MaxLength : \A st :
        /\ Settled(leaf, n, amount, fee, st).Counter = leaf.Counter + n
        /\ Settled(leaf, n, amount, fee, st).schnorr = leaf.schnorr
  <2> TAKE n \in 0 .. MaxLength
  <2> TAKE st
  <2>1. CASE n = 0
    BY <1>1, <2>1 DEF Settled
  <2>2. CASE n # 0
    BY <1>2, <1>4, <2>2 DEF Settled
  <2> QED
    BY <2>1, <2>2
<1>6. \A s, b : Rekeyed(leaf, s, b, fee).Counter = leaf.Counter + 1
  BY <1>3 DEF Rekeyed, Leaf
<1>7. /\ Credited(leaf, amount).Counter = leaf.Counter
      /\ Credited(leaf, amount).schnorr = leaf.schnorr
      /\ \A p : /\ BatchCredited(leaf, p, amount, fee).Counter = leaf.Counter
                /\ BatchCredited(leaf, p, amount, fee).schnorr = leaf.schnorr
  BY DEF Credited, BatchCredited, Leaf
<1> QED
  BY <1>3, <1>4, <1>5, <1>6, <1>7 DEF Debited, Released

\* Nobody is listed in a batch more often than there is room for addresses.
LEMMA BatchRoom ==
    ASSUME NEW raw \in RawTxs, selectTxType(raw.data) = "batch",
           fetchTx(raw.data) = 0, ~TooShort(raw.data)
    PROVE  \A a : Occurrences(Members(raw.data), a) \in 0 .. MaxLength
<1>1. PICK n : n = raw.data.length
  OBVIOUS
<1>2. PICK p : p = raw.data.addresses
  OBVIOUS
<1>3. n \in Nat /\ n <= 1401 /\ n >= 177 /\ Len(p) = (n - 177) \div 4 /\ p \in Seq(Addresses)
  <2>1. n \in Nat /\ (~TooShort(raw.data) => Len(p) = (n - 177) \div 4)
    BY <1>1, <1>2, RawTxsAssumption
  <2>2. p \in Seq(Addresses)
    BY <1>2, FieldsAssumption
  <2> QED
    BY <1>1, <2>1, <2>2 DEF fetchTx, TooShort, MaxLength
<1>4. Len(p) \in Nat /\ Len(p) <= 1401
  <2>1. Len(p) \in Nat /\ n - 177 \in 0 .. 1224
    BY <1>3
  <2>2. \A k \in 0 .. 1224 : k \div 4 <= 1224
    BY ONLY SMTT(30)
  <2> QED
    BY <1>3, <2>1, <2>2
<1>5. PICK m : m = Members(raw.data)
  OBVIOUS
<1>6. m \in Seq(Addresses) /\ Len(m) \in Nat /\ Len(m) <= Len(p)
  <2>1. m = IF raw.data.tail \/ p = <<>> THEN p ELSE SubSeq(p, 1, Len(p) - 1)
    BY <1>2, <1>5 DEF Members, BatchMembers
  <2>2. CASE raw.data.tail \/ p = <<>>
    BY <1>3, <2>1, <2>2
  <2>3. CASE ~(raw.data.tail \/ p = <<>>)
    <3>1. m = SubSeq(p, 1, Len(p) - 1) /\ Len(p) >= 1
      BY <1>3, <2>1, <2>3
    <3> QED
      BY <1>3, <3>1
  <2> QED
    BY <2>2, <2>3
<1> SUFFICES ASSUME NEW a PROVE Occurrences(m, a) \in 0 .. MaxLength
  BY <1>5
<1>7. DOMAIN m = 1 .. Len(m)
  BY <1>6
<1>8. IsFiniteSet(1 .. Len(m)) /\ Cardinality(1 .. Len(m)) <= Len(m)
  BY <1>6, CountTo
<1>9. {i \in DOMAIN m : m[i] = a} \subseteq 1 .. Len(m)
  BY <1>7
<1>10. /\ Cardinality({i \in DOMAIN m : m[i] = a}) \in Nat
       /\ Cardinality({i \in DOMAIN m : m[i] = a}) <= Cardinality(1 .. Len(m))
       /\ Cardinality(1 .. Len(m)) \in Nat
  BY <1>8, <1>9, FS_Subset, FS_CardinalityType
<1>11. Occurrences(m, a) \in Nat /\ Occurrences(m, a) <= Cardinality(1 .. Len(m))
  BY <1>10 DEF Occurrences
<1>12. PICK c, l : c = Occurrences(m, a) /\ l = Len(m)
  OBVIOUS
<1>13. c \in Nat /\ c <= l /\ l <= 1401 /\ l \in Nat
  BY ONLY <1>4, <1>6, <1>8, <1>10, <1>11, <1>12
<1>14. c \in 0 .. MaxLength
  BY <1>13 DEF MaxLength
<1> QED
  BY ONLY <1>12, <1>14

\* Writing one record changes the counter of one account.
LEMMA OneCounts ==
    ASSUME NEW L, IsMap(L, Addresses, Leaf), NEW s \in DOMAIN L, NEW leaf, Later(L[s], leaf)
    PROVE  LET M == [L EXCEPT ![s] = leaf] IN
             DOMAIN M = DOMAIN L /\ \A a \in DOMAIN L : Later(L[a], M[a])
<1>1. \A a \in DOMAIN L : L[a] \in Leaf
  BY DEF IsMap
<1>2. \A a \in DOMAIN L : L[a].Counter <= L[a].Counter
  BY <1>1, WordAssumption DEF Leaf, UInt32
<1> QED
  BY <1>2 DEF Later

\* What the source of a transaction signed with, it does not sign with again,
\* except where exectx.go leaves the counter alone: the batcher of a batch, the
\* source of a release without a stake.
LEMMA AccountsCount ==
    ASSUME AccountsInv, ValidatorsTypeOK, CountersLeft, NEW raw \in RawTxs,
           accountsCode(raw.data) = 0, selectTxType(raw.data) # "none",
           fetchTx(raw.data) = 0, ~TooShort(raw.data), ExecAccounts(raw.data)
    PROVE  /\ accountTree' = accountTree
           /\ DOMAIN Live' = DOMAIN Live
           /\ \A a \in DOMAIN Live : Later(Live[a], Live'[a])
           /\ selectTxType(raw.data) \notin {"batch", "release"} =>
                Live[raw.data.source].Counter < Live'[raw.data.source].Counter
<1> DEFINE d == raw.data
           s == d.source
           fee == Fee(d)
           k == fetchAccount(s).schnorrPubKey
<1>1. d \in TxData
  BY DEF TxData
<1>2. PICK L : L = Live
  OBVIOUS
<1>3. /\ s \in Addresses /\ fee \in UInt32 /\ d.amount \in UInt32
      /\ d.state \in States \cup {NoState} /\ NoState \in States \cup {NoState}
      /\ d.schnorr \in Keys /\ d.bls \in BlsKeys
      /\ d.addresses \in Seq(Addresses) /\ d.tail \in BOOLEAN
      /\ 0 \in UInt32
  BY <1>1, AccountsFound, FieldTypes, WordAssumption DEF UInt32
<1>4. selectTxType(d) \in {"update", "release", "stake", "transfer", "change",
                           "create", "batch", "contract"}
  BY KindOf, AccountsFound DEF Kinds
<1>5. /\ IsMap(L, Addresses, Leaf) /\ s \in DOMAIN L
      /\ \A a \in DOMAIN L : /\ L[a] \in Leaf /\ L[a].Counter + MaxLength < Word
                             /\ L[a].Counter \in Int /\ Later(L[a], L[a])
  <2>1. IsMap(L, Addresses, Leaf)
    BY <1>2, LiveMap
  <2>2. s \in DOMAIN L
    BY <1>2, AccountsFound DEF Live
  <2>3. \A a \in DOMAIN L : L[a] \in Leaf
    BY <2>1 DEF IsMap
  <2>4. \A a \in DOMAIN L : L[a].Counter \in Int
    BY <2>3, WordAssumption DEF Leaf, UInt32
  <2> QED
    BY <1>2, <2>1, <2>2, <2>3, <2>4 DEF CountersLeft, Later
<1> DEFINE Counted(M) ==
      /\ DOMAIN M = DOMAIN L
      /\ \A a \in DOMAIN L : Later(L[a], M[a])
      /\ L[s].Counter < M[s].Counter
<1>6. \A leaf : leaf.Counter = L[s].Counter + 1 => Counted([L EXCEPT ![s] = leaf])
  <2> TAKE leaf
  <2> HAVE leaf.Counter = L[s].Counter + 1
  <2>1. Later(L[s], leaf) /\ L[s].Counter < leaf.Counter
    BY <1>5 DEF Later
  <2> QED
    BY <1>5, <2>1, OneCounts
<1> SUFFICES /\ accountTree' = accountTree
             /\ \/ Counted(Live')
                \/ /\ selectTxType(d) \in {"batch", "release"}
                   /\ DOMAIN Live' = DOMAIN L /\ \A a \in DOMAIN L : Later(L[a], Live'[a])
  BY <1>2
<1> HIDE DEF d, s, fee, Counted
<1>7. /\ \A amount \in UInt32 : \A st : Debited(L[s], amount, fee, st).Counter = L[s].Counter + 1
      /\ \A amount \in UInt32 : Released(L[s], amount, fee).Counter = L[s].Counter + 1
      /\ \A x, y : Rekeyed(L[s], x, y, fee).Counter = L[s].Counter + 1
  BY <1>3, <1>5, RecordCounters
<1>8. ASSUME NEW T, NEW amount \in UInt32, NEW st \in States \cup {NoState},
             ExecUpdate(s, T, amount, fee, st)
      PROVE  accountTree' = accountTree /\ Counted(Live')
  <2>1. Abstract!Update(s, amount, fee, st)
    BY <1>3, <1>8, UpdateRefines
  <2>2. Live' = [L EXCEPT ![s] = Debited(L[s], amount, fee, st)]
    BY <1>2, <2>1, SameRecords DEF Abstract!Update
  <2> QED
    BY <1>6, <1>7, <1>8, <2>2 DEF ExecUpdate
<1>9. CASE selectTxType(d) \in {"update", "stake", "contract"}
  <2>1. \/ ExecUpdate(s, {}, 0, fee, d.state)
        \/ ExecUpdate(s, {}, d.amount, fee, NoState)
        \/ ExecUpdate(s, {d.target}, d.amount, fee, NoState)
    BY <1>9 DEF ExecAccounts, s, fee, d
  <2> QED
    BY <1>3, <1>8, <2>1
<1>10. CASE selectTxType(d) = "create"
  <2>1. ExecCreateAccount(s, d.amount, fee, d.schnorr, d.bls)
    BY <1>10 DEF ExecAccounts, s, fee, d
  <2>2. Abstract!Open(s, d.amount, fee, d.schnorr, d.bls)
    BY <1>3, <2>1, CreateRefines
  <2>3. Live' = [L EXCEPT ![s] = Debited(L[s], d.amount, fee, NoState)]
    BY <1>2, <2>2, SameRecords DEF Abstract!Open
  <2> QED
    BY <1>3, <1>6, <1>7, <2>1, <2>3 DEF ExecCreateAccount
<1>11. CASE selectTxType(d) = "change"
  <2>1. ExecAccountKeyChanger(s, d.schnorr, d.bls, fee)
    BY <1>11 DEF ExecAccounts, s, fee, d
  <2>2. Abstract!ChangeKeys(s, d.schnorr, d.bls, fee)
    BY <1>3, <2>1, KeyChangeRefines
  <2>3. Live' = [L EXCEPT ![s] = Rekeyed(L[s], d.schnorr, d.bls, fee)]
    BY <1>2, <2>2, SameRecords DEF Abstract!ChangeKeys
  <2> QED
    BY <1>6, <1>7, <2>1, <2>3 DEF ExecAccountKeyChanger
<1>12. CASE selectTxType(d) = "release"
  <2>1. CASE k \in DOMAIN validatorTree
    <3>1. PICK w : w = Wrap(validatorTree[k])
      OBVIOUS
    <3>2. ExecRelease(s, w, fee)
      BY <1>12, <2>1, <3>1 DEF ExecAccounts, s, fee, d
    <3>3. w \in UInt32
      <4>1. validatorTree[k] \in Int
        BY <2>1 DEF ValidatorsTypeOK, IsMap
      <4> QED
        BY <3>1, <4>1, WrapType
    <3>4. Abstract!Release(s, w, fee)
      BY <1>3, <3>2, ReleaseRefines
    <3>5. Live' = [L EXCEPT ![s] = Released(L[s], w, fee)]
      BY <1>2, <3>4, SameRecords DEF Abstract!Release
    <3> QED
      BY <1>6, <1>7, <3>2, <3>3, <3>5 DEF ExecRelease
  <2>2. CASE k \notin DOMAIN validatorTree
    <3>1. Fetch({s})
      BY <1>12, <2>2 DEF ExecAccounts, s, d
    <3>2. accountTree' = accountTree /\ Live' = L
      BY <1>2, <3>1, FetchRefines
    <3> QED
      BY <1>5, <1>12, <3>2
  <2> QED
    BY <2>1, <2>2
<1>13. CASE selectTxType(d) = "transfer"
  <2>1. ExecTransfer(s, d.target, d.amount, fee, d.state) /\ d.target \in Addresses
    BY <1>13, AccountsFound DEF ExecAccounts, TargetsOf, s, fee, d
  <2>2. PICK t, amount, st : t = d.target /\ amount = d.amount /\ st = d.state
    OBVIOUS
  <2>3. Abstract!Transfer(s, t, amount, fee, st) /\ amount \in UInt32
    BY <1>3, <2>1, <2>2, TransferRefines
  <2>4. PICK paid : paid = [L EXCEPT ![s] = Debited(L[s], amount, fee, st)]
    OBVIOUS
  <2>5. t \in DOMAIN paid /\ Live' = [paid EXCEPT ![t] = Credited(paid[t], amount)]
    BY <1>2, <2>3, <2>4, SameRecords DEF Abstract!Transfer
  <2>6. Counted(paid)
    BY <1>6, <1>7, <2>3, <2>4
  <2>7. /\ Credited(paid[t], amount).Counter = paid[t].Counter
        /\ Credited(paid[t], amount).schnorr = paid[t].schnorr
    BY DEF Credited
  <2>8. Counted(Live')
    BY <1>5, <2>5, <2>6, <2>7 DEF Counted, Later
  <2> QED
    BY <2>1, <2>8 DEF ExecTransfer
<1>14. CASE selectTxType(d) = "batch"
  <2>1. ExecBatch(s, d.addresses, d.tail, d.amount, fee, d.state)
    BY <1>14 DEF ExecAccounts, s, fee, d
  <2>2. PICK p, tail, amount, st :
          p = d.addresses /\ tail = d.tail /\ amount = d.amount /\ st = d.state
    OBVIOUS
  <2>3. /\ Abstract!Settle(s, p, tail, amount, fee, st)
        /\ amount \in UInt32
    BY <1>3, <2>1, <2>2, BatchRefines
  <2>4. PICK n : n = [a \in DOMAIN L |-> Occurrences(BatchMembers(p, tail), a)]
    OBVIOUS
  <2>5. PICK settled : settled = [a \in DOMAIN L |-> Settled(L[a], n[a], amount, fee, st)]
    OBVIOUS
  <2>6. Live' = [settled EXCEPT ![s] = BatchCredited(settled[s], p, amount, fee)]
    BY <1>2, <2>3, <2>4, <2>5, SameRecords DEF Abstract!Settle
  <2>7. \A a \in DOMAIN L : n[a] \in 0 .. MaxLength
    BY <1>14, <2>2, <2>4, BatchRoom DEF Members, d
  <2>8. \A a \in DOMAIN L : /\ settled[a].Counter = L[a].Counter + n[a]
                            /\ settled[a].schnorr = L[a].schnorr
    BY <1>3, <1>5, <2>3, <2>5, <2>7, RecordCounters
  <2>9. /\ BatchCredited(settled[s], p, amount, fee).Counter = settled[s].Counter
        /\ BatchCredited(settled[s], p, amount, fee).schnorr = settled[s].schnorr
    BY DEF BatchCredited
  <2>10. DOMAIN Live' = DOMAIN L /\ \A a \in DOMAIN L : Later(L[a], Live'[a])
    <3>1. DOMAIN Live' = DOMAIN L /\ DOMAIN settled = DOMAIN L
      BY <2>5, <2>6
    <3>2. \A a \in DOMAIN L : /\ Live'[a].Counter = L[a].Counter + n[a]
                              /\ Live'[a].schnorr = L[a].schnorr
      BY <1>5, <2>6, <2>8, <2>9, <3>1
    <3>3. \A a \in DOMAIN L : L[a].Counter <= L[a].Counter + n[a]
      <4>1. \A x \in Int, y \in 0 .. MaxLength : x <= x + y
        BY DEF MaxLength
      <4> QED
        BY ONLY <1>5, <2>7, <4>1
    <3> QED
      BY <3>1, <3>2, <3>3 DEF Later
  <2> QED
    BY <1>14, <2>1, <2>10 DEF ExecBatch
<1> QED
  BY <1>4, <1>9, <1>10, <1>11, <1>12, <1>13, <1>14

-----------------------------------------------------------------------------
(***************************************************************************)
(* Signatures are spent once.                                              *)
(***************************************************************************)
\* The counter of key has been used up in accounts, if its transaction uses
\* counters up.
Spent(accounts, key, hash) ==
    selectTxType(hash.data) \notin {"batch", "release"} =>
        key[1] \in DOMAIN accounts /\ key[2] \in UInt32 /\ key[2] < accounts[key[1]].Counter

TreeSpent(accounts, t) == \A key \in DOMAIN t : Spent(accounts, key, t[key])

\* What is filed of a transaction is its digest, extended or not.
IsHashOf(hash, d) == hash = [data |-> d, calls |-> hash.calls]

\* A transaction CheckTx has accepted was signed with the credentials of its
\* account, if they are still the same.
SignedFor(d, checked, account) ==
    /\ IsHashOf(checked.hash, d)
    /\ checked.counter \in UInt32
    /\ checked.counter <= account.Counter
    /\ checked.counter = account.Counter =>
         \E raw \in RawTxs : /\ raw.data = d
                             /\ raw.signer = account.schnorr
                             /\ raw.counter = account.Counter

SpentInv ==
    /\ \A a \in DOMAIN accountTree : Later(accountTree[a], Live[a])
    /\ \A d \in DOMAIN txMap :
         d.source \in DOMAIN accountTree /\ SignedFor(d, txMap[d], accountTree[d.source])
    /\ \A i \in DOMAIN txQueue : Spent(Live, txQueue[i].key, txQueue[i].val)
    /\ TreeSpent(accountTree, txStorageTree) /\ TreeSpent(accountTree, txStorageTree2)

\* What it says of the two properties.
LEMMA SpentProperties ==
    ASSUME SpentInv
    PROVE  StoredTxsAreSpent /\ CachedWereSigned
<1>1. StoredTxsAreSpent
  BY DEF StoredTxsAreSpent, SpentInv, TreeSpent, Spent
<1>2. CachedWereSigned
  BY DEF SpentInv, SignedFor, CachedWereSigned
<1> QED
  BY <1>1, <1>2

\* Records that became others, and these others.
LEMMA LaterOrder ==
    ASSUME NEW x \in Leaf, NEW y \in Leaf, NEW z \in Leaf, Later(x, y), Later(y, z)
    PROVE  Later(x, z) /\ Later(x, x)
<1>1. x.Counter \in Int /\ y.Counter \in Int /\ z.Counter \in Int
  BY WordAssumption DEF Leaf, UInt32
<1> QED
  BY <1>1 DEF Later

\* What is spent stays spent.
LEMMA SpentStays ==
    ASSUME NEW A, NEW B, IsMap(A, Addresses, Leaf), IsMap(B, Addresses, Leaf),
           DOMAIN A \subseteq DOMAIN B, \A a \in DOMAIN A : Later(A[a], B[a]),
           NEW key, NEW hash, Spent(A, key, hash)
    PROVE  Spent(B, key, hash)
<1> SUFFICES ASSUME selectTxType(hash.data) \notin {"batch", "release"}
             PROVE  key[1] \in DOMAIN B /\ key[2] \in UInt32 /\ key[2] < B[key[1]].Counter
  BY DEF Spent
<1>1. key[1] \in DOMAIN A /\ key[2] \in UInt32 /\ key[2] < A[key[1]].Counter
  BY DEF Spent
<1>2. A[key[1]] \in Leaf /\ B[key[1]] \in Leaf /\ Later(A[key[1]], B[key[1]])
  BY <1>1 DEF IsMap
<1>3. /\ A[key[1]].Counter \in Int /\ B[key[1]].Counter \in Int /\ key[2] \in Int
      /\ A[key[1]].Counter <= B[key[1]].Counter
  BY <1>1, <1>2, WordAssumption DEF Leaf, UInt32, Later
<1> QED
  BY <1>1, <1>2, <1>3

\* What was signed for an account was signed for it later on.
LEMMA SignedStays ==
    ASSUME NEW d, NEW checked, NEW x \in Leaf, NEW y \in Leaf, SignedFor(d, checked, x), Later(x, y)
    PROVE  SignedFor(d, checked, y)
<1>1. checked.counter \in Int /\ x.Counter \in Int /\ y.Counter \in Int
  BY WordAssumption DEF Leaf, UInt32, SignedFor
<1>2. checked.counter <= y.Counter
  BY <1>1 DEF SignedFor, Later
<1>3. ASSUME checked.counter = y.Counter
      PROVE  \E raw \in RawTxs : raw.data = d /\ raw.signer = y.schnorr /\ raw.counter = y.Counter
  <2>1. checked.counter = x.Counter /\ y.Counter = x.Counter /\ y.schnorr = x.schnorr
    BY <1>1, <1>3 DEF SignedFor, Later
  <2> QED
    BY <2>1 DEF SignedFor
<1> QED
  BY <1>2, <1>3 DEF SignedFor

\* AddBatch adds what is in the queue.
LEMMA AddBatchFrom ==
    ASSUME NEW t, NEW new \in AddBatch(t), NEW key \in DOMAIN new
    PROVE  \/ HasEntry(t, key, new[key])
           \/ \E i \in DOMAIN txQueue : txQueue[i].key = key /\ txQueue[i].val = new[key]
<1> DEFINE fresh == {txQueue[i].key : i \in DOMAIN txQueue} \ DOMAIN t
<1>1. PICK kept \in [fresh -> {txQueue[i].val : i \in DOMAIN txQueue}] :
        /\ \A x \in fresh : kept[x] \in QueuedFor(x)
        /\ new = [x \in DOMAIN t \cup fresh |-> IF x \in fresh THEN kept[x] ELSE t[x]]
  BY DEF AddBatch
<1>2. CASE key \in fresh
  <2>1. new[key] \in QueuedFor(key)
    BY <1>1, <1>2
  <2> QED
    BY <2>1 DEF QueuedFor
<1>3. CASE key \notin fresh
  BY <1>1, <1>3 DEF HasEntry
<1> QED
  BY <1>2, <1>3

\* The accounts of a node, by the tree and as they are.
LEMMA AccountMaps ==
    ASSUME AccountsInv
    PROVE  /\ IsMap(accountTree, Addresses, Leaf) /\ IsMap(Live, Addresses, Leaf)
           /\ DOMAIN Live = DOMAIN accountTree
           /\ \A a \in DOMAIN accountTree : accountTree[a] \in Leaf /\ Live[a] \in Leaf
<1>1. IsMap(accountTree, Addresses, Leaf) /\ IsMap(Live, Addresses, Leaf)
  BY LiveMap DEF AccountsInv, AccountsTypeOK
<1>2. DOMAIN Live = DOMAIN accountTree
  BY DEF Live
<1> QED
  BY <1>1, <1>2 DEF IsMap

\* The key and the counter of an account that is fetched are the tree's.
LEMMA FetchedCredentials ==
    ASSUME AccountsInv, NEW a, Found(a)
    PROVE  /\ a \in DOMAIN accountTree
           /\ fetchAccount(a).counter = accountTree[a].Counter
           /\ fetchAccount(a).schnorrPubKey = accountTree[a].schnorr
BY DEF AccountsInv, CacheCoherent, CredentialsAreCommitted, Found, fetchAccount, FromTree

\* A step leaves a map of accounts, too.
LEMMA LiveMapPrimed == AccountsInv' => IsMap(Live, Addresses, Leaf)'
<1>1. AccountsInv => IsMap(Live, Addresses, Leaf)
  BY LiveMap
<1> QED
  BY <1>1, PTL

\* A step that only fetches, or only forgets txMap.
LEMMA SpentSame ==
    ASSUME SpentInv, UNCHANGED <<accountTree, Live, txQueue, txStorageTree, txStorageTree2>>,
           txMap' = txMap \/ txMap' = EmptyMap
    PROVE  SpentInv'
<1>1. DOMAIN EmptyMap = {}
  BY EmptyHasNoKey
<1>2. \A d \in DOMAIN txMap' :
        d.source \in DOMAIN accountTree' /\ SignedFor(d, txMap'[d], accountTree'[d.source])
  BY <1>1 DEF SpentInv
<1> QED
  BY <1>2 DEF SpentInv, TreeSpent

\* The check of a signature is what txMap remembers of it.
LEMMA CheckSpent ==
    ASSUME NodeInv, SpentInv, NEW raw \in RawTxs, CheckTx(raw)
    PROVE  SpentInv'
<1> DEFINE d == raw.data
           checked == Checked(fetchAccount(d.source).counter, Digest(d))
<1>1. AccountsInv /\ Fetch(FetchedBy(d, CheckTxCode(raw)))
      /\ UNCHANGED <<txQueue, txStorageTree, txStorageTree2>>
      /\ txMap' = IF CheckTxCode(raw) = 0 THEN With(txMap, d, checked) ELSE txMap
  BY DEF NodeInv, CheckTx, txStoreVars
<1>2. UNCHANGED <<accountTree, Live>>
  BY <1>1, FetchRefines
<1>3. CASE CheckTxCode(raw) # 0
  BY <1>1, <1>2, <1>3, SpentSame
<1>4. CASE CheckTxCode(raw) = 0
  <2>1. isSigned(raw)
    BY <1>4 DEF CheckTxCode, isValid, fetchTx
  <2>2. /\ d.source \in DOMAIN accountTree
        /\ raw.signer = accountTree[d.source].schnorr
        /\ raw.counter = accountTree[d.source].Counter
        /\ fetchAccount(d.source).counter = accountTree[d.source].Counter
    BY <1>1, <2>1, FetchedCredentials DEF isSigned
  <2>3. accountTree[d.source].Counter \in UInt32
    BY <1>1, <2>2, AccountMaps DEF Leaf
  <2>4. SignedFor(d, checked, accountTree[d.source])
    <3>1. checked.counter = accountTree[d.source].Counter /\ checked.hash = Digest(d)
      BY <2>2 DEF Checked
    <3>2. IsHashOf(checked.hash, d)
      BY <3>1 DEF IsHashOf, Digest
    <3>3. accountTree[d.source].Counter <= accountTree[d.source].Counter
      BY <2>3, WordAssumption DEF UInt32
    <3> QED
      BY <2>2, <2>3, <3>1, <3>2, <3>3 DEF SignedFor
  <2> HIDE DEF d, checked
  <2>5. DOMAIN txMap' = DOMAIN txMap \cup {d}
        /\ \A e \in DOMAIN txMap' : txMap'[e] = IF e = d THEN checked ELSE txMap[e]
    BY <1>1, <1>4 DEF With
  <2>6. \A e \in DOMAIN txMap' :
          e.source \in DOMAIN accountTree /\ SignedFor(e, txMap'[e], accountTree[e.source])
    BY <2>2, <2>4, <2>5 DEF SpentInv
  <2> QED
    BY <1>1, <1>2, <2>6 DEF SpentInv, TreeSpent
<1> QED
  BY <1>3, <1>4

\* What DeliverTx lets through has a length and its slices.
LEMMA DeliveredForm ==
    ASSUME CheckedTxs, NEW raw, DeliverTxCode(raw) = 0
    PROVE  /\ accountsCode(raw.data) = 0 /\ selectTxType(raw.data) # "none"
           /\ fetchTx(raw.data) = 0 /\ ~TooShort(raw.data)
<1>1. CASE fetchTx(raw.data) = 0 /\ inCache(raw.data)
  BY <1>1, DeliveredCode DEF CheckedTxs, inCache
<1>2. CASE ~(fetchTx(raw.data) = 0 /\ inCache(raw.data))
  <2>1. CheckTxCode(raw) = 0
    BY <1>2 DEF DeliverTxCode
  <2> QED
    BY <2>1, CheckedCode DEF CheckTxCode, fetchTx
<1> QED
  BY <1>1, <1>2

\* Whatever is executed, its signature is spent with it - where counters move.
LEMMA AcceptSpent ==
    ASSUME NodeInv, SpentInv, CountersLeft, NEW raw \in RawTxs, Accept(raw)
    PROVE  SpentInv'
<1> DEFINE d == raw.data
           key == <<SourceAfter(d), CounterOfTx(d)>>
<1>1. /\ ExecAccounts(d) /\ EnqueueTx(key, HashAfter(d)) /\ txMap' = txMapAfter(d)
      /\ AccountsInv /\ ValidatorsTypeOK
  BY DEF Accept, NodeInv, ValidatorsInv
<1>2. /\ accountsCode(d) = 0 /\ selectTxType(d) # "none"
      /\ fetchTx(d) = 0 /\ ~TooShort(d)
  BY DeliveredForm DEF Accept, NodeInv
<1>3. /\ accountTree' = accountTree /\ DOMAIN Live' = DOMAIN Live
      /\ \A a \in DOMAIN Live : Later(Live[a], Live'[a])
      /\ selectTxType(d) \notin {"batch", "release"} => Live[d.source].Counter < Live'[d.source].Counter
  BY <1>1, <1>2, AccountsCount
<1>4. d \in TxData
  BY DEF TxData
<1> HIDE DEF d
<1>5. AccountsInv'
  BY <1>1, <1>2, <1>4, ExecAccountsStep
<1>6. PICK L : L = Live'
  OBVIOUS
<1>7. IsMap(L, Addresses, Leaf) /\ \A a \in DOMAIN accountTree : L[a] \in Leaf
  <2>1. IsMap(Live', Addresses, Leaf)
    BY <1>5, LiveMapPrimed
  <2> QED
    BY <1>3, <1>6, <2>1 DEF IsMap, Live
<1>8. \A a \in DOMAIN accountTree : Later(accountTree[a], L[a])
  <2> TAKE a \in DOMAIN accountTree
  <2>1. Later(accountTree[a], Live[a]) /\ Later(Live[a], L[a])
    BY <1>1, <1>3, <1>6, AccountMaps DEF SpentInv
  <2> QED
    BY <1>1, <1>7, <2>1, AccountMaps, LaterOrder
<1>9. /\ d.source \in DOMAIN accountTree
      /\ IsHashOf(HashOfTx(d), d)
      /\ CounterOfTx(d) \in UInt32 /\ CounterOfTx(d) <= accountTree[d.source].Counter
  <2>1. d.source \in DOMAIN accountTree
    BY <1>1, <1>2, AccountsFound
  <2>2. CASE inCache(d)
    BY <2>1, <2>2 DEF inCache, HashOfTx, CounterOfTx, SpentInv, SignedFor
  <2>3. CASE ~inCache(d)
    <3>1. CounterOfTx(d) = accountTree[d.source].Counter
      BY <1>1, <2>1, <2>3, FetchedCredentials DEF CounterOfTx, Found
    <3>2. accountTree[d.source].Counter \in UInt32
      BY <1>1, <2>1, AccountMaps DEF Leaf
    <3>3. accountTree[d.source].Counter <= accountTree[d.source].Counter
      BY <3>2, WordAssumption DEF UInt32
    <3> QED
      BY <2>1, <2>3, <3>1, <3>2, <3>3 DEF HashOfTx, IsHashOf, Digest
  <2> QED
    BY <2>2, <2>3
<1>10. IsHashOf(HashAfter(d), d)
  BY <1>9 DEF HashAfter, IsHashOf, Extended
<1>11. \A e \in DOMAIN txMap' :
         e.source \in DOMAIN accountTree /\ SignedFor(e, txMap'[e], accountTree[e.source])
  <2>1. CASE selectTxType(d) # "contract"
    BY <1>1, <2>1 DEF txMapAfter, SpentInv
  <2>2. CASE selectTxType(d) = "contract" /\ ~inCache(d)
    BY <1>1, <2>2 DEF txMapAfter, SpentInv
  <2>3. CASE selectTxType(d) = "contract" /\ inCache(d)
    <3>1. txMap' = [txMap EXCEPT ![d].hash = HashAfter(d)] /\ d \in DOMAIN txMap
      BY <1>1, <2>3 DEF txMapAfter, inCache
    <3>2. txMap[d] \in [counter : UInt32, hash : TxHashes]
      BY <3>1 DEF NodeInv, CheckedTxs, IsMap
    <3>3. txMap'[d].hash = HashAfter(d) /\ txMap'[d].counter = txMap[d].counter
      BY <3>1, <3>2
    <3>4. SignedFor(d, txMap'[d], accountTree[d.source])
      BY <1>10, <3>1, <3>3 DEF SignedFor, SpentInv
    <3> QED
      BY <3>1, <3>4 DEF SpentInv
  <2> QED
    BY <2>1, <2>2, <2>3
<1>12. Spent(L, key, HashAfter(d))
  <2> SUFFICES ASSUME selectTxType(d) \notin {"batch", "release"}
               PROVE  key[1] \in DOMAIN L /\ key[2] \in UInt32 /\ key[2] < L[key[1]].Counter
    BY <1>10 DEF Spent, IsHashOf
  <2>1. key[1] = d.source /\ key[2] = CounterOfTx(d)
    BY DEF SourceAfter
  <2>2. /\ d.source \in DOMAIN Live /\ d.source \in DOMAIN L
        /\ Live[d.source] \in Leaf /\ L[d.source] \in Leaf /\ accountTree[d.source] \in Leaf
        /\ Later(accountTree[d.source], Live[d.source])
        /\ Live[d.source].Counter < L[d.source].Counter
    BY <1>1, <1>3, <1>6, <1>7, <1>9, AccountMaps DEF SpentInv
  <2>3. CounterOfTx(d) < L[d.source].Counter
    BY <1>9, <2>2, WordAssumption DEF Leaf, UInt32, Later
  <2> QED
    BY <1>9, <2>1, <2>2, <2>3
<1> HIDE DEF key
<1>13. \A i \in DOMAIN txQueue' : Spent(L, txQueue'[i].key, txQueue'[i].val)
  <2>1. txQueue' = Append(txQueue, Queued(key, HashAfter(d)))
        /\ txQueue \in Seq([key : TxKeys, val : TxHashes])
    BY <1>1 DEF EnqueueTx, NodeInv, TxStoreInv, TxStoreTypeOK
  <2> TAKE i \in DOMAIN txQueue'
  <2>2. CASE i \in DOMAIN txQueue
    <3>1. txQueue'[i] = txQueue[i]
      BY <2>1, <2>2
    <3>2. Spent(Live, txQueue[i].key, txQueue[i].val)
      BY <2>2 DEF SpentInv
    <3>3. IsMap(Live, Addresses, Leaf) /\ DOMAIN Live \subseteq DOMAIN L
          /\ \A a \in DOMAIN Live : Later(Live[a], L[a])
      BY <1>1, <1>3, <1>6, AccountMaps
    <3> QED
      BY <1>7, <3>1, <3>2, <3>3, SpentStays
  <2>3. CASE i \notin DOMAIN txQueue
    <3>1. txQueue'[i] = Queued(key, HashAfter(d))
      BY <2>1, <2>3
    <3> QED
      BY <1>12, <3>1 DEF Queued
  <2> QED
    BY <2>2, <2>3
<1>14. TreeSpent(accountTree, txStorageTree') /\ TreeSpent(accountTree, txStorageTree2')
  BY <1>1 DEF EnqueueTx, SpentInv
<1> QED
  BY <1>3, <1>6, <1>8, <1>11, <1>13, <1>14 DEF SpentInv, TreeSpent

\* The tree a commit leaves is that of the accounts as they are, and everything
\* that is in the transaction trees, or is added to them, is spent in it.
LEMMA CommittedSpent ==
    ASSUME AccountsInv, SpentInv
    PROVE  /\ IsMap(CommittedTree, Addresses, Leaf)
           /\ DOMAIN accountTree \subseteq DOMAIN CommittedTree
           /\ \A a \in DOMAIN accountTree : Later(accountTree[a], CommittedTree[a])
           /\ TreeSpent(CommittedTree, txStorageTree) /\ TreeSpent(CommittedTree, txStorageTree2)
           /\ \A t \in AddBatch(txStorageTree) : TreeSpent(CommittedTree, t)
<1>1. IsMap(CommittedTree, Addresses, Leaf)
  BY CommittedAccounts
<1>2. DOMAIN accountTree \subseteq DOMAIN CommittedTree
  BY DEF CommittedTree
<1>3. \A a \in DOMAIN accountTree : CommittedTree[a] = Live[a]
  BY DEF CommittedTree, Live, fetchAccount, FromTree, AccountsInv, CacheCoherent
<1>4. PICK C : C = CommittedTree
  OBVIOUS
<1>5. /\ IsMap(accountTree, Addresses, Leaf) /\ IsMap(Live, Addresses, Leaf)
      /\ DOMAIN Live \subseteq DOMAIN C
      /\ \A a \in DOMAIN accountTree : Later(accountTree[a], C[a])
      /\ \A a \in DOMAIN Live : Later(Live[a], C[a])
  <2>1. /\ IsMap(accountTree, Addresses, Leaf) /\ IsMap(Live, Addresses, Leaf)
        /\ DOMAIN Live = DOMAIN accountTree /\ \A a \in DOMAIN Live : Live[a] \in Leaf
    BY AccountMaps
  <2>2. \A a \in DOMAIN accountTree : Later(accountTree[a], Live[a])
    BY DEF SpentInv
  <2>3. \A a \in DOMAIN Live : Later(Live[a], Live[a])
    BY <2>1, WordAssumption DEF Later, Leaf, UInt32
  <2>4. \A a \in DOMAIN Live : C[a] = Live[a]
    BY <1>3, <1>4, <2>1
  <2> QED
    BY <1>2, <1>4, <2>1, <2>2, <2>3, <2>4
<1>6. TreeSpent(C, txStorageTree) /\ TreeSpent(C, txStorageTree2)
  BY <1>1, <1>2, <1>4, <1>5, SpentStays DEF SpentInv, TreeSpent
<1>7. ASSUME NEW t \in AddBatch(txStorageTree), NEW key \in DOMAIN t
      PROVE  Spent(C, key, t[key])
  <2>1. CASE HasEntry(txStorageTree, key, t[key])
    BY <1>6, <2>1 DEF TreeSpent, HasEntry
  <2>2. CASE \E i \in DOMAIN txQueue : txQueue[i].key = key /\ txQueue[i].val = t[key]
    BY <1>1, <1>4, <1>5, <2>2, SpentStays DEF SpentInv
  <2> QED
    BY <1>7, <2>1, <2>2, AddBatchFrom
<1> QED
  BY <1>1, <1>2, <1>4, <1>5, <1>6, <1>7 DEF TreeSpent

\* The commit.
LEMMA CommitSpent ==
    ASSUME NodeInv, SpentInv, CommitBlock
    PROVE  SpentInv'
<1>1. /\ AccountsInv /\ CommitAccounts /\ CommitTxs /\ txMap' = txMap
      /\ accountTree' = CommittedTree
  BY DEF NodeInv, CommitBlock, CommitAccounts
<1>2. Live' = accountTree'
  BY <1>1, CommitRefines DEF Abstract!Commit
<1>3. PICK C : C = accountTree'
  OBVIOUS
<1>4. /\ IsMap(C, Addresses, Leaf) /\ DOMAIN accountTree \subseteq DOMAIN C
      /\ \A a \in DOMAIN accountTree : Later(accountTree[a], C[a])
      /\ \A a \in DOMAIN C : C[a] \in Leaf
      /\ TreeSpent(C, txStorageTree) /\ TreeSpent(C, txStorageTree2)
      /\ \A t \in AddBatch(txStorageTree) : TreeSpent(C, t)
  BY <1>1, <1>3, CommittedSpent DEF IsMap
<1>5. \A a \in DOMAIN C : Later(C[a], C[a])
  BY <1>4, WordAssumption DEF Later, Leaf, UInt32
<1>6. \A d \in DOMAIN txMap : d.source \in DOMAIN C /\ SignedFor(d, txMap[d], C[d.source])
  <2> TAKE d \in DOMAIN txMap
  <2>1. d.source \in DOMAIN accountTree /\ SignedFor(d, txMap[d], accountTree[d.source])
    BY DEF SpentInv
  <2>2. accountTree[d.source] \in Leaf /\ C[d.source] \in Leaf /\ d.source \in DOMAIN C
    BY <1>1, <1>4, <2>1, AccountMaps
  <2> QED
    BY <1>4, <2>1, <2>2, SignedStays
<1>7. TreeSpent(C, txStorageTree') /\ TreeSpent(C, txStorageTree2') /\ DOMAIN txQueue' = {}
  <2>1. PICK tree \in AddBatch(txStorageTree) :
          IF SwapDue
          THEN txStorageTree' = EmptyMap /\ txStorageTree2' = tree
          ELSE txStorageTree' = tree /\ UNCHANGED txStorageTree2
    BY <1>1 DEF CommitTxs
  <2>2. TreeSpent(C, tree) /\ TreeSpent(C, EmptyMap)
    BY <1>4, EmptyHasNoKey DEF TreeSpent
  <2>3. DOMAIN txQueue' = {}
    BY <1>1 DEF CommitTxs
  <2> QED
    BY <1>4, <2>1, <2>2, <2>3
<1> QED
  BY <1>1, <1>2, <1>3, <1>5, <1>6, <1>7 DEF SpentInv

\* The end of the process: nothing is left of the queue and the cache.
LEMMA EndSpent ==
    ASSUME Forgotten, IsMap(accountTree', Addresses, Leaf),
           TreeSpent(accountTree', txStorageTree'), TreeSpent(accountTree', txStorageTree2')
    PROVE  SpentInv'
<1>1. DOMAIN txMap' = {} /\ DOMAIN txQueue' = {} /\ DOMAIN tempAccountMap' = {}
  BY EmptyHasNoKey DEF Forgotten
<1>2. Live' = accountTree'
  BY <1>1 DEF Live, fetchAccount, FromTree, IsMap
<1>3. \A a \in DOMAIN accountTree' : Later(accountTree'[a], accountTree'[a])
  <2> TAKE a \in DOMAIN accountTree'
  <2>1. accountTree'[a] \in Leaf
    BY DEF IsMap
  <2> QED
    BY <2>1, WordAssumption DEF Later, Leaf, UInt32
<1> QED
  BY <1>1, <1>2, <1>3 DEF SpentInv

\* Wherever in Commit it comes: the accounts are written before the transactions.
LEMMA CrashInCommitSpent ==
    ASSUME RestartInv, SpentInv, NEW n \in 1 .. Len(CommitOrder), CrashInCommit(n)
    PROVE  SpentInv'
<1>1. AccountsInv /\ Forgotten
  BY DEF CrashInCommit, RestartInv, NodeInv
<1>2. accountTree' = CommittedTree
  <2>1. CommitOrder[1] = "accounts" /\ 1 \in 1 .. n
    BY DEF CommitOrder
  <2>2. "accounts" \in Written(n)
    BY <2>1 DEF Written
  <2> QED
    BY <2>2 DEF CrashInCommit
<1>3. PICK C : C = accountTree'
  OBVIOUS
<1>4. /\ IsMap(C, Addresses, Leaf)
      /\ TreeSpent(C, txStorageTree) /\ TreeSpent(C, txStorageTree2)
      /\ \A t \in AddBatch(txStorageTree) : TreeSpent(C, t)
      /\ TreeSpent(C, EmptyMap)
  BY <1>1, <1>2, <1>3, CommittedSpent, EmptyHasNoKey DEF TreeSpent
<1>5. PICK tree \in AddBatch(txStorageTree) :
        ReopenedTxs(IF "txs" \in Written(n) THEN tree ELSE txStorageTree,
                    IF "clear" \in Written(n) THEN EmptyMap ELSE txStorageTree2)
  BY DEF CrashInCommit
<1>6. TreeSpent(C, txStorageTree') /\ TreeSpent(C, txStorageTree2')
  BY <1>4, <1>5 DEF ReopenedTxs
<1> QED
  BY <1>1, <1>3, <1>4, <1>6, EndSpent

\* Every step keeps it, and every start of the process.
LEMMA SpentStep ==
    RoomForTxs /\ RestartInv /\ SpentInv /\ CountersLeft /\ [RestartNext]_appVars => SpentInv'
<1> SUFFICES ASSUME RoomForTxs, RestartInv, SpentInv, CountersLeft, [RestartNext]_appVars
             PROVE  SpentInv'
  OBVIOUS
<1>1. CASE AppNext
  <2>1. CASE phase \notin {"genesis", "down"}
    <3>1. NodeInv /\ AccountsInv
      BY <2>1 DEF RestartInv, NodeInv
    <3>2. ASSUME (\E A : Fetch(A)) \/ UNCHANGED <<accountTree, tempAccountMap>>,
                 UNCHANGED <<txQueue, txStorageTree, txStorageTree2, txMap>>
          PROVE  SpentInv'
      <4>1. UNCHANGED <<accountTree, Live>>
        BY <3>1, <3>2, FetchRefines DEF Live, fetchAccount
      <4> QED
        BY <3>2, <4>1, SpentSame
    <3>3. CASE InitChain \/ \E signed, proposer, byzantine : BeginBlock(signed, proposer, byzantine)
      BY <3>2, <3>3 DEF InitChain, BeginBlock, accountsVars, txStoreVars
    <3>4. ASSUME NEW raw \in RawTxs, CheckTx(raw) \/ DeliverTx(raw) PROVE SpentInv'
      <4>1. CASE CheckTx(raw)
        BY <3>1, <4>1, CheckSpent
      <4>2. CASE Accept(raw)
        BY <3>1, <4>2, AcceptSpent
      <4>3. CASE Reject(raw) \/ DeliverTxPanics(raw)
        BY <3>2, <4>3 DEF Reject, DeliverTxPanics, txStoreVars
      <4> QED
        BY <3>4, <4>1, <4>2, <4>3 DEF DeliverTx
    <3>5. CASE EndBlock
      BY <3>2, <3>5 DEF EndBlock, EndBlockTxs, accountsVars
    <3>6. CASE CommitBlock
      BY <3>1, <3>6, CommitSpent
    <3>7. CASE Query
      BY <3>2, <3>7 DEF Query, FindAccountByPubKey, ToggleAccountWatch, txStoreVars
    <3> QED
      BY <1>1, <3>3, <3>4, <3>5, <3>6, <3>7 DEF AppNext
  <2>2. CASE phase = "genesis"
    <3>1. InitChain
      BY <1>1, <2>2, GenesisStep
    <3>2. UNCHANGED <<accountTree, Live, txQueue, txStorageTree, txStorageTree2, txMap>>
      BY <3>1 DEF InitChain, accountsVars, txStoreVars, Live, fetchAccount
    <3> QED
      BY <3>2, SpentSame
  <2> QED
    BY <1>1, <2>1, <2>2, DownStep
<1>2. CASE Crash
  <2>1. IsMap(accountTree', Addresses, Leaf) /\ Forgotten
    BY <1>2 DEF Crash, RestartInv, AppTypeOK, AccountsTypeOK
  <2>2. TreeSpent(accountTree', txStorageTree') /\ TreeSpent(accountTree', txStorageTree2')
    BY <1>2 DEF Crash, ReopenedTxs, SpentInv
  <2> QED
    BY <2>1, <2>2, EndSpent
<1>3. ASSUME NEW n \in 1 .. Len(CommitOrder), CrashInCommit(n) PROVE SpentInv'
  BY <1>3, CrashInCommitSpent
<1>4. ASSUME NEW added, InitChainEnds(added) PROVE SpentInv'
  <2>1. IsMap(accountTree', Addresses, Leaf) /\ Forgotten
        /\ UNCHANGED <<accountTree, txStorageTree, txStorageTree2>>
    BY <1>4 DEF InitChainEnds, RestartInv, AppTypeOK, AccountsTypeOK
  <2> QED
    BY <2>1, EndSpent DEF SpentInv
<1>5. CASE Start
  <2>1. UNCHANGED <<accountTree, tempAccountMap, txQueue, txStorageTree, txStorageTree2, txMap>>
    BY <1>5 DEF Start, txStoreVars
  <2> QED
    BY <2>1, SpentSame DEF Live, fetchAccount
<1>6. CASE StartFresh
  <2>1. phase = "down"
    BY <1>6 DEF StartFresh, TmStart
  <2>2. /\ accountTree' = Genesis /\ IsMap(Genesis, Addresses, Leaf)
        /\ DOMAIN tempAccountMap' = {} /\ DOMAIN txMap' = {} /\ DOMAIN txQueue' = {}
        /\ DOMAIN txStorageTree' = {} /\ DOMAIN txStorageTree2' = {}
    BY <1>6, <2>1, EmptyHasNoKey, GenesisAssumption DEF StartFresh, RestartInv, NothingInMemory
  <2>3. Live' = accountTree'
    BY <2>2 DEF Live, fetchAccount, FromTree, IsMap
  <2>4. \A a \in DOMAIN Genesis : Later(Genesis[a], Genesis[a])
    <3> TAKE a \in DOMAIN Genesis
    <3>1. Genesis[a] \in Leaf
      BY <2>2 DEF IsMap
    <3> QED
      BY <3>1, WordAssumption DEF Later, Leaf, UInt32
  <2> QED
    BY <2>2, <2>3, <2>4 DEF SpentInv, TreeSpent
<1>7. CASE UNCHANGED appVars
  <2>1. UNCHANGED <<accountTree, tempAccountMap, txQueue, txStorageTree, txStorageTree2, txMap>>
    BY <1>7 DEF appVars, accountsVars, txStoreVars
  <2> QED
    BY <2>1, SpentSame DEF Live, fetchAccount
<1> QED
  BY <1>1, <1>2, <1>3, <1>4, <1>5, <1>6, <1>7 DEF RestartNext

\* Nothing is signed for or spent at first.
LEMMA FirstSpent == AppInit => SpentInv
<1> SUFFICES ASSUME AppInit PROVE SpentInv
  OBVIOUS
<1>1. /\ accountTree = Genesis /\ IsMap(Genesis, Addresses, Leaf)
      /\ DOMAIN tempAccountMap = {} /\ DOMAIN txMap = {} /\ DOMAIN txQueue = {}
      /\ DOMAIN txStorageTree = {} /\ DOMAIN txStorageTree2 = {}
  BY EmptyHasNoKey, GenesisAssumption DEF AppInit, AccountsInit, TxStoreInit
<1>2. Live = accountTree
  BY <1>1 DEF Live, fetchAccount, FromTree, IsMap
<1>3. \A a \in DOMAIN Genesis : Later(Genesis[a], Genesis[a])
  <2> TAKE a \in DOMAIN Genesis
  <2>1. Genesis[a] \in Leaf
    BY <1>1 DEF IsMap
  <2> QED
    BY <2>1, WordAssumption DEF Later, Leaf, UInt32
<1> QED
  BY <1>1, <1>2, <1>3 DEF SpentInv, TreeSpent

\* As long as no account has nearly run out of counters, what a block has
\* executed is not accepted again (exectx.go, execUpdate; checktx.go, isSigned),
\* and what waits in txMap was signed with the credentials it is executed with,
\* wherever the process ends and however it is started again.
THEOREM SignaturesAreSpent ==
    RoomForTxs => (RestartSpec /\ []CountersLeft => [](StoredTxsAreSpent /\ CachedWereSigned))
<1> SUFFICES ASSUME RoomForTxs
             PROVE  RestartSpec /\ []CountersLeft => [](StoredTxsAreSpent /\ CachedWereSigned)
  OBVIOUS
<1>1. RestartInv /\ SpentInv /\ CountersLeft /\ [RestartNext]_appVars => SpentInv'
  BY SpentStep
<1>2. SpentInv => StoredTxsAreSpent /\ CachedWereSigned
  BY SpentProperties
<1>3. RestartSpec => []RestartInv
  BY RestartInvariance
<1> QED
  BY <1>1, <1>2, <1>3, FirstSpent, PTL DEF RestartSpec

\* What waits in txMap (app.go, CheckTx) was signed for a counter its source has had
\* and, if it is the one the source still has, with the key it still has: DeliverTx
\* skips no check that would fail, across blocks, crashes and restarts.
THEOREM ChecksWereSigned ==
    RoomForTxs => (RestartSpec /\ []CountersLeft => []CachedWereSigned)
BY SignaturesAreSpent, PTL

-----------------------------------------------------------------------------
(***************************************************************************)
(* The databases agree with each other.                                    *)
(***************************************************************************)
\* The transactions of the last SwapPeriod roots filed are in one of two trees.
RootsBacked(filed, front, back) ==
    \A h \in DOMAIN filed : h > Max(DOMAIN filed \cup {0}) - SwapPeriod =>
        Within(filed[h], front) \/ Within(filed[h], back)

\* The databases, in whatever phase: those of a node that runs have it from
\* NodeInv, those of one that has ended or starts from where it ended.
DiskInv ==
    /\ DOMAIN Genesis \subseteq DOMAIN accountTree
    /\ IndexTargetsExist
    /\ StoredBelongs
    /\ \A p \in DOMAIN contractLedgerDb : contractLedgerDb[p] \in DOMAIN contractTree
    /\ RootsBacked(blockHashTree, txStorageTree, txStorageTree2)

\* With the counters that SpentInv speaks of, that is OnDisk.
LEMMA DiskProperties == ASSUME DiskInv, StoredTxsAreSpent PROVE OnDisk
BY DEF DiskInv, OnDisk, StoredBelongs, RootsBacked, Within

\* The last height, by its maximum.
LEMMA MaxFiled == ASSUME NEW n \in Nat PROVE Max((1 .. n) \cup {0}) = n
<1>1. n \in (1 .. n) \cup {0} /\ \A y \in (1 .. n) \cup {0} : n >= y
  OBVIOUS
<1>2. \A x \in (1 .. n) \cup {0} : (\A y \in (1 .. n) \cup {0} : x >= y) => x = n
  OBVIOUS
<1> QED
  BY <1>1, <1>2 DEF Max

\* Two trees that have all that two others had, in whichever order, back what
\* these did.
LEMMA BackedStays ==
    ASSUME NEW filed, NEW f, NEW b, NEW g, NEW c, RootsBacked(filed, f, b),
           \/ Within(f, g) /\ Within(b, c)
           \/ Within(f, c) /\ Within(b, g)
    PROVE  RootsBacked(filed, g, c)
BY WithinOrder DEF RootsBacked

\* A tree has what it has.
LEMMA WithinItself == \A t : Within(t, t)
BY DEF Within, HasEntry

\* A node that runs has databases that agree.
LEMMA NodeDisk ==
    ASSUME NodeInv
    PROVE  /\ IndexTargetsExist
           /\ StoredBelongs
           /\ \A p \in DOMAIN contractLedgerDb : contractLedgerDb[p] \in DOMAIN contractTree
           /\ RootsBacked(blockHashTree, txStorageTree, txStorageTree2)
<1>1. IndexTargetsExist
  BY DEF NodeInv, AccountsInv
<1>2. /\ StoredBelongs
      /\ \A p \in DOMAIN contractLedgerDb : contractLedgerDb[p] \in DOMAIN contractTree
  BY DEF NodeInv, ContractsInv, IndexNamesCreator
<1>3. TxStoreInv
  BY DEF NodeInv
<1>4. LastFiled \in Nat /\ DOMAIN blockHashTree = 1 .. LastFiled
  BY <1>3, LastType DEF TxStoreInv, HeightsFiled
<1>5. Max(DOMAIN blockHashTree \cup {0}) = LastFiled
  BY <1>4, MaxFiled
<1>6. RootsBacked(blockHashTree, txStorageTree, txStorageTree2)
  BY <1>3, <1>5, LastPeriod DEF RootsBacked
<1> QED
  BY <1>1, <1>2, <1>6

\* The same, after a step.
LEMMA NodeDiskPrimed ==
    NodeInv' => /\ IndexTargetsExist'
                /\ StoredBelongs'
                /\ \A p \in DOMAIN contractLedgerDb' : contractLedgerDb'[p] \in DOMAIN contractTree'
                /\ RootsBacked(blockHashTree', txStorageTree', txStorageTree2')
<1> DEFINE LedgerBelongs ==
      \A p \in DOMAIN contractLedgerDb : contractLedgerDb[p] \in DOMAIN contractTree
<1> DEFINE Backed0 == RootsBacked(blockHashTree, txStorageTree, txStorageTree2)
<1>1. NodeInv => IndexTargetsExist /\ StoredBelongs /\ LedgerBelongs /\ Backed0
  BY NodeDisk
<1>2. NodeInv' => IndexTargetsExist' /\ StoredBelongs' /\ LedgerBelongs' /\ Backed0'
  BY <1>1, PTL
<1> QED
  BY <1>2 DEF RootsBacked, Within, HasEntry

\* An index that has had entries Set in it leads to where it led, or where they do.
LEMMA EnteredTargets ==
    ASSUME NEW db, NEW entries, NEW T, \A k \in DOMAIN db : db[k] \in T,
           \A e \in entries : e[2] \in T, NEW new \in Entered(db, entries)
    PROVE  \A k \in DOMAIN new : new[k] \in T
<1>1. new \in [DOMAIN db \cup {e[1] : e \in entries} ->
                 {db[k] : k \in DOMAIN db} \cup {e[2] : e \in entries}]
  BY DEF Entered
<1> QED
  BY <1>1

\* The order of the writes of Commit: the contracts come before their payloads
\* and their index, the transactions before the root and both before the clearing.
LEMMA OrderOfWrites ==
    ASSUME NEW n \in 1 .. Len(CommitOrder)
    PROVE  /\ "accounts" \in Written(n)
           /\ "payloads" \in Written(n) => "contracts" \in Written(n)
           /\ "ledger" \in Written(n) => "contracts" \in Written(n)
           /\ "hashes" \in Written(n) => "txs" \in Written(n)
           /\ "clear" \in Written(n) => "hashes" \in Written(n)
<1>1. /\ n \in 1 .. 9
      /\ CommitOrder[1] = "accounts" /\ CommitOrder[2] = "index" /\ CommitOrder[3] = "txs"
      /\ CommitOrder[4] = "calls" /\ CommitOrder[5] = "contracts" /\ CommitOrder[6] = "payloads"
      /\ CommitOrder[7] = "ledger" /\ CommitOrder[8] = "hashes" /\ CommitOrder[9] = "clear"
  BY DEF CommitOrder
<1>2. \A i \in 1 .. 9 : i \in {1, 2, 3, 4, 5, 6, 7, 8, 9}
  OBVIOUS
<1>3. /\ \A i \in 1 .. n : CommitOrder[i] = "payloads" => 5 \in 1 .. n
      /\ \A i \in 1 .. n : CommitOrder[i] = "ledger" => 5 \in 1 .. n
      /\ \A i \in 1 .. n : CommitOrder[i] = "hashes" => 3 \in 1 .. n
      /\ \A i \in 1 .. n : CommitOrder[i] = "clear" => 8 \in 1 .. n
  BY <1>1, <1>2
<1>4. 1 \in 1 .. n
  OBVIOUS
<1> QED
  BY <1>1, <1>3, <1>4 DEF Written

\* The accounts and their index after the writes.
LEMMA CrashAccountsDisk ==
    ASSUME NodeInv, NEW n \in 1 .. Len(CommitOrder), CrashInCommit(n)
    PROVE  DOMAIN accountTree \subseteq DOMAIN accountTree' /\ IndexTargetsExist'
<1>1. accountTree' = CommittedTree
  BY OrderOfWrites DEF CrashInCommit
<1>2. DOMAIN accountTree' = DOMAIN accountTree \cup DOMAIN tempNewAccountMap
  BY <1>1 DEF CommittedTree
<1>3. PICK T : T = DOMAIN accountTree'
  OBVIOUS
<1>4. PICK entries : entries = IF "index" \in Written(n) THEN NewIndexEntries ELSE {}
  OBVIOUS
<1>5. \A e \in entries : e[2] \in T
  BY <1>2, <1>3, <1>4 DEF NewIndexEntries
<1>6. \A b \in DOMAIN accountLedgerDb : accountLedgerDb[b] \in T
  BY <1>2, <1>3 DEF NodeInv, AccountsInv, IndexTargetsExist
<1>7. PICK new : new = accountLedgerDb' /\ new \in Entered(accountLedgerDb, entries)
  BY <1>4 DEF CrashInCommit
<1>8. \A b \in DOMAIN new : new[b] \in T
  BY <1>5, <1>6, <1>7, EnteredTargets
<1> QED
  BY <1>2, <1>3, <1>7, <1>8 DEF IndexTargetsExist

\* What a write of the payloads stores belongs to the contracts written before.
LEMMA PayloadsBelong ==
    ASSUME ContractsInv
    PROVE  /\ \A e \in DOMAIN contractStorageDb \cup DOMAIN contractStorageDb2 :
                /\ e[1] \in DOMAIN contractTree
                /\ e[2] <= contractTree[e[1]]
                /\ e[2] <= CalledContracts[e[1]]
                /\ e[2] <= CreatedContracts[e[1]]
           /\ \A e \in DOMAIN StoredPayloads :
                e[1] \in DOMAIN CreatedContracts /\ e[2] <= CreatedContracts[e[1]]
<1>1. /\ IsMap(contractStorageDb, Addressed \X Nat, Payloads)
      /\ IsMap(contractStorageDb2, Addressed \X Nat, Payloads)
      /\ IsMap(contractTree, Addressed, Nat)
      /\ IsMap(tempContractMap, Addressed, Call)
      /\ DOMAIN tempContractMap \subseteq DOMAIN contractTree
  BY DEF ContractsInv, ContractsTypeOK, ContractsDense
<1>2. /\ \A c \in DOMAIN contractTree : contractTree[c] \in Nat
      /\ \A c \in DOMAIN tempContractMap :
           /\ tempContractMap[c].Counter \in Nat
           /\ contractTree[c] < tempContractMap[c].Counter
  BY <1>1 DEF IsMap, Call, ContractsInv, CallsAhead
<1>3. \A c \in DOMAIN contractTree :
        /\ CalledContracts[c] \in Nat /\ contractTree[c] <= CalledContracts[c]
        /\ CreatedContracts[c] = CalledContracts[c]
  BY <1>2 DEF CalledContracts, CreatedContracts
<1>4. ASSUME NEW e \in DOMAIN contractStorageDb \cup DOMAIN contractStorageDb2
      PROVE  /\ e[1] \in DOMAIN contractTree
             /\ e[2] <= contractTree[e[1]]
             /\ e[2] <= CalledContracts[e[1]]
             /\ e[2] <= CreatedContracts[e[1]]
  <2>1. e[1] \in DOMAIN contractTree /\ e[2] <= contractTree[e[1]]
    BY DEF ContractsInv, StoredBelongs
  <2>2. e[2] \in Nat
    BY <1>1 DEF IsMap
  <2>3. PICK x, y : x = contractTree[e[1]] /\ y = CalledContracts[e[1]]
    OBVIOUS
  <2>4. x \in Nat /\ y \in Nat /\ x <= y
    BY <1>2, <1>3, <2>1, <2>3
  <2>5. e[2] <= y
    BY <2>1, <2>2, <2>3, <2>4
  <2> QED
    BY <1>3, <2>1, <2>3, <2>5
<1>5. ASSUME NEW e \in DOMAIN StoredPayloads
      PROVE  e[1] \in DOMAIN CreatedContracts /\ e[2] <= CreatedContracts[e[1]]
  <2>1. DOMAIN CreatedContracts = DOMAIN contractTree \cup DOMAIN tempNewContractMap
    BY DEF CreatedContracts
  <2>2. CASE e \in DOMAIN contractStorageDb
    BY <1>4, <2>1, <2>2
  <2>3. ASSUME NEW c \in DOMAIN tempContractMap, e = <<c, tempContractMap[c].Counter>>
        PROVE  e[1] \in DOMAIN CreatedContracts /\ e[2] <= CreatedContracts[e[1]]
    <3>1. c \in DOMAIN contractTree /\ CreatedContracts[c] = tempContractMap[c].Counter
      BY <1>1, <1>3, <2>3 DEF CalledContracts
    <3> QED
      BY <1>2, <2>1, <2>3, <3>1
  <2>4. ASSUME NEW c \in DOMAIN tempNewContractMap, e = <<c, 0>>
        PROVE  e[1] \in DOMAIN CreatedContracts /\ e[2] <= CreatedContracts[e[1]]
    <3>1. CreatedContracts[c] \in Nat
      BY <1>3 DEF CreatedContracts
    <3> QED
      BY <2>1, <2>4, <3>1
  <2> QED
    BY <2>2, <2>3, <2>4 DEF StoredPayloads
<1> QED
  BY <1>4, <1>5

\* The contracts, their payloads and their index after the writes.
LEMMA CrashContractsDisk ==
    ASSUME NodeInv, NEW n \in 1 .. Len(CommitOrder), CrashInCommit(n)
    PROVE  /\ StoredBelongs'
           /\ \A p \in DOMAIN contractLedgerDb' : contractLedgerDb'[p] \in DOMAIN contractTree'
<1>1. ContractsInv
  BY DEF NodeInv
<1>2. PICK C : C = contractTree'
  OBVIOUS
<1>3. /\ C = IF "contracts" \in Written(n) THEN CreatedContracts
             ELSE IF "calls" \in Written(n) THEN CalledContracts ELSE contractTree
      /\ DOMAIN contractTree \subseteq DOMAIN C
  BY <1>2 DEF CrashInCommit, CreatedContracts, CalledContracts
<1>4. \A e \in DOMAIN contractStorageDb \cup DOMAIN contractStorageDb2 :
        e[1] \in DOMAIN C /\ e[2] <= C[e[1]]
  BY <1>1, <1>3, PayloadsBelong
<1>5. PICK front : front = IF "payloads" \in Written(n) THEN StoredPayloads ELSE contractStorageDb
  OBVIOUS
<1>6. \A e \in DOMAIN front : e[1] \in DOMAIN C /\ e[2] <= C[e[1]]
  BY <1>1, <1>3, <1>4, <1>5, PayloadsBelong, OrderOfWrites
<1>7. StoredBelongs'
  <2>1. \/ contractStorageDb' = front /\ contractStorageDb2' = contractStorageDb2
        \/ contractStorageDb' = contractStorageDb2 /\ contractStorageDb2' = front
    BY <1>5 DEF CrashInCommit, ReopenedPayloads
  <2> QED
    BY <1>2, <1>4, <1>6, <2>1 DEF StoredBelongs
<1>8. PICK entries :
        entries = IF "ledger" \in Written(n) THEN NewContractEntries(accountWatch) ELSE {}
  OBVIOUS
<1>9. \A e \in entries : e[2] \in DOMAIN C
  <2>1. CASE "ledger" \in Written(n)
    <3>1. DOMAIN tempNewContractMap \subseteq DOMAIN C
      BY <1>3, <2>1, OrderOfWrites DEF CreatedContracts
    <3> QED
      BY <1>8, <3>1 DEF NewContractEntries
  <2>2. CASE "ledger" \notin Written(n)
    BY <1>8, <2>2
  <2> QED
    BY <2>1, <2>2
<1>10. \A p \in DOMAIN contractLedgerDb : contractLedgerDb[p] \in DOMAIN C
  BY <1>1, <1>3 DEF ContractsInv, IndexNamesCreator
<1>11. PICK new : new = contractLedgerDb' /\ new \in Entered(contractLedgerDb, entries)
  BY <1>8 DEF CrashInCommit
<1>12. \A p \in DOMAIN new : new[p] \in DOMAIN C
  BY <1>9, <1>10, <1>11, EnteredTargets
<1> QED
  BY <1>2, <1>7, <1>11, <1>12

\* The roots and the transaction trees after the writes.
LEMMA CrashRootsDisk ==
    ASSUME NodeInv, NEW n \in 1 .. Len(CommitOrder), CrashInCommit(n)
    PROVE  RootsBacked(blockHashTree', txStorageTree', txStorageTree2')
<1>1. TxStoreInv /\ TxStoreTypeOK /\ Committing /\ Tree(txStorageTree)
  BY DEF NodeInv, CrashInCommit, HeightInPhase, Running, TxStoreInv, TxStoreTypeOK
<1> DEFINE front(tree) == IF "txs" \in Written(n) THEN tree ELSE txStorageTree
<1>2. PICK tree \in AddBatch(txStorageTree), back \in {EmptyMap, txStorageTree2} :
        /\ back = IF "clear" \in Written(n) THEN EmptyMap ELSE txStorageTree2
        /\ \/ txStorageTree' = front(tree) /\ txStorageTree2' = back
           \/ txStorageTree' = back /\ txStorageTree2' = front(tree)
        /\ blockHashTree' = IF "hashes" \in Written(n) THEN With(blockHashTree, blockHeight, tree)
                            ELSE blockHashTree
        /\ "clear" \in Written(n) => SwapDue
  BY DEF CrashInCommit, ReopenedTxs
<1>3. Within(txStorageTree, tree) /\ Within(txStorageTree, front(tree))
  BY <1>1, <1>2, AddBatchGrows, WithinItself
<1>4. /\ blockHeight \in Nat /\ blockHeight >= 1 /\ LastFiled = blockHeight - 1
      /\ DOMAIN blockHashTree = 1 .. blockHeight - 1
  BY <1>1, TxStoreAssumption DEF TxStoreTypeOK, LastFiled, Committing, TxStoreInv, HeightsFiled
<1>5. SUFFICES RootsBacked(blockHashTree', front(tree), back)
  <2>1. Within(front(tree), front(tree)) /\ Within(back, back)
    BY WithinItself
  <2> QED
    BY <1>2, <2>1, BackedStays
<1>6. CASE "hashes" \notin Written(n)
  <2>1. blockHashTree' = blockHashTree /\ back = txStorageTree2
    BY <1>2, <1>6, OrderOfWrites
  <2>2. RootsBacked(blockHashTree, txStorageTree, txStorageTree2)
    BY NodeDisk
  <2> QED
    BY <1>3, <2>1, <2>2, BackedStays, WithinItself
<1>7. CASE "hashes" \in Written(n)
  <2>1. front(tree) = tree /\ blockHashTree' = With(blockHashTree, blockHeight, tree)
    BY <1>2, <1>7, OrderOfWrites
  <2>2. DOMAIN blockHashTree' = 1 .. blockHeight
    <3>1. DOMAIN blockHashTree' = (1 .. blockHeight - 1) \cup {blockHeight}
      BY <1>4, <2>1 DEF With
    <3> QED
      BY <1>4, <3>1
  <2>3. Max(DOMAIN blockHashTree' \cup {0}) = blockHeight
    BY <1>4, <2>2, MaxFiled
  <2> SUFFICES ASSUME NEW h \in 1 .. blockHeight, h > blockHeight - SwapPeriod
               PROVE  Within(blockHashTree'[h], front(tree)) \/ Within(blockHashTree'[h], back)
    BY <2>2, <2>3 DEF RootsBacked
  <2>4. CASE h = blockHeight
    BY <1>4, <2>1, <2>4, WithinItself DEF With
  <2>5. CASE h # blockHeight
    <3>1. h \in DOMAIN blockHashTree /\ blockHashTree'[h] = blockHashTree[h]
      BY <1>4, <2>1, <2>5 DEF With
    <3>2. CASE "clear" \notin Written(n)
      <4>1. h > LastFiled - SwapPeriod
        BY <1>4, TxStoreAssumption
      <4>2. Within(blockHashTree[h], txStorageTree) \/ Within(blockHashTree[h], back)
        BY <1>1, <1>2, <3>1, <3>2, <4>1, LastPeriod
      <4> QED
        BY <1>3, <3>1, <4>2, WithinOrder
    <3>3. CASE "clear" \in Written(n)
      <4>1. \A b \in h .. LastFiled : ~Swaps(b)
        <5> SUFFICES ASSUME NEW b \in h .. LastFiled, Swaps(b) PROVE FALSE
          OBVIOUS
        <5>1. Swaps(blockHeight) /\ b \in Int /\ b < blockHeight /\ h <= b
          BY <1>2, <1>4, <3>3 DEF SwapDue, Swaps
        <5>2. blockHeight - b >= SwapPeriod
          BY <1>4, <5>1, SwapsApart
        <5> QED
          BY <1>4, <5>1, <5>2, TxStoreAssumption
      <4>2. Within(blockHashTree[h], txStorageTree)
        BY <1>1, <3>1, <4>1, SinceSwap
      <4> QED
        BY <1>3, <3>1, <4>2, WithinOrder
    <3> QED
      BY <3>2, <3>3
  <2> QED
    BY <2>4, <2>5
<1> QED
  BY <1>6, <1>7

\* A call closes no account.
LEMMA AppKeepsAccounts ==
    ASSUME RestartInv, AppNext
    PROVE  DOMAIN accountTree \subseteq DOMAIN accountTree'
<1>1. ASSUME NEW raw \in RawTxs, Accept(raw) PROVE accountTree' = accountTree
  <2> DEFINE d == raw.data
  <2>1. CheckedTxs /\ DeliverTxCode(raw) = 0 /\ ExecAccounts(d)
    BY <1>1 DEF Accept, RestartInv, NodeInv
  <2>2. accountsCode(d) = 0 /\ selectTxType(d) # "none"
    BY <1>1, <2>1, DeliveredForm
  <2>3. selectTxType(d) \in {"update", "release", "stake", "transfer", "change",
                             "create", "batch", "contract"}
    BY <2>2, KindOf DEF Kinds, accountsCode, Panic
  <2> QED
    BY <2>1, <2>3 DEF ExecAccounts, ExecUpdate, ExecTransfer, ExecRelease, Fetch, ExecCreateAccount,
                      ExecAccountKeyChanger, ExecBatch
<1>2. \/ accountTree' = accountTree
      \/ accountTree' = CommittedTree
      \/ \E raw \in RawTxs : Accept(raw)
  BY DEF AppNext, InitChain, BeginBlock, CheckTx, DeliverTx, Reject, DeliverTxPanics, EndBlock,
         CommitBlock, CommitAccounts, Query, Fetch, FindAccountByPubKey, ToggleAccountWatch,
         accountsVars
<1> QED
  BY <1>1, <1>2 DEF CommittedTree

\* Every step keeps the databases in agreement.
LEMMA DiskStep ==
    RoomForTxs /\ RestartInv /\ DiskInv /\ [RestartNext]_appVars => DiskInv'
<1> SUFFICES ASSUME RoomForTxs, RestartInv, DiskInv, [RestartNext]_appVars
             PROVE  DiskInv'
  OBVIOUS
<1>1. CASE AppNext
  <2>1. NodeInv'
    BY <1>1, CalledNode
  <2>2. DOMAIN accountTree \subseteq DOMAIN accountTree'
    BY <1>1, AppKeepsAccounts
  <2> QED
    BY <2>1, <2>2, NodeDiskPrimed DEF DiskInv, IndexTargetsExist, StoredBelongs
<1>2. CASE Crash
  <2>1. /\ UNCHANGED <<accountTree, accountLedgerDb, contractTree, contractLedgerDb, blockHashTree>>
        /\ \/ UNCHANGED <<txStorageTree, txStorageTree2>>
           \/ txStorageTree' = txStorageTree2 /\ txStorageTree2' = txStorageTree
        /\ \/ UNCHANGED <<contractStorageDb, contractStorageDb2>>
           \/ contractStorageDb' = contractStorageDb2 /\ contractStorageDb2' = contractStorageDb
    BY <1>2 DEF Crash, ReopenedTxs, ReopenedPayloads
  <2>2. RootsBacked(blockHashTree', txStorageTree', txStorageTree2')
    BY <2>1, BackedStays, WithinItself DEF DiskInv
  <2> QED
    BY <2>1, <2>2 DEF DiskInv, IndexTargetsExist, StoredBelongs
<1>3. ASSUME NEW n \in 1 .. Len(CommitOrder), CrashInCommit(n) PROVE DiskInv'
  <2>1. NodeInv
    BY <1>3 DEF CrashInCommit, RestartInv
  <2> QED
    BY <1>3, <2>1, CrashAccountsDisk, CrashContractsDisk, CrashRootsDisk DEF DiskInv
<1>4. ASSUME NEW added, InitChainEnds(added) PROVE DiskInv'
  BY <1>4 DEF InitChainEnds, DiskInv, IndexTargetsExist, StoredBelongs
<1>5. CASE Start
  <2>1. UNCHANGED <<accountTree, contractTree, contractStorageDb, contractStorageDb2,
                    contractLedgerDb, txStorageTree, txStorageTree2, blockHashTree>>
    BY <1>5 DEF Start, contractsVars, txStoreVars
  <2>2. PICK T : T = DOMAIN accountTree
    OBVIOUS
  <2>3. PICK new : new = accountLedgerDb' /\ new \in Entered(accountLedgerDb, TemplateEntries)
    BY <1>5 DEF Start
  <2>4. \A b \in DOMAIN new : new[b] \in T
    <3>1. \A e \in TemplateEntries : e[2] \in T
      BY <2>2, Template DEF DiskInv
    <3>2. \A b \in DOMAIN accountLedgerDb : accountLedgerDb[b] \in T
      BY <2>2 DEF DiskInv, IndexTargetsExist
    <3> QED
      BY <2>3, <3>1, <3>2, EnteredTargets
  <2> QED
    BY <2>1, <2>2, <2>3, <2>4 DEF DiskInv, IndexTargetsExist, StoredBelongs
<1>6. CASE StartFresh
  <2>1. /\ accountTree' = Genesis
        /\ contractTree' = EmptyMap /\ contractStorageDb' = EmptyMap
        /\ contractStorageDb2' = EmptyMap /\ contractLedgerDb' = EmptyMap
        /\ blockHashTree' = EmptyMap
    BY <1>6 DEF StartFresh
  <2>2. PICK new : new = accountLedgerDb' /\ new \in Entered(EmptyMap, TemplateEntries)
    BY <1>6 DEF StartFresh
  <2>3. \A b \in DOMAIN new : new[b] \in DOMAIN Genesis
    BY <2>2, EmptyHasNoKey, EnteredTargets, Template
  <2> QED
    BY <2>1, <2>2, <2>3, EmptyHasNoKey DEF DiskInv, IndexTargetsExist, StoredBelongs, RootsBacked
<1>7. CASE UNCHANGED appVars
  BY <1>7 DEF appVars, accountsVars, contractsVars, txStoreVars, DiskInv, IndexTargetsExist,
              StoredBelongs
<1> QED
  BY <1>1, <1>2, <1>3, <1>4, <1>5, <1>6, <1>7 DEF RestartNext

\* The databases NewApp makes agree.
LEMMA FirstDisk == AppInit => DiskInv
BY EmptyHasNoKey DEF AppInit, AccountsInit, ContractsInit, TxStoreInit, DiskInv, IndexTargetsExist,
                     StoredBelongs, RootsBacked

\* Indexes, payloads, contracts, roots and transaction trees agree, whatever the
\* counters are.
LEMMA DiskInvariance == RoomForTxs => (RestartSpec => []DiskInv)
<1> SUFFICES ASSUME RoomForTxs PROVE RestartSpec => []DiskInv
  OBVIOUS
<1>1. RestartInv /\ DiskInv /\ [RestartNext]_appVars => DiskInv'
  BY DiskStep
<1>2. RestartSpec => []RestartInv
  BY RestartInvariance
<1> QED
  BY <1>1, <1>2, FirstDisk, PTL DEF RestartSpec

\* Wherever the process ends - between two calls or in the middle of Commit's
\* writes (app.go, Commit; db.go, swapDb) - and however it is started again, the
\* databases agree with each other: indexes and payloads name what there is, no
\* stored transaction can be replayed, and the roots' transactions are kept.
THEOREM DatabasesAgree == RoomForTxs => (RestartSpec /\ []CountersLeft => []OnDisk)
<1> SUFFICES ASSUME RoomForTxs PROVE RestartSpec /\ []CountersLeft => []OnDisk
  OBVIOUS
<1>1. RestartSpec => []DiskInv
  BY DiskInvariance
<1>2. DiskInv /\ StoredTxsAreSpent => OnDisk
  BY DiskProperties
<1>3. RestartSpec /\ []CountersLeft => [](StoredTxsAreSpent /\ CachedWereSigned)
  BY SignaturesAreSpent
<1> QED
  BY <1>1, <1>2, <1>3, PTL

-----------------------------------------------------------------------------
(***************************************************************************)
(* Who pays.                                                               *)
(***************************************************************************)
\* Only the accounts of A have less than they had.
OnlyPaidBy(A) == \A a \in DOMAIN Live \ A : Live'[a].Amount >= Live[a].Amount

\* Nothing changes for anybody but s.
LEMMA OnlySource ==
    ASSUME AccountsInv, NEW s, NEW leaf, Live' = [Live EXCEPT ![s] = leaf]
    PROVE  OnlyPaidBy({s})
<1>1. \A a \in DOMAIN Live : Live[a].Amount \in Int
  BY LiveMap, WordAssumption DEF IsMap, Leaf, UInt32
<1> QED
  BY <1>1 DEF OnlyPaidBy

\* Who has less than before after a transaction.
LEMMA AcceptedPaid ==
    ASSUME NodeInv, NEW raw \in RawTxs, Accept(raw)
    PROVE  OnlyPaidBy({raw.data.source}
                      \cup {Members(raw.data)[i] : i \in DOMAIN Members(raw.data)}
                      \cup {a \in {raw.data.target} : Overflows(raw.data)})
<1> DEFINE d == raw.data
           s == d.source
           fee == Fee(d)
           k == fetchAccount(s).schnorrPubKey
<1>1. /\ accountsCode(d) = 0 /\ selectTxType(d) # "none" /\ ExecAccounts(d)
      /\ DeliverTxCode(raw) = 0 /\ AccountsInv /\ ValidatorsTypeOK /\ d \in TxData
  BY DeliveredForm DEF Accept, NodeInv, ValidatorsInv, TxData
<1>2. PICK L : L = Live
  OBVIOUS
<1>3. /\ s \in Addresses /\ fee \in UInt32 /\ d.amount \in UInt32
      /\ d.state \in States \cup {NoState} /\ NoState \in States \cup {NoState}
      /\ d.schnorr \in Keys /\ d.bls \in BlsKeys
      /\ d.addresses \in Seq(Addresses) /\ d.tail \in BOOLEAN
      /\ 0 \in UInt32
  BY <1>1, AccountsFound, FieldTypes, WordAssumption DEF UInt32
<1>4. selectTxType(d) \in {"update", "release", "stake", "transfer", "change",
                           "create", "batch", "contract"}
  BY <1>1, KindOf, AccountsFound DEF Kinds
<1>5. IsMap(L, Addresses, Leaf) /\ \A a \in DOMAIN L : L[a].Amount \in UInt32 /\ L[a].Amount \in Int
  BY <1>1, <1>2, LiveMap, WordAssumption DEF IsMap, Leaf, UInt32
<1> SUFFICES \A a \in DOMAIN L : \/ a = s \/ \E i \in DOMAIN Members(d) : a = Members(d)[i]
                                 \/ a = d.target /\ Overflows(d)
                                 \/ Live'[a].Amount >= L[a].Amount
  BY <1>2 DEF OnlyPaidBy
<1>6. ASSUME NEW leaf, Live' = [L EXCEPT ![s] = leaf]
      PROVE  \A a \in DOMAIN L : a = s \/ Live'[a].Amount >= L[a].Amount
  BY <1>1, <1>2, <1>6, OnlySource DEF OnlyPaidBy
<1> HIDE DEF d, s, fee
<1>7. CASE selectTxType(d) \in {"update", "stake", "contract"}
  <2>1. \/ ExecUpdate(s, {}, 0, fee, d.state)
        \/ ExecUpdate(s, {}, d.amount, fee, NoState)
        \/ ExecUpdate(s, {d.target}, d.amount, fee, NoState)
    BY <1>1, <1>7 DEF ExecAccounts, s, fee, d
  <2>2. ASSUME NEW T, NEW amount \in UInt32, NEW st \in States \cup {NoState},
               ExecUpdate(s, T, amount, fee, st)
        PROVE  \A a \in DOMAIN L : a = s \/ Live'[a].Amount >= L[a].Amount
    <3>1. Abstract!Update(s, amount, fee, st)
      BY <1>1, <1>3, <2>2, UpdateRefines
    <3>2. Live' = [L EXCEPT ![s] = Debited(L[s], amount, fee, st)]
      BY <1>2, <3>1, SameRecords DEF Abstract!Update
    <3> QED
      BY <1>6, <3>2
  <2> QED
    BY <1>3, <2>1, <2>2
<1>8. CASE selectTxType(d) = "create"
  <2>1. ExecCreateAccount(s, d.amount, fee, d.schnorr, d.bls)
    BY <1>1, <1>8 DEF ExecAccounts, s, fee, d
  <2>2. Abstract!Open(s, d.amount, fee, d.schnorr, d.bls)
    BY <1>1, <1>3, <2>1, CreateRefines
  <2>3. Live' = [L EXCEPT ![s] = Debited(L[s], d.amount, fee, NoState)]
    BY <1>2, <2>2, SameRecords DEF Abstract!Open
  <2> QED
    BY <1>6, <2>3
<1>9. CASE selectTxType(d) = "change"
  <2>1. ExecAccountKeyChanger(s, d.schnorr, d.bls, fee)
    BY <1>1, <1>9 DEF ExecAccounts, s, fee, d
  <2>2. Abstract!ChangeKeys(s, d.schnorr, d.bls, fee)
    BY <1>1, <1>3, <2>1, KeyChangeRefines
  <2>3. Live' = [L EXCEPT ![s] = Rekeyed(L[s], d.schnorr, d.bls, fee)]
    BY <1>2, <2>2, SameRecords DEF Abstract!ChangeKeys
  <2> QED
    BY <1>6, <2>3
<1>10. CASE selectTxType(d) = "release"
  <2>1. CASE k \in DOMAIN validatorTree
    <3>1. PICK w : w = Wrap(validatorTree[k])
      OBVIOUS
    <3>2. ExecRelease(s, w, fee)
      BY <1>1, <1>10, <2>1, <3>1 DEF ExecAccounts, s, fee, d
    <3>3. w \in UInt32
      <4>1. validatorTree[k] \in Int
        BY <1>1, <2>1 DEF ValidatorsTypeOK, IsMap
      <4> QED
        BY <3>1, <4>1, WrapType
    <3>4. Abstract!Release(s, w, fee)
      BY <1>1, <1>3, <3>2, <3>3, ReleaseRefines
    <3>5. Live' = [L EXCEPT ![s] = Released(L[s], w, fee)]
      BY <1>2, <3>4, SameRecords DEF Abstract!Release
    <3> QED
      BY <1>6, <3>5
  <2>2. CASE k \notin DOMAIN validatorTree
    <3>1. Fetch({s})
      BY <1>1, <1>10, <2>2 DEF ExecAccounts, s, d
    <3>2. Live' = L
      BY <1>1, <1>2, <3>1, FetchRefines
    <3> QED
      BY <1>5, <3>2
  <2> QED
    BY <2>1, <2>2
<1>11. CASE selectTxType(d) = "transfer"
  <2>1. ExecTransfer(s, d.target, d.amount, fee, d.state) /\ d.target \in Addresses
    BY <1>1, <1>11, AccountsFound DEF ExecAccounts, TargetsOf, s, fee, d
  <2>2. PICK t, amount, st : t = d.target /\ amount = d.amount /\ st = d.state
    OBVIOUS
  <2>3. Abstract!Transfer(s, t, amount, fee, st) /\ amount \in UInt32
    BY <1>1, <1>3, <2>1, <2>2, TransferRefines
  <2>4. PICK paid : paid = [L EXCEPT ![s] = Debited(L[s], amount, fee, st)]
    OBVIOUS
  <2>5. t \in DOMAIN paid /\ Live' = [paid EXCEPT ![t] = Credited(paid[t], amount)]
    BY <1>2, <2>3, <2>4, SameRecords DEF Abstract!Transfer
  <2>6. t # s /\ ~Overflows(d) => Live'[t].Amount >= L[t].Amount
    <3> SUFFICES ASSUME t # s, ~Overflows(d) PROVE Live'[t].Amount >= L[t].Amount
      OBVIOUS
    <3>1. t \in DOMAIN L /\ L[t] \in Leaf /\ Live'[t] = Credited(L[t], amount)
      BY <1>5, <2>4, <2>5 DEF IsMap
    <3>2. L[t].Amount + amount < Word
      <4>1. L[t].Amount \in Int /\ amount \in Int
        BY <1>5, <2>3, <3>1, WordAssumption DEF UInt32
      <4>2. ~(L[t].Amount + amount >= Word)
        BY <1>2, <1>11, <2>2 DEF Overflows
      <4> QED
        BY <4>1, <4>2, WordAssumption
    <3>3. Credited(L[t], amount).Amount = Plus(L[t].Amount, amount)
      BY <3>1 DEF Credited, Leaf
    <3>4. Plus(L[t].Amount, amount) = L[t].Amount + amount
      <4>1. \A x, y \in UInt32 : x + y < Word => Plus(x, y) = x + y /\ x + y >= x
        BY WordAssumption DEF UInt32, Plus, Wrap
      <4> QED
        BY <1>5, <2>3, <3>1, <3>2, <4>1
    <3>5. L[t].Amount + amount >= L[t].Amount
      BY <1>5, <2>3, <3>1, WordAssumption DEF UInt32
    <3> QED
      BY <3>1, <3>3, <3>4, <3>5
  <2> QED
    BY <1>5, <2>2, <2>4, <2>5, <2>6
<1>12. CASE selectTxType(d) = "batch"
  <2>1. ExecBatch(s, d.addresses, d.tail, d.amount, fee, d.state)
    BY <1>1, <1>12 DEF ExecAccounts, s, fee, d
  <2>2. PICK p, tail, amount, st :
          p = d.addresses /\ tail = d.tail /\ amount = d.amount /\ st = d.state
    OBVIOUS
  <2>3. Abstract!Settle(s, p, tail, amount, fee, st)
    BY <1>1, <1>3, <2>1, <2>2, BatchRefines
  <2>4. PICK settled :
          settled = [a \in DOMAIN L |->
             Settled(L[a], Occurrences(BatchMembers(p, tail), a), amount, fee, st)]
    OBVIOUS
  <2>5. Live' = [settled EXCEPT ![s] = BatchCredited(settled[s], p, amount, fee)]
    BY <1>2, <2>3, <2>4, SameRecords DEF Abstract!Settle
  <2> SUFFICES ASSUME NEW a \in DOMAIN L, a # s, ~\E i \in DOMAIN Members(d) : a = Members(d)[i]
               PROVE  Live'[a].Amount >= L[a].Amount
    OBVIOUS
  <2>6. Occurrences(BatchMembers(p, tail), a) = 0
    <3>1. {i \in DOMAIN BatchMembers(p, tail) : BatchMembers(p, tail)[i] = a} = {}
      BY <2>2 DEF Members
    <3> QED
      BY <3>1, FS_EmptySet DEF Occurrences
  <2>7. Live'[a] = L[a]
    BY <2>4, <2>5, <2>6 DEF Settled
  <2> QED
    BY <1>5, <2>7
<1> QED
  BY <1>4, <1>7, <1>8, <1>9, <1>10, <1>11, <1>12

\* Nobody pays for the other calls.
LEMMA OthersFree ==
    ASSUME NodeInv, AppNext, ~\E raw \in RawTxs : Accept(raw)
    PROVE  OnlyPaidBy({})
<1>1. AccountsInv
  BY DEF NodeInv
<1>2. \A a \in DOMAIN Live : Live[a].Amount \in Int
  BY <1>1, LiveMap, WordAssumption DEF IsMap, Leaf, UInt32
<1>3. CASE (\E A : Fetch(A)) \/ UNCHANGED <<accountTree, tempAccountMap>>
  <2>1. Live' = Live
    BY <1>1, <1>3, FetchRefines DEF Live, fetchAccount
  <2> QED
    BY <1>2, <2>1 DEF OnlyPaidBy
<1>4. CASE CommitBlock
  <2>1. CommitAccounts
    BY <1>4 DEF CommitBlock
  <2>2. \A a \in DOMAIN Live : Live'[a] = Live[a]
    BY <1>1, <2>1, CommitRefines, SameRecords DEF Abstract!Commit
  <2> QED
    BY <1>2, <2>2 DEF OnlyPaidBy
<1> QED
  BY <1>3, <1>4 DEF AppNext, InitChain, BeginBlock, CheckTx, DeliverTx, Reject, DeliverTxPanics,
                    EndBlock, Query, FindAccountByPubKey, ToggleAccountWatch, accountsVars

\* Whoever has less after a step has paid for a transaction, or been paid too much.
LEMMA OwnersStep ==
    ASSUME RoomForTxs, RestartInv, RestartNext,
           phase # "down", phase' # "down", NEW a \in DOMAIN Live, Live'[a].Amount < Live[a].Amount
    PROVE  \E raw \in RawTxs :
             /\ Accept(raw)
             /\ \/ a = raw.data.source
                \/ \E i \in DOMAIN Members(raw.data) : Members(raw.data)[i] = a
                \/ a = raw.data.target /\ Overflows(raw.data)
<1>1. AppNext
  BY DEF RestartNext, Crash, CrashInCommit, InitChainEnds, Start, StartFresh, TmCrash, TmStart
<1>2. CASE phase = "genesis"
  <2>1. InitChain
    BY <1>1, <1>2, GenesisStep
  <2>2. Live' = Live
    BY <2>1 DEF InitChain, accountsVars, Live, fetchAccount
  <2>3. AccountsInv
    BY <1>2, <2>1, GenesisAgain, InitInv DEF InitChain, InitChainValidators, AppInit
  <2>4. Live[a].Amount \in Int
    BY <2>3, LiveMap, WordAssumption DEF IsMap, Leaf, UInt32
  <2> QED
    BY <2>2, <2>4
<1>3. CASE phase # "genesis"
  <2>1. NodeInv' /\ NodeInv
    BY <1>1, <1>3, CalledNode DEF RestartInv
  <2>2. IsMap(Live, Addresses, Leaf) /\ IsMap(Live', Addresses, Leaf)
    BY <2>1, LiveMap, LiveMapPrimed DEF NodeInv, IsMap
  <2>3. a \in DOMAIN Live'
    BY <1>1, AppKeepsAccounts DEF Live
  <2>4. Live[a].Amount \in Int /\ Live'[a].Amount \in Int
    BY <2>2, <2>3, WordAssumption DEF IsMap, Leaf, UInt32
  <2>5. PICK raw \in RawTxs : Accept(raw)
    BY <1>1, <2>1, <2>4, OthersFree DEF OnlyPaidBy
  <2> QED
    BY <2>1, <2>4, <2>5, AcceptedPaid DEF OnlyPaidBy
<1> QED
  BY <1>2, <1>3

\* Money leaves an account only with a transaction that names it as its source
\* or a participant (app.go, DeliverTx; exectx.go), or as the target of a transfer
\* that overflows: execTransfer's addition wraps silently.
THEOREM OnlyOwnersPay == RoomForTxs => (RestartSpec => OwnersPay)
<1> SUFFICES ASSUME RoomForTxs PROVE RestartSpec => OwnersPay
  OBVIOUS
<1> DEFINE A ==
      phase # "down" /\ phase' # "down" => \A a \in DOMAIN Live :
         Live'[a].Amount < Live[a].Amount =>
           \E raw \in RawTxs :
             /\ Accept(raw)
             /\ \/ a = raw.data.source
                \/ \E i \in DOMAIN Members(raw.data) : Members(raw.data)[i] = a
                \/ a = raw.data.target /\ Overflows(raw.data)
<1>1. RestartInv /\ [RestartNext]_appVars => [A]_appVars
  BY OwnersStep
<1>2. RestartSpec => []RestartInv
  BY RestartInvariance
<1> QED
  BY <1>1, <1>2, PTL DEF RestartSpec, OwnersPay

=============================================================================
