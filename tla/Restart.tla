------------------------------ MODULE Restart -------------------------------
(***************************************************************************)
(* The end of the process at any moment, and its start (NewApp, run.sh).   *)
(* The trees and the databases are durable, the rest is forgotten; main    *)
(* closes no database, so a regular stop is no different from a crash.     *)
(*                                                                         *)
(* Info reports no height, so Tendermint calls InitChain on every start;   *)
(* over databases that have had one, that panics.  run.sh removes them.    *)
(***************************************************************************)
EXTENDS App

\* Faulty variant: the transactions are written before the accounts.
CommitOrderTxsFirst ==
    <<"txs", "accounts", "index", "calls", "contracts", "payloads", "ledger", "hashes", "clear">>

\* The durable writes of Commit, in their order.
CommitOrder ==
    <<"accounts", "index", "txs", "calls", "contracts", "payloads", "ledger", "hashes", "clear">>

Written(n) == {CommitOrder[i] : i \in 1 .. n}

\* A database after the entries have been Set, those with one key in any order.
Entered(db, entries) ==
    {f \in [DOMAIN db \cup {e[1] : e \in entries} ->
              {db[k] : k \in DOMAIN db} \cup {e[2] : e \in entries}] :
        \A k \in DOMAIN f : IF \E e \in entries : e[1] = k THEN <<k, f[k]>> \in entries
                            ELSE f[k] = db[k]}

CalledContracts ==
    [c \in DOMAIN contractTree |->
       IF c \in DOMAIN tempContractMap THEN tempContractMap[c].Counter ELSE contractTree[c]]

CreatedContracts ==
    [c \in DOMAIN contractTree \cup DOMAIN tempNewContractMap |->
       IF c \in DOMAIN contractTree THEN CalledContracts[c] ELSE 0]

(***************************************************************************)
(* swapDb exchanges the names of the databases in memory: after an odd     *)
(* number of swaps NewApp will take the front ones for the back ones.      *)
(***************************************************************************)
Exchanged ==
    /\ phase \notin {"genesis", "down"}
    /\ Cardinality({h \in DOMAIN blockHashTree : h % SwapPeriod = 0}) % 2 = 1

ReopenedTxs(front, back) ==
    /\ txStorageTree' = IF Exchanged THEN back ELSE front
    /\ txStorageTree2' = IF Exchanged THEN front ELSE back

ReopenedPayloads(front, back) ==
    /\ contractStorageDb' = IF Exchanged THEN back ELSE front
    /\ contractStorageDb2' = IF Exchanged THEN front ELSE back

\* What the process keeps in memory.
Forgotten ==
    /\ tempAccountMap' = EmptyMap
    /\ tempNewAccountMap' = EmptyMap
    /\ accountNumOnDb' = 0
    /\ accountWatch' = TRUE
    /\ valUpdates' = <<>>
    /\ totalFees' = 0
    /\ tempContractMap' = EmptyMap
    /\ tempNewContractMap' = EmptyMap
    /\ contractNumOnDb' = 0
    /\ txQueue' = <<>>
    /\ blockHeight' = 0
    /\ txMap' = EmptyMap

-----------------------------------------------------------------------------
(***************************************************************************)
(* The end, between two calls, inside Commit, and inside InitChain.        *)
(***************************************************************************)
Crash ==
    /\ TmCrash
    /\ Forgotten
    /\ ReopenedTxs(txStorageTree, txStorageTree2)
    /\ ReopenedPayloads(contractStorageDb, contractStorageDb2)
    /\ UNCHANGED <<accountTree, accountLedgerDb, validatorTree, contractTree,
                   contractLedgerDb, blockHashTree>>

\* n writes are done; the last one, of the back tree, is made for a swap only.
CrashInCommit(n) ==
    LET done(write) == write \in Written(n) IN
    /\ phase = "ended"
    /\ TmCrash
    /\ done("clear") => SwapDue
    /\ Forgotten
    /\ accountTree' = IF done("accounts") THEN CommittedTree ELSE accountTree
    /\ accountLedgerDb' \in Entered(accountLedgerDb, IF done("index") THEN NewIndexEntries ELSE {})
    /\ \E tree \in AddBatch(txStorageTree) :
         /\ ReopenedTxs(IF done("txs") THEN tree ELSE txStorageTree,
                        IF done("clear") THEN EmptyMap ELSE txStorageTree2)
         /\ blockHashTree' = IF done("hashes") THEN With(blockHashTree, blockHeight, tree)
                             ELSE blockHashTree
    /\ contractTree' = IF done("contracts") THEN CreatedContracts
                       ELSE IF done("calls") THEN CalledContracts ELSE contractTree
    /\ ReopenedPayloads(IF done("payloads") THEN StoredPayloads ELSE contractStorageDb,
                        contractStorageDb2)
    /\ contractLedgerDb' \in Entered(contractLedgerDb,
                               IF done("ledger") THEN NewContractEntries(accountWatch) ELSE {})
    /\ UNCHANGED validatorTree

\* InitChain adds the validators one by one, and panics at one there is.
InitChainEnds(added) ==
    /\ phase = "genesis"
    /\ TmCrash
    /\ added \cap DOMAIN validatorTree = {}
    /\ validatorTree' = [k \in DOMAIN validatorTree \cup added |->
         IF k \in added THEN GenesisPowers[k] ELSE validatorTree[k]]
    /\ Forgotten
    /\ UNCHANGED <<accountTree, accountLedgerDb, contractTree, contractStorageDb,
                   contractStorageDb2, contractLedgerDb, txStorageTree, txStorageTree2,
                   blockHashTree>>

(***************************************************************************)
(* NewApp over the databases there are: it numbers the template accounts   *)
(* from 0 again; the tree refuses them, the index takes them.  And run.sh, *)
(* which removes every database before it starts the node.                 *)
(***************************************************************************)
TemplateEntries == {<<Genesis[a].bls, a>> : a \in DOMAIN Genesis}

Start ==
    /\ TmStart
    /\ accountLedgerDb' \in Entered(accountLedgerDb, TemplateEntries)
    /\ accountNumOnDb' = Cardinality(DOMAIN Genesis)
    /\ UNCHANGED <<accountTree, tempAccountMap, tempNewAccountMap, accountWatch,
                   validatorsVars, contractsVars, txStoreVars, txMap>>

StartFresh ==
    /\ TmStart
    /\ accountTree' = Genesis
    /\ accountLedgerDb' \in Entered(EmptyMap, TemplateEntries)
    /\ accountNumOnDb' = Cardinality(DOMAIN Genesis)
    /\ validatorTree' = EmptyMap
    /\ contractTree' = EmptyMap
    /\ contractStorageDb' = EmptyMap
    /\ contractStorageDb2' = EmptyMap
    /\ contractLedgerDb' = EmptyMap
    /\ txStorageTree' = EmptyMap
    /\ txStorageTree2' = EmptyMap
    /\ blockHashTree' = EmptyMap
    /\ UNCHANGED <<tempAccountMap, tempNewAccountMap, accountWatch, valUpdates, totalFees,
                   tempContractMap, tempNewContractMap, contractNumOnDb, txQueue,
                   blockHeight, txMap>>

RestartNext ==
    \/ AppNext
    \/ Crash
    \/ \E n \in 1 .. Len(CommitOrder) : CrashInCommit(n)
    \/ \E added \in SUBSET DOMAIN GenesisPowers : InitChainEnds(added)
    \/ Start
    \/ StartFresh

RestartSpec == AppInit /\ [][RestartNext]_appVars

-----------------------------------------------------------------------------
(***************************************************************************)
(* Properties.                                                             *)
(***************************************************************************)

\* However often the process ends and is started again, with or without run.sh,
\* the chain runs only over databases of its own blocks: powers are those
\* Tendermint has been told, the addresses to be handed out are free, the
\* heights to be filed are not taken, and the two names of the transaction trees
\* are the right way round.
NoBlockOnOldDatabases ==
    Running =>
        /\ TreeMatchesTendermint
        /\ AddressesDense
        /\ ContractsDense
        /\ DOMAIN blockHashTree = 1 .. (IF phase = "ended" THEN blockHeight - 1 ELSE blockHeight)
        /\ FrontProofsVerify

\* The databases agree with each other wherever the process ends: what an index
\* or a stored payload names is in its tree; a stored transaction is spent; a
\* filed root's transactions are in one of the two trees.
OnDisk ==
    LET last == Max(DOMAIN blockHashTree \cup {0}) IN
    /\ IndexTargetsExist
    /\ \A e \in DOMAIN contractStorageDb \cup DOMAIN contractStorageDb2 :
         e[1] \in DOMAIN contractTree /\ e[2] <= contractTree[e[1]]
    /\ \A p \in DOMAIN contractLedgerDb : contractLedgerDb[p] \in DOMAIN contractTree
    /\ StoredTxsAreSpent
    /\ \A h \in DOMAIN blockHashTree : h > last - SwapPeriod =>
         \A key \in DOMAIN blockHashTree[h] :
            \/ HasEntry(txStorageTree, key, blockHashTree[h][key])
            \/ HasEntry(txStorageTree2, key, blockHashTree[h][key])

=============================================================================
