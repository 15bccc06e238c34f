------------------------------ MODULE TxStore -------------------------------
(***************************************************************************)
(* The transaction store (app.go, db.go): the queue of the block's         *)
(* transactions, the two transaction trees that take turns, and the tree   *)
(* of block hashes, whose root is the chain's app hash.                    *)
(*                                                                         *)
(* A tree root is modelled as the contents of the tree: the hash is taken  *)
(* to be free of collisions.  Heights are int64 in the program.            *)
(***************************************************************************)
EXTENDS Common, Sequences, FiniteSets

CONSTANTS
    TxKeys,       \* source and counter of a transaction, the 8-byte tree key
    TxHashes,     \* the digests of transactions
    SwapPeriod,   \* 1024 in the program
    MaxHeight     \* bound on the height

ASSUME TxStoreAssumption == SwapPeriod \in Nat \ {0} /\ MaxHeight \in Nat

VARIABLES
    txQueue,         \* txDbKeys and txDbVals, as one sequence of pairs
    txStorageTree,   \* key -> hash, of the blocks since the last swap
    txStorageTree2,  \* the same, of the period before
    blockHashTree,   \* height -> root of txStorageTree when it was committed
    blockHeight

txStoreVars == <<txQueue, txStorageTree, txStorageTree2, blockHashTree, blockHeight>>

\* Faulty variant: keys and values are mixed up.
QueuedSwapped(key, hash) == [key |-> hash, val |-> key]

Queued(key, hash) == [key |-> key, val |-> hash]

\* The end of DeliverTx.
EnqueueTx(key, hash) ==
    /\ txQueue' = Append(txQueue, Queued(key, hash))
    /\ UNCHANGED <<txStorageTree, txStorageTree2, blockHashTree, blockHeight>>

\* EndBlock records the height of the block, which Commit files the root under.
EndBlockTxs ==
    /\ blockHeight < MaxHeight
    /\ blockHeight' = blockHeight + 1
    /\ UNCHANGED <<txQueue, txStorageTree, txStorageTree2, blockHashTree>>

(***************************************************************************)
(* Commit and swapDb.  AddBatch refuses the keys it has and reports them   *)
(* in a result Commit ignores; of several entries with one key it keeps    *)
(* one.  A swap clears the back tree's database and makes it the front: a  *)
(* complete clear, as no Delete of clearDb fails here (db.go:41-44 would   *)
(* commit what has been deleted and return nil).                           *)
(***************************************************************************)
QueuedFor(key) == {txQueue[i].val : i \in {j \in DOMAIN txQueue : txQueue[j].key = key}}

\* Faulty variant: a key the tree has is overwritten.
AddBatchOver(tree) ==
    LET new == {txQueue[i].key : i \in DOMAIN txQueue} IN
    {[key \in DOMAIN tree \cup new |-> IF key \in new THEN kept[key] ELSE tree[key]] :
       kept \in {f \in [new -> {txQueue[i].val : i \in DOMAIN txQueue}] :
                   \A key \in new : f[key] \in QueuedFor(key)}}

AddBatch(tree) ==
    LET new == {txQueue[i].key : i \in DOMAIN txQueue} \ DOMAIN tree IN
    {[key \in DOMAIN tree \cup new |-> IF key \in new THEN kept[key] ELSE tree[key]] :
       kept \in {f \in [new -> {txQueue[i].val : i \in DOMAIN txQueue}] :
                   \A key \in new : f[key] \in QueuedFor(key)}}

\* Faulty variant: a period is one block too short.
SwapDueEarly == SwapPeriod = 1 \/ blockHeight % (SwapPeriod - 1) = 0

SwapDue == blockHeight % SwapPeriod = 0

\* Faulty variant: the root is taken before the block's transactions are added.
CommitTxsLate ==
    /\ blockHeight \notin DOMAIN blockHashTree
    /\ \E tree \in AddBatch(txStorageTree) :
         /\ blockHashTree' = [h \in DOMAIN blockHashTree \cup {blockHeight} |->
                                IF h = blockHeight THEN txStorageTree ELSE blockHashTree[h]]
         /\ IF SwapDue
            THEN txStorageTree' = EmptyMap /\ txStorageTree2' = tree
            ELSE txStorageTree' = tree /\ UNCHANGED txStorageTree2
    /\ txQueue' = <<>>
    /\ UNCHANGED blockHeight

CommitTxs ==
    /\ blockHeight \notin DOMAIN blockHashTree
    /\ \E tree \in AddBatch(txStorageTree) :
         /\ blockHashTree' = [h \in DOMAIN blockHashTree \cup {blockHeight} |->
                                IF h = blockHeight THEN tree ELSE blockHashTree[h]]
         /\ IF SwapDue
            THEN txStorageTree' = EmptyMap /\ txStorageTree2' = tree
            ELSE txStorageTree' = tree /\ UNCHANGED txStorageTree2
    /\ txQueue' = <<>>
    /\ UNCHANGED blockHeight

\* A Query of 8 bytes: the tree the proof comes from, whose root it shows, and
\* the root the block hash tree proves beside it - that of the last height.  A
\* key without an entry is no error to GenProof, and whether it has one is not
\* looked at: the back tree is never asked.
ProvingTree == txStorageTree

ProvenRoot == blockHashTree[blockHeight]

-----------------------------------------------------------------------------
TxStoreInit ==
    /\ txQueue = <<>>
    /\ txStorageTree = EmptyMap
    /\ txStorageTree2 = EmptyMap
    /\ blockHashTree = EmptyMap
    /\ blockHeight = 0

\* Between EndBlock and Commit no transaction is delivered.
Committing == blockHeight > 0 /\ blockHeight \notin DOMAIN blockHashTree

TxStoreNext ==
    \/ ~Committing /\ \E key \in TxKeys, hash \in TxHashes : EnqueueTx(key, hash)
    \/ ~Committing /\ EndBlockTxs
    \/ Committing /\ CommitTxs

TxStoreSpec == TxStoreInit /\ [][TxStoreNext]_txStoreVars

-----------------------------------------------------------------------------
(***************************************************************************)
(* Properties.                                                             *)
(***************************************************************************)
Tree(t) == IsMap(t, TxKeys, TxHashes)

\* Every variable holds a value of the program's type.
TxStoreTypeOK ==
    /\ txQueue \in Seq([key : TxKeys, val : TxHashes])
    /\ Tree(txStorageTree) /\ Tree(txStorageTree2)
    /\ DOMAIN blockHashTree \subseteq 1 .. MaxHeight
    /\ \A h \in DOMAIN blockHashTree : Tree(blockHashTree[h])
    /\ blockHeight \in 0 .. MaxHeight

HasEntry(tree, key, val) == key \in DOMAIN tree /\ tree[key] = val

\* Swapping forgets nothing too early: whatever was in the tree when one of
\* the last SwapPeriod blocks was committed is still in one of the two trees,
\* with the same hash.
RecentTxsRetained ==
    \A h \in DOMAIN blockHashTree : h > blockHeight - SwapPeriod =>
        \A key \in DOMAIN blockHashTree[h] :
            \/ HasEntry(txStorageTree, key, blockHashTree[h][key])
            \/ HasEntry(txStorageTree2, key, blockHashTree[h][key])

\* A proof of a transaction goes with the block hash proof Query puts beside it,
\* from the commit of a block to the end of the next one.  (After a swap the front
\* tree is empty, and proves none.)
FrontProofsVerify ==
    blockHeight \in DOMAIN blockHashTree /\ ProvingTree # EmptyMap => ProvingTree = ProvenRoot

\* The root filed for a block is final, and says of every transaction what the
\* roots of the later blocks of its period say: no later one takes its key.
RootsAgree ==
    \A g, h \in DOMAIN blockHashTree :
        g < h /\ (g - 1) \div SwapPeriod = (h - 1) \div SwapPeriod =>
            \A key \in DOMAIN blockHashTree[g] :
                HasEntry(blockHashTree[h], key, blockHashTree[g][key])

=============================================================================
