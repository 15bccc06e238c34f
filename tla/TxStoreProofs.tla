--------------------------- MODULE TxStoreProofs ----------------------------
(***************************************************************************)
(* Proofs about TxStore: what the two transaction trees and the tree of    *)
(* block hashes hold after any number of blocks and swaps, for every       *)
(* length of the period.                                                   *)
(***************************************************************************)
EXTENDS TxStore, TLAPS

\* The last height that was committed.
LastFiled == IF Committing THEN blockHeight - 1 ELSE blockHeight

\* A swap follows the commit of this height.
Swaps(h) == h % SwapPeriod = 0

\* Every entry of one tree is in the other.
Within(t, u) == \A key \in DOMAIN t : HasEntry(u, key, t[key])

\* The heights filed are those up to the last.
HeightsFiled == DOMAIN blockHashTree = 1 .. LastFiled

\* Between swaps a root says what the roots before it say.
Growing ==
    \A g, h \in DOMAIN blockHashTree :
        g < h /\ (\A b \in g .. h - 1 : ~Swaps(b)) => Within(blockHashTree[g], blockHashTree[h])

\* The front tree is the one of the last root, or was just emptied.
FrontIsLast ==
    IF Swaps(LastFiled) THEN txStorageTree = EmptyMap
                        ELSE txStorageTree = blockHashTree[LastFiled]

\* The back tree is the one of the root filed at the last swap.
BackIsSwapped ==
    \A b \in DOMAIN blockHashTree :
        Swaps(b) /\ b > LastFiled - SwapPeriod => txStorageTree2 = blockHashTree[b]

TxStoreInv ==
    /\ TxStoreTypeOK
    /\ HeightsFiled
    /\ Growing
    /\ FrontIsLast
    /\ BackIsSwapped

-----------------------------------------------------------------------------
\* What % and \div are, for the period.
LEMMA Division ==
    ASSUME NEW n \in Int
    PROVE  /\ n \div SwapPeriod \in Int
           /\ n % SwapPeriod \in 0 .. SwapPeriod - 1
           /\ n = SwapPeriod * (n \div SwapPeriod) + (n % SwapPeriod)
BY SMTT(30), TxStoreAssumption

\* Multiples of the period lie at least a period apart.
LEMMA SwapsApart ==
    ASSUME NEW a \in Int, NEW b \in Int, Swaps(a), Swaps(b), a < b
    PROVE  b - a >= SwapPeriod
<1> DEFINE i == a \div SwapPeriod
           j == b \div SwapPeriod
<1>1. i \in Int /\ j \in Int /\ a = SwapPeriod * i /\ b = SwapPeriod * j
  BY Division, TxStoreAssumption DEF Swaps
<1> HIDE DEF i, j
<1>2. SwapPeriod \in Int /\ SwapPeriod > 0
  BY TxStoreAssumption
<1>3. i < j
  BY <1>1, <1>2, SMTT(30)
<1>4. b - a = SwapPeriod * (j - i) /\ j - i >= 1
  BY <1>1, <1>2, <1>3, SMTT(30)
<1> QED
  BY <1>1, <1>2, <1>4, SMTT(30)

\* Between two heights of one period there is no swap.
LEMMA NoSwapWithin ==
    ASSUME NEW g \in Int, NEW h \in Int, NEW b \in g .. h - 1,
           (g - 1) \div SwapPeriod = (h - 1) \div SwapPeriod
    PROVE  ~Swaps(b)
<1> SUFFICES ASSUME Swaps(b) PROVE FALSE
  OBVIOUS
<1> DEFINE i == (g - 1) \div SwapPeriod
           j == b \div SwapPeriod
           r == (g - 1) % SwapPeriod
           s == (h - 1) % SwapPeriod
<1>1. /\ i \in Int /\ r \in 0 .. SwapPeriod - 1
      /\ g - 1 = SwapPeriod * i + r
  BY Division, TxStoreAssumption
<1>2. s \in 0 .. SwapPeriod - 1 /\ h - 1 = SwapPeriod * i + s
  <2>1. h - 1 \in Int /\ (h - 1) \div SwapPeriod = i
    OBVIOUS
  <2> QED
    BY ONLY <2>1, Division
<1>3. j \in Int /\ b = SwapPeriod * j
  BY Division, TxStoreAssumption DEF Swaps
<1> HIDE DEF i, j, r, s
<1>4. SwapPeriod \in Int /\ SwapPeriod > 0
  BY TxStoreAssumption
<1>5. SwapPeriod * i < SwapPeriod * j
  BY <1>1, <1>3, <1>4
<1>6. SwapPeriod * j < SwapPeriod * i + SwapPeriod
  <2>1. b < SwapPeriod * i + SwapPeriod
    <3>1. SwapPeriod * i \in Int
      BY <1>1, <1>4
    <3> QED
      BY <1>2, <1>4, <3>1
  <2> QED
    BY <1>3, <2>1
<1>7. i < j
  BY <1>1, <1>3, <1>4, <1>5, SMTT(30)
<1>8. SwapPeriod * (j - i) < SwapPeriod /\ j - i >= 1
  BY <1>1, <1>3, <1>4, <1>6, <1>7, SMTT(30)
<1> QED
  BY <1>1, <1>3, <1>4, <1>8, SMTT(30)

-----------------------------------------------------------------------------
\* Being within is transitive, and every tree is within itself.
LEMMA WithinOrder ==
    ASSUME NEW t, NEW u, NEW v, Within(t, u), Within(u, v)
    PROVE  Within(t, v)
BY DEF Within, HasEntry

\* The elements of a sequence.
LEMMA ElementsOf == ASSUME NEW S, NEW seq \in Seq(S), NEW i \in DOMAIN seq PROVE seq[i] \in S
OBVIOUS

\* The empty tree has no key.
LEMMA EmptyHasNoKey == DOMAIN EmptyMap = {}
BY DEF EmptyMap

\* AddBatch yields trees, and every one has all the tree had.
LEMMA AddBatchGrows ==
    ASSUME TxStoreTypeOK, NEW t, Tree(t), NEW new \in AddBatch(t)
    PROVE  Tree(new) /\ Within(t, new)
<1> DEFINE fresh == {txQueue[i].key : i \in DOMAIN txQueue} \ DOMAIN t
<1>1. PICK kept \in [fresh -> {txQueue[i].val : i \in DOMAIN txQueue}] :
        new = [key \in DOMAIN t \cup fresh |-> IF key \in fresh THEN kept[key] ELSE t[key]]
  BY DEF AddBatch
<1>2. \A i \in DOMAIN txQueue : txQueue[i].key \in TxKeys /\ txQueue[i].val \in TxHashes
  <2>1. txQueue \in Seq([key : TxKeys, val : TxHashes])
    BY DEF TxStoreTypeOK
  <2> TAKE i \in DOMAIN txQueue
  <2>2. txQueue[i] \in [key : TxKeys, val : TxHashes]
    BY <2>1, ElementsOf
  <2> QED
    BY <2>2
<1>3. fresh \subseteq TxKeys /\ \A key \in fresh : kept[key] \in TxHashes
  BY <1>2
<1>4. \A key \in DOMAIN t : key \in TxKeys /\ key \notin fresh /\ t[key] \in TxHashes
  BY DEF Tree, IsMap
<1> HIDE DEF fresh
<1> QED
  BY <1>1, <1>3, <1>4 DEF Tree, IsMap, Within, HasEntry

\* The last height filed is an integer from 0 to the height.
LEMMA LastType ==
    ASSUME TxStoreTypeOK
    PROVE  LastFiled \in Nat /\ LastFiled <= blockHeight /\ blockHeight - 1 <= LastFiled
BY TxStoreAssumption DEF TxStoreTypeOK, LastFiled, Committing

\* The empty store satisfies the invariant.
LEMMA InitTxStore == TxStoreInit => TxStoreInv
<1> SUFFICES ASSUME TxStoreInit PROVE TxStoreInv
  OBVIOUS
<1>1. DOMAIN EmptyMap = {} /\ Tree(EmptyMap)
  BY DEF EmptyMap, Tree, IsMap
<1>2. LastFiled = 0
  BY DEF TxStoreInit, LastFiled, Committing
<1>3. TxStoreTypeOK
  BY <1>1, TxStoreAssumption DEF TxStoreInit, TxStoreTypeOK
<1>4. HeightsFiled /\ Growing /\ BackIsSwapped
  BY <1>1, <1>2 DEF TxStoreInit, HeightsFiled, Growing, BackIsSwapped
<1>5. FrontIsLast
  <2>1. 0 % SwapPeriod = 0
    BY TxStoreAssumption
  <2> QED
    BY <1>2, <2>1 DEF TxStoreInit, FrontIsLast, Swaps
<1> QED
  BY <1>3, <1>4, <1>5 DEF TxStoreInv

\* A delivered transaction changes the queue alone.
LEMMA EnqueueStep ==
    ASSUME TxStoreInv, NEW key \in TxKeys, NEW hash \in TxHashes, EnqueueTx(key, hash)
    PROVE  TxStoreInv'
<1>1. Queued(key, hash) \in [key : TxKeys, val : TxHashes]
  BY DEF Queued
<1>2. txQueue' \in Seq([key : TxKeys, val : TxHashes])
  BY <1>1 DEF TxStoreInv, TxStoreTypeOK, EnqueueTx
<1> QED
  BY <1>2 DEF TxStoreInv, TxStoreTypeOK, EnqueueTx, HeightsFiled, Growing, FrontIsLast,
              BackIsSwapped, LastFiled, Committing

\* The end of a block opens the next height, which nothing is filed for.
LEMMA EndBlockTxsStep ==
    ASSUME TxStoreInv, ~Committing, EndBlockTxs
    PROVE  TxStoreInv' /\ Committing'
<1>1. blockHeight \in Nat /\ LastFiled = blockHeight
  BY TxStoreAssumption DEF LastFiled, TxStoreInv, TxStoreTypeOK
<1>2. blockHeight' = blockHeight + 1 /\ blockHashTree' = blockHashTree
  BY DEF EndBlockTxs
<1>3. DOMAIN blockHashTree = 1 .. blockHeight
  BY <1>1 DEF TxStoreInv, HeightsFiled
<1>4. Committing' /\ LastFiled' = LastFiled
  BY <1>1, <1>2, <1>3 DEF Committing, LastFiled
<1>5. TxStoreTypeOK'
  BY <1>1, TxStoreAssumption DEF TxStoreInv, TxStoreTypeOK, EndBlockTxs
<1> QED
  BY <1>4, <1>5 DEF TxStoreInv, EndBlockTxs, HeightsFiled, Growing, FrontIsLast, BackIsSwapped

\* What Commit does to the trees, and what it files.
LEMMA CommitTxsStep ==
    ASSUME TxStoreInv, Committing, CommitTxs
    PROVE  TxStoreInv'
<1>1. PICK tree \in AddBatch(txStorageTree) :
        /\ blockHashTree' = [h \in DOMAIN blockHashTree \cup {blockHeight} |->
                               IF h = blockHeight THEN tree ELSE blockHashTree[h]]
        /\ IF SwapDue
           THEN txStorageTree' = EmptyMap /\ txStorageTree2' = tree
           ELSE txStorageTree' = tree /\ UNCHANGED txStorageTree2
  BY DEF CommitTxs
<1>2. TxStoreTypeOK /\ Tree(txStorageTree)
  BY DEF TxStoreInv, TxStoreTypeOK
<1>3. Tree(tree) /\ Within(txStorageTree, tree)
  BY <1>2, AddBatchGrows
<1>4. blockHeight \in 1 .. MaxHeight /\ blockHeight' = blockHeight
  BY <1>2, TxStoreAssumption DEF TxStoreTypeOK, Committing, CommitTxs
<1> DEFINE last == blockHeight - 1
<1>5. last \in Nat /\ LastFiled = last /\ DOMAIN blockHashTree = 1 .. last
  BY <1>4, TxStoreAssumption DEF LastFiled, TxStoreInv, HeightsFiled
<1>6. DOMAIN blockHashTree' = 1 .. blockHeight
  BY <1>1, <1>4, <1>5, TxStoreAssumption
<1>7. /\ blockHashTree'[blockHeight] = tree
      /\ \A h \in 1 .. last : blockHashTree'[h] = blockHashTree[h]
  BY <1>1, <1>4, <1>5, TxStoreAssumption
<1>8. LastFiled' = blockHeight
  BY <1>4, <1>6, TxStoreAssumption DEF LastFiled, Committing
<1>9. TxStoreTypeOK'
  <2>1. txQueue' \in Seq([key : TxKeys, val : TxHashes])
    BY DEF CommitTxs
  <2>2. Tree(EmptyMap)
    BY DEF EmptyMap, Tree, IsMap
  <2>3. Tree(txStorageTree') /\ Tree(txStorageTree2')
    BY <1>1, <1>2, <1>3, <2>2 DEF TxStoreTypeOK
  <2>4. \A h \in 1 .. blockHeight : Tree(blockHashTree'[h])
    <3> TAKE h \in 1 .. blockHeight
    <3>1. h = blockHeight \/ h \in 1 .. last
      BY <1>4, TxStoreAssumption
    <3> QED
      BY <1>2, <1>3, <1>5, <1>7, <3>1 DEF TxStoreTypeOK
  <2>5. 1 .. blockHeight \subseteq 1 .. MaxHeight /\ blockHeight' \in 0 .. MaxHeight
    BY <1>4, TxStoreAssumption
  <2> QED
    BY <1>6, <2>1, <2>3, <2>4, <2>5 DEF TxStoreTypeOK, Tree
<1>10. HeightsFiled'
  BY <1>6, <1>8 DEF HeightsFiled
<1>11. Growing'
  <2> SUFFICES ASSUME NEW g \in 1 .. blockHeight, NEW h \in 1 .. blockHeight, g < h,
                      \A b \in g .. h - 1 : ~Swaps(b)
               PROVE  Within(blockHashTree'[g], blockHashTree'[h])
    BY <1>6 DEF Growing, Within, HasEntry, Swaps
  <2>1. g \in 1 .. last
    BY <1>4, TxStoreAssumption
  <2>2. CASE h \in 1 .. last
    BY <1>5, <1>7, <2>1, <2>2 DEF TxStoreInv, Growing
  <2>3. CASE h = blockHeight
    <3>1. last \in g .. h - 1 /\ ~Swaps(last)
      BY <1>4, <1>5, <2>1, <2>3, TxStoreAssumption
    <3>2. txStorageTree = blockHashTree[last]
      BY <1>5, <3>1 DEF TxStoreInv, FrontIsLast
    <3>3. Within(blockHashTree[g], blockHashTree[last])
      <4>1. CASE g = last
        BY <4>1 DEF Within, HasEntry
      <4>2. CASE g < last
        <5>1. \A b \in g .. last - 1 : ~Swaps(b)
          BY <1>4, <2>1, <2>3, TxStoreAssumption
        <5> QED
          BY <1>5, <2>1, <3>1, <4>2, <5>1 DEF TxStoreInv, Growing
      <4> QED
        BY <1>5, <2>1, <4>1, <4>2
    <3> QED
      BY <1>3, <1>7, <2>1, <2>3, <3>2, <3>3, WithinOrder
  <2> QED
    BY <1>4, <2>2, <2>3, TxStoreAssumption
<1>12. FrontIsLast'
  <2>1. SwapDue = Swaps(blockHeight) /\ Swaps(LastFiled)' = Swaps(blockHeight)
    BY <1>8 DEF SwapDue, Swaps
  <2> QED
    BY <1>1, <1>7, <1>8, <2>1 DEF FrontIsLast
<1>13. BackIsSwapped'
  <2> SUFFICES ASSUME NEW b \in 1 .. blockHeight, Swaps(b), b > blockHeight - SwapPeriod
               PROVE  txStorageTree2' = blockHashTree'[b]
    BY <1>6, <1>8 DEF BackIsSwapped, Swaps
  <2>1. CASE Swaps(blockHeight)
    <3>1. b = blockHeight
      BY <1>4, <2>1, SwapsApart, TxStoreAssumption
    <3> QED
      BY <1>1, <1>7, <2>1, <3>1 DEF SwapDue, Swaps
  <2>2. CASE ~Swaps(blockHeight)
    <3>1. b \in 1 .. last /\ b > last - SwapPeriod
      <4>1. b # blockHeight
        BY <2>2
      <4> QED
        BY <1>4, <4>1, TxStoreAssumption
    <3>2. txStorageTree2 = blockHashTree[b]
      BY <1>5, <3>1 DEF TxStoreInv, BackIsSwapped
    <3> QED
      BY <1>1, <1>7, <2>2, <3>1, <3>2 DEF SwapDue, Swaps
  <2> QED
    BY <2>1, <2>2
<1> QED
  BY <1>9, <1>10, <1>11, <1>12, <1>13 DEF TxStoreInv

\* Every step of the store keeps the invariant.
LEMMA NextTxStore == TxStoreInv /\ [TxStoreNext]_txStoreVars => TxStoreInv'
<1> SUFFICES ASSUME TxStoreInv, [TxStoreNext]_txStoreVars PROVE TxStoreInv'
  OBVIOUS
<1>1. ASSUME NEW key \in TxKeys, NEW hash \in TxHashes, EnqueueTx(key, hash) PROVE TxStoreInv'
  BY <1>1, EnqueueStep
<1>2. CASE ~Committing /\ EndBlockTxs
  BY <1>2, EndBlockTxsStep
<1>3. CASE Committing /\ CommitTxs
  BY <1>3, CommitTxsStep
<1>4. CASE UNCHANGED txStoreVars
  BY <1>4 DEF txStoreVars, TxStoreInv, TxStoreTypeOK, Tree, HeightsFiled, Growing, FrontIsLast,
              BackIsSwapped, LastFiled, Committing
<1> QED
  BY <1>1, <1>2, <1>3, <1>4 DEF TxStoreNext

\* The invariant behind the theorems below holds of every history.
THEOREM TxStoreInvariance == TxStoreSpec => []TxStoreInv
BY InitTxStore, NextTxStore, PTL DEF TxStoreSpec

\* The trees map keys of transactions to digests, and roots are filed under
\* heights that were reached, for every period and any queue.
THEOREM TxStoreTypes == TxStoreSpec => []TxStoreTypeOK
<1>1. TxStoreInv => TxStoreTypeOK
  BY DEF TxStoreInv
<1> QED
  BY <1>1, TxStoreInvariance, PTL

-----------------------------------------------------------------------------
\* Between two heights filed without a swap between them the trees grew.
LEMMA GrewTo ==
    ASSUME TxStoreInv, NEW g \in DOMAIN blockHashTree, NEW h \in DOMAIN blockHashTree,
           g <= h, \A b \in g .. h - 1 : ~Swaps(b)
    PROVE  Within(blockHashTree[g], blockHashTree[h])
<1>1. g \in Int /\ h \in Int
  BY DEF TxStoreInv, TxStoreTypeOK
<1>2. CASE g = h
  BY <1>2 DEF Within, HasEntry
<1>3. CASE g < h
  BY <1>3 DEF TxStoreInv, Growing
<1> QED
  BY <1>1, <1>2, <1>3

\* What was filed since the last swap is in the front tree.
LEMMA SinceSwap ==
    ASSUME TxStoreInv, NEW h \in DOMAIN blockHashTree, \A b \in h .. LastFiled : ~Swaps(b)
    PROVE  Within(blockHashTree[h], txStorageTree)
<1>1. DOMAIN blockHashTree = 1 .. LastFiled /\ LastFiled \in Nat
  BY LastType DEF TxStoreInv, HeightsFiled
<1>2. h \in Int /\ 1 <= h /\ h <= LastFiled /\ LastFiled \in DOMAIN blockHashTree
  BY <1>1
<1>3. Within(blockHashTree[h], blockHashTree[LastFiled])
  BY <1>1, <1>2, GrewTo
<1>4. txStorageTree = blockHashTree[LastFiled]
  BY <1>1, <1>2 DEF TxStoreInv, FrontIsLast
<1> QED
  BY <1>3, <1>4

\* What was filed for one of the last SwapPeriod heights is in one of the trees.
LEMMA LastPeriod ==
    ASSUME TxStoreInv, NEW h \in DOMAIN blockHashTree, h > LastFiled - SwapPeriod
    PROVE  Within(blockHashTree[h], txStorageTree) \/ Within(blockHashTree[h], txStorageTree2)
<1>1. DOMAIN blockHashTree = 1 .. LastFiled /\ LastFiled \in Nat
  BY LastType DEF TxStoreInv, HeightsFiled
<1>2. h \in Int /\ 1 <= h /\ h <= LastFiled
  BY <1>1
<1>3. CASE \A b \in h .. LastFiled : ~Swaps(b)
  BY <1>3, SinceSwap
<1>4. ASSUME NEW b \in h .. LastFiled, Swaps(b)
      PROVE  Within(blockHashTree[h], txStorageTree2)
  <2>1. b \in Int /\ h <= b /\ b <= LastFiled /\ b \in DOMAIN blockHashTree
    BY <1>1, <1>2
  <2>2. txStorageTree2 = blockHashTree[b]
    BY <1>1, <1>2, <1>4, <2>1, TxStoreAssumption DEF TxStoreInv, BackIsSwapped
  <2>3. \A c \in h .. b - 1 : ~Swaps(c)
    <3> SUFFICES ASSUME NEW c \in h .. b - 1, Swaps(c) PROVE FALSE
      OBVIOUS
    <3>1. b - c >= SwapPeriod
      BY <1>2, <1>4, <2>1, SwapsApart
    <3> QED
      BY <1>1, <1>2, <2>1, <3>1, TxStoreAssumption
  <2> QED
    BY <2>1, <2>2, <2>3, GrewTo
<1> QED
  BY <1>3, <1>4

\* Clearing the back tree at a swap loses nothing of the last SwapPeriod
\* blocks: their transactions are in one of the two trees.
THEOREM Retention == TxStoreSpec => []RecentTxsRetained
<1>1. TxStoreInv => RecentTxsRetained
  <2> SUFFICES ASSUME TxStoreInv, NEW h \in DOMAIN blockHashTree, h > blockHeight - SwapPeriod
               PROVE  \/ Within(blockHashTree[h], txStorageTree)
                      \/ Within(blockHashTree[h], txStorageTree2)
    BY DEF RecentTxsRetained, Within
  <2>1. h > LastFiled - SwapPeriod
    BY LastType, TxStoreAssumption DEF TxStoreInv, TxStoreTypeOK
  <2> QED
    BY <2>1, LastPeriod
<1> QED
  BY <1>1, TxStoreInvariance, PTL

\* Between a commit and the next EndBlock the front tree is the last root's.
LEMMA FrontRootFits == TxStoreInv => FrontProofsVerify
<1> SUFFICES ASSUME TxStoreInv, blockHeight \in DOMAIN blockHashTree, txStorageTree # EmptyMap
             PROVE  txStorageTree = ProvenRoot
  BY DEF FrontProofsVerify, ProvingTree
<1>1. LastFiled = blockHeight
  BY DEF LastFiled, Committing
<1>2. txStorageTree = blockHashTree[blockHeight]
  BY <1>1, EmptyHasNoKey DEF TxStoreInv, FrontIsLast
<1> QED
  BY <1>2 DEF ProvenRoot

\* The proof Query takes from the front tree goes with the root it proves
\* beside it.
THEOREM FrontProofs == TxStoreSpec => []FrontProofsVerify
BY FrontRootFits, TxStoreInvariance, PTL

\* Two roots of one period never disagree about a transaction.
THEOREM RootAgreement == TxStoreSpec => []RootsAgree
<1>1. TxStoreInv => RootsAgree
  <2> SUFFICES ASSUME TxStoreInv, NEW g \in DOMAIN blockHashTree, NEW h \in DOMAIN blockHashTree,
                      g < h, (g - 1) \div SwapPeriod = (h - 1) \div SwapPeriod
               PROVE  Within(blockHashTree[g], blockHashTree[h])
    BY DEF RootsAgree, Within
  <2>1. g \in Int /\ h \in Int
    BY DEF TxStoreInv, TxStoreTypeOK
  <2>2. \A b \in g .. h - 1 : ~Swaps(b)
    BY <2>1, NoSwapWithin
  <2> QED
    BY <2>1, <2>2, GrewTo
<1> QED
  BY <1>1, TxStoreInvariance, PTL

=============================================================================
