------------------------------ MODULE TxProofs ------------------------------
(***************************************************************************)
(* What a Query of eight bytes answers with, and how a client checks it    *)
(* (CheckProofPrint, app.go): the transaction's proof against the root of  *)
(* the transaction tree, and that root's against the root of the tree of   *)
(* block hashes.                                                           *)
(*                                                                         *)
(* Keys are sequences of bits, in the order the levels of a tree read      *)
(* them.  Hashes are symbolic.  How the arbo library builds a tree and its *)
(* proofs is modelled from what the checking code undoes.                  *)
(***************************************************************************)
EXTENDS TxStore, FiniteSetsExt

CONSTANT HeightBits   \* the height in 8 bytes, highest first, each from its lowest bit

Bits == {0, 1}

\* Keys of one tree have one length.
ASSUME KeysAssumption ==
    /\ TxKeys \subseteq Seq(Bits)
    /\ \A j, k \in TxKeys : Len(j) = Len(k)

ASSUME HeightBitsAssumption ==
    \A g, h \in 1 .. MaxHeight :
        /\ HeightBits[g] \in Seq(Bits) /\ Len(HeightBits[g]) = Len(HeightBits[h])
        /\ HeightBits[g] = HeightBits[h] => g = h

Empty == <<"empty">>

\* Faulty variant: the key is not part of the leaf.
LeafOfValue(k, v) == <<"leaf", v>>

newLeafValue(k, v) == <<"leaf", k, v>>

newIntermediate(l, r) == <<"node", l, r>>

-----------------------------------------------------------------------------
(***************************************************************************)
(* The library: a leaf sits where its key's path is its own; a proof has   *)
(* the siblings of that path, packed as a bitmap and those not empty.      *)
(***************************************************************************)
\* How many of the first i bits of a bitmap are set.
Used(bitmap, i) == Cardinality({j \in 1 .. i : bitmap[j]})

Prefix(k, n) == [i \in 1 .. n |-> k[i]]

\* The keys behind a path.
Under(tree, path) == {k \in DOMAIN tree : Prefix(k, Len(path)) = path}

AtMostOne(K) == \A j, k \in K : j = k

\* The nodes of a tree, by their paths.
Nodes(tree) ==
    LET node[path \in Seq(Bits)] ==
          LET keys == Under(tree, path) IN
          IF keys = {} THEN Empty
          ELSE IF AtMostOne(keys)
          THEN LET k == CHOOSE k \in keys : TRUE IN newLeafValue(k, tree[k])
          ELSE newIntermediate(node[Append(path, 0)], node[Append(path, 1)])
    IN  node

Root(tree) == Nodes(tree)[<<>>]

\* How many bits of its key lead to a leaf.
Depth(tree, k) == Min({n \in 0 .. Len(k) : AtMostOne(Under(tree, Prefix(k, n)))})

Sibling(tree, k, level) == Nodes(tree)[Append(Prefix(k, level - 1), 1 - k[level])]

\* A bitmap fills whole bytes.
GenProof(tree, k) ==
    LET levels == Depth(tree, k)
        full   == {i \in 1 .. levels : Sibling(tree, k, i) # Empty}
        bitmap == [i \in 1 .. 8 * ((levels + 7) \div 8) |-> i \in full]
        given(j) == CHOOSE i \in full : Used(bitmap, i) = j
    IN  [bitmap |-> bitmap,
         given  |-> [j \in 1 .. Cardinality(full) |-> Sibling(tree, k, given(j))]]

-----------------------------------------------------------------------------
(***************************************************************************)
(* The check.  Unpacking stops when the given siblings are used up.        *)
(***************************************************************************)
\* Faulty variant: the empty siblings are left out.
UnpackGiven(packed) == packed.given

UnpackSiblings(packed) ==
    LET levels == {i \in DOMAIN packed.bitmap : Used(packed.bitmap, i - 1) < Len(packed.given)}
    IN  [i \in 1 .. Cardinality(levels) |->
           IF packed.bitmap[i] THEN packed.given[Used(packed.bitmap, i)] ELSE Empty]

getPath(numLevels, k) == SubSeq(k, 1, numLevels)

\* The loop from the last sibling to the first: climbed[i] is what it has made
\* of the leaf when i - 1 siblings are left.
Climbed(leaf, siblings, path) ==
    LET climbed[i \in 1 .. Len(siblings) + 1] ==
          IF i > Len(siblings) THEN leaf
          ELSE IF path[i] = 1 THEN newIntermediate(siblings[i], climbed[i + 1])
          ELSE newIntermediate(climbed[i + 1], siblings[i])
    IN  climbed

CheckProofPrint(k, v, root, packed) ==
    LET siblings == UnpackSiblings(packed)
    IN  Climbed(newLeafValue(k, v), siblings, getPath(Len(siblings), k))[1] = root

BlockHashes == [b \in {HeightBits[h] : h \in DOMAIN blockHashTree} |->
                  Root(blockHashTree[CHOOSE h \in DOMAIN blockHashTree : HeightBits[h] = b])]

\* The key and the value of the leaf at the end of a key's path, if there is one:
\* the key's own, or another one's, which shows that the key has no entry.
LeavesAt(tree, k) == {<<j, tree[j]>> : j \in Under(tree, Prefix(k, Depth(tree, k)))}

\* One proof: what is at the end of a key's path, the root, the siblings between.
Proof(tree, k) ==
    [leaves |-> LeavesAt(tree, k), root |-> Root(tree), siblings |-> GenProof(tree, k)]

\* The answer to a Query for a key: a proof of the key, and one of the last height.
Answer(key) == [tx    |-> Proof(ProvingTree, key),
                block |-> Proof(BlockHashes, HeightBits[blockHeight])]

-----------------------------------------------------------------------------
(***************************************************************************)
(* Properties.                                                             *)
(***************************************************************************)

\* What Query answers - a transaction of the front tree by its own leaf, any other
\* key by the leaf its path ends at - convinces a client who knows nothing but the
\* root of the tree of block hashes: both proofs check, whatever siblings were
\* empty and left out, and meet in one root.  (A path that ends without a leaf
\* leaves nothing to check; after a swap, all do.)
AnswersConvince ==
    blockHeight \in DOMAIN blockHashTree =>
        \A key \in TxKeys : LET a == Answer(key) IN
            /\ key \in DOMAIN txStorageTree => a.tx.leaves = {<<key, txStorageTree[key]>>}
            /\ \A proof \in {a.tx, a.block} : \A leaf \in proof.leaves :
                 CheckProofPrint(leaf[1], leaf[2], proof.root, proof.siblings)
            /\ a.tx.leaves # {} => a.block.leaves = {<<HeightBits[blockHeight], a.tx.root>>}

\* No proof made for any key, by whatever tree there has been, convinces anyone
\* of another transaction than those of the tree whose root it is checked with.
\* (The trees change at Commit only: it is enough to look after it.)
NothingElseConvinces ==
    txQueue = <<>> =>
        LET trees  == {blockHashTree[h] : h \in DOMAIN blockHashTree}
            proofs == {GenProof(tree, k) : tree \in trees, k \in TxKeys}
        IN  \A tree \in trees : LET root == Root(tree) IN
                \A proof \in proofs, key \in TxKeys, val \in TxHashes :
                    CheckProofPrint(key, val, root, proof) => HasEntry(tree, key, val)

=============================================================================
