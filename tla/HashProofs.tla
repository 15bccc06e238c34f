----------------------------- MODULE HashProofs -----------------------------
(***************************************************************************)
(* Proofs about what is hashed.  First the Merkle proofs: the answers of a *)
(* Query convince, and nothing else does.  Then the sponge: hashing bytes  *)
(* is hashing frame after frame, and only padding makes two messages one.  *)
(*                                                                         *)
(* Recursive functions are used through lemmas that say they exist and     *)
(* what one step of them is.                                               *)
(***************************************************************************)
EXTENDS TxProofs, Sponge, TxStoreProofs, FiniteSetTheorems

\* There is a first of any numbers.
LEMMA FirstOf ==
    ASSUME NEW S \in SUBSET Nat, S # {}
    PROVE  \E n \in S : \A m \in S : n <= m
<1>1. PICK n \in S : \A m \in S : <<m, n>> \notin OpToRel(<, Nat)
  BY NatLessThanWellFounded, WFMin
<1>2. \A m \in S : ~(m < n)
  BY <1>1 DEF OpToRel
<1> QED
  BY <1>2

\* What holds of 0 and of the number behind each it holds of holds of all.
LEMMA CountingUp ==
    ASSUME NEW S, 0 \in S, \A n \in Nat : n \in S => n + 1 \in S
    PROVE  Nat \subseteq S
<1> DEFINE Bad == {n \in Nat : n \notin S}
<1> SUFFICES ASSUME Bad # {} PROVE FALSE
  OBVIOUS
<1>1. PICK n \in Bad : \A m \in Bad : n <= m
  <2>1. Bad \in SUBSET Nat
    OBVIOUS
  <2> HIDE DEF Bad
  <2> QED
    BY <2>1, FirstOf
<1>2. n \in Nat /\ n # 0
  BY <1>1
<1>3. n - 1 \in Nat /\ n - 1 \in S
  BY <1>1, <1>2
<1>4. (n - 1) + 1 \in S
  BY <1>3
<1> QED
  BY <1>1, <1>2, <1>4

LEMMA CountingUpTo ==
    ASSUME NEW last \in Nat, NEW S, 0 \in S, \A n \in 0 .. last - 1 : n \in S => n + 1 \in S
    PROVE  0 .. last \subseteq S
<1> DEFINE T == {n \in Nat : n <= last => n \in S}
<1>1. 0 \in T
  OBVIOUS
<1>2. \A n \in Nat : n \in T => n + 1 \in T
  OBVIOUS
<1>3. Nat \subseteq T
  <2> HIDE DEF T
  <2> QED
    BY <1>1, <1>2, CountingUp
<1> QED
  BY <1>3

-----------------------------------------------------------------------------
(***************************************************************************)
(* Paths and the keys behind them.                                         *)
(***************************************************************************)
\* What the program files in a tree: bits, as many for each key.
KeysFit(tree) ==
    /\ DOMAIN tree \subseteq Seq(Bits)
    /\ \A j, k \in DOMAIN tree : Len(j) = Len(k)

\* A key that could be one of them.
KeyFits(tree, k) == k \in Seq(Bits) /\ \A j \in DOMAIN tree : Len(j) = Len(k)

LEMMA Prefixes ==
    ASSUME NEW k \in Seq(Bits), NEW n \in 0 .. Len(k)
    PROVE  Prefix(k, n) \in Seq(Bits) /\ Len(Prefix(k, n)) = n /\ Prefix(k, 0) = <<>>
<1>1. \A i \in 1 .. n : k[i] \in Bits
  OBVIOUS
<1>2. Prefix(k, n) \in Seq(Bits) /\ Len(Prefix(k, n)) = n
  BY <1>1 DEF Prefix
<1>3. Prefix(k, 0) \in Seq(Bits) /\ Len(Prefix(k, 0)) = 0
  BY DEF Prefix
<1> QED
  BY <1>2, <1>3

\* A path goes on by a bit of the key.
LEMMA LongerPrefix ==
    ASSUME NEW k \in Seq(Bits), NEW n \in 1 .. Len(k)
    PROVE  /\ Append(Prefix(k, n - 1), k[n]) = Prefix(k, n)
           /\ k[n] \in Bits /\ 1 - k[n] \in Bits
           /\ Append(Prefix(k, n - 1), 1 - k[n]) \in Seq(Bits)
           /\ Len(Append(Prefix(k, n - 1), 1 - k[n])) = n
<1> DEFINE p == Prefix(k, n - 1)
<1>1. p \in Seq(Bits) /\ Len(p) = n - 1 /\ k[n] \in Bits
  BY Prefixes
<1>2. 1 - k[n] \in Bits
  BY <1>1 DEF Bits
<1>3. Append(p, k[n]) \in Seq(Bits) /\ Len(Append(p, k[n])) = n
  BY <1>1
<1>4. Prefix(k, n) \in Seq(Bits) /\ Len(Prefix(k, n)) = n
  BY Prefixes
<1>5. \A i \in 1 .. n : Append(p, k[n])[i] = Prefix(k, n)[i]
  <2> TAKE i \in 1 .. n
  <2>1. Prefix(k, n)[i] = k[i]
    BY DEF Prefix
  <2>2. CASE i = n
    BY <1>1, <2>1, <2>2
  <2>3. CASE i # n
    <3>1. i \in 1 .. n - 1 /\ i \in 1 .. Len(p)
      BY <1>1, <2>3
    <3>2. p[i] = k[i]
      BY <3>1 DEF Prefix
    <3> HIDE DEF p
    <3> QED
      BY <1>1, <2>1, <3>1, <3>2
  <2> QED
    BY <2>2, <2>3
<1>6. Append(p, k[n]) = Prefix(k, n)
  BY <1>3, <1>4, <1>5
<1> QED
  BY <1>1, <1>2, <1>6

\* Keys that share all their bits are one.
LEMMA FullPaths ==
    ASSUME NEW tree, KeysFit(tree), NEW path \in Seq(Bits),
           \A k \in DOMAIN tree : Len(k) <= Len(path)
    PROVE  AtMostOne(Under(tree, path))
<1> SUFFICES ASSUME NEW j \in Under(tree, path), NEW k \in Under(tree, path) PROVE j = k
  BY DEF AtMostOne
<1>1. /\ j \in Seq(Bits) /\ k \in Seq(Bits) /\ Len(j) = Len(k) /\ Len(k) <= Len(path)
      /\ Prefix(j, Len(path)) = Prefix(k, Len(path))
  BY DEF Under, KeysFit
<1>2. \A i \in 1 .. Len(path) : j[i] = k[i]
  <2> TAKE i \in 1 .. Len(path)
  <2>1. Prefix(j, Len(path))[i] = j[i] /\ Prefix(k, Len(path))[i] = k[i]
    BY DEF Prefix
  <2> QED
    BY <1>1, <2>1
<1>3. \A i \in 1 .. Len(k) : j[i] = k[i]
  BY <1>1, <1>2
<1> QED
  BY <1>1, <1>3

-----------------------------------------------------------------------------
(***************************************************************************)
(* The nodes of a tree.                                                    *)
(***************************************************************************)
NodeOf(tree, node, path) ==
    LET keys == Under(tree, path) IN
    IF keys = {} THEN Empty
    ELSE IF AtMostOne(keys)
    THEN LET k == CHOOSE k \in keys : TRUE IN newLeafValue(k, tree[k])
    ELSE newIntermediate(node[Append(path, 0)], node[Append(path, 1)])

\* The recursion has a value: no path goes on behind the last bits of the keys.
LEMMA NodesExist ==
    ASSUME NEW tree, KeysFit(tree)
    PROVE  \E node : node = [path \in Seq(Bits) |-> NodeOf(tree, node, path)]
<1>1. PICK last \in Nat : \A k \in DOMAIN tree : Len(k) <= last
  <2>1. CASE DOMAIN tree = {}
    BY <2>1
  <2>2. CASE DOMAIN tree # {}
    <3>1. PICK k \in DOMAIN tree : TRUE
      BY <2>2
    <3>2. Len(k) \in Nat /\ \A j \in DOMAIN tree : Len(j) <= Len(k)
      BY <3>1 DEF KeysFit
    <3> QED
      BY <3>2
  <2> QED
    BY <2>1, <2>2
<1> DEFINE Paths(n) == {path \in Seq(Bits) : Len(path) + n >= last}
           P(n) == \E node : node = [path \in Paths(n) |-> NodeOf(tree, node, path)]
           Good == {n \in Nat : P(n)}
<1>2. \A path \in Seq(Bits) : /\ Append(path, 0) \in Seq(Bits) /\ Append(path, 1) \in Seq(Bits)
                              /\ Len(Append(path, 0)) = Len(path) + 1
                              /\ Len(Append(path, 1)) = Len(path) + 1
                              /\ Len(path) \in Nat
  BY DEF Bits
<1>3. P(0)
  <2> DEFINE node == [path \in Paths(0) |-> NodeOf(tree, <<>>, path)]
  <2>1. \A path \in Paths(0) : NodeOf(tree, <<>>, path) = NodeOf(tree, node, path)
    <3> TAKE path \in Paths(0)
    <3>1. \A k \in DOMAIN tree : Len(k) <= Len(path)
      <4> TAKE k \in DOMAIN tree
      <4>1. Len(k) \in Nat /\ Len(k) <= last /\ Len(path) >= last /\ Len(path) \in Nat
        BY <1>1, <1>2 DEF KeysFit
      <4> QED
        BY <4>1
    <3>2. AtMostOne(Under(tree, path))
      BY <3>1, FullPaths
    <3> QED
      BY <3>2 DEF NodeOf
  <2>2. node = [path \in Paths(0) |-> NodeOf(tree, node, path)]
    BY <2>1
  <2> QED
    BY <2>2
<1>4. ASSUME NEW n \in Nat, P(n) PROVE P(n + 1)
  <2>1. PICK g : g = [path \in Paths(n) |-> NodeOf(tree, g, path)]
    BY <1>4
  <2> DEFINE node == [path \in Paths(n + 1) |-> NodeOf(tree, g, path)]
  <2>2. \A path \in Paths(n) : path \in Paths(n + 1) /\ node[path] = g[path]
    <3> TAKE path \in Paths(n)
    <3>1. path \in Paths(n + 1)
      BY <1>2
    <3>2. g[path] = NodeOf(tree, g, path)
      BY <2>1
    <3> QED
      BY <3>1, <3>2
  <2>3. \A path \in Paths(n + 1) : Append(path, 0) \in Paths(n) /\ Append(path, 1) \in Paths(n)
    BY <1>2
  <2>4. \A path \in Paths(n + 1) : NodeOf(tree, g, path) = NodeOf(tree, node, path)
    <3> TAKE path \in Paths(n + 1)
    <3>1. /\ node[Append(path, 0)] = g[Append(path, 0)]
          /\ node[Append(path, 1)] = g[Append(path, 1)]
      BY <2>2, <2>3
    <3> HIDE DEF node
    <3> QED
      BY <3>1 DEF NodeOf
  <2>5. node = [path \in Paths(n + 1) |-> NodeOf(tree, node, path)]
    BY <2>4
  <2> HIDE DEF node
  <2> QED
    BY <2>5
<1> HIDE DEF P
<1>5 Nat \subseteq Good
  <2>1. 0 \in Good /\ \A n \in Nat : n \in Good => n + 1 \in Good
    BY <1>3, <1>4
  <2> HIDE DEF Good
  <2> QED
    BY <2>1, CountingUp
<1>6. P(last)
  BY <1>5
<1>7. Paths(last) = Seq(Bits)
  BY <1>2
<1> QED
  BY <1>6, <1>7 DEF P

\* What there is at a path.
LEMMA NodeAtPath ==
    ASSUME NEW tree, KeysFit(tree), NEW path \in Seq(Bits)
    PROVE  Nodes(tree)[path] = NodeOf(tree, Nodes(tree), path)
<1> DEFINE IsNodes(node) == node = [p \in Seq(Bits) |-> NodeOf(tree, node, p)]
<1>1. \E node : IsNodes(node)
  BY NodesExist
<1>2. Nodes(tree) = CHOOSE node : IsNodes(node)
  BY DEF Nodes, NodeOf
<1>3. IsNodes(Nodes(tree))
  BY <1>1, <1>2
<1> QED
  BY <1>3

\* The three things a node can be are told apart by their first part.
LEMMA NodeKinds ==
    ASSUME NEW tree, KeysFit(tree), NEW path \in Seq(Bits)
    PROVE  LET node == Nodes(tree)[path] IN
           /\ node = Empty => Under(tree, path) = {}
           /\ node[1] = "node" =>
                node = newIntermediate(Nodes(tree)[Append(path, 0)], Nodes(tree)[Append(path, 1)])
           /\ node[1] = "leaf" => \E k \in DOMAIN tree : node = newLeafValue(k, tree[k])
<1> DEFINE keys == Under(tree, path)
           node == Nodes(tree)[path]
<1>1. node = NodeOf(tree, Nodes(tree), path)
  BY NodeAtPath
<1>2. CASE keys = {}
  <2>1. node = <<"empty">>
    BY <1>1, <1>2 DEF NodeOf, Empty
  <2>2. node[1] = "empty"
    BY <2>1
  <2> QED
    BY <1>2, <2>2
<1>3. CASE keys # {} /\ AtMostOne(keys)
  <2> DEFINE k == CHOOSE k \in keys : TRUE
  <2>1. node = newLeafValue(k, tree[k]) /\ k \in DOMAIN tree
    BY <1>1, <1>3 DEF NodeOf, Under
  <2>2. node[1] = "leaf"
    BY <2>1 DEF newLeafValue
  <2>3. Empty[1] = "empty"
    BY DEF Empty
  <2> QED
    BY <2>1, <2>2, <2>3
<1>4. CASE keys # {} /\ ~AtMostOne(keys)
  <2>1. node = newIntermediate(Nodes(tree)[Append(path, 0)], Nodes(tree)[Append(path, 1)])
    BY <1>1, <1>4 DEF NodeOf
  <2>2. node[1] = "node"
    BY <2>1 DEF newIntermediate
  <2>3. Empty[1] = "empty"
    BY DEF Empty
  <2> QED
    BY <2>1, <2>2, <2>3
<1> QED
  BY <1>2, <1>3, <1>4

-----------------------------------------------------------------------------
(***************************************************************************)
(* The loop of the check.                                                  *)
(***************************************************************************)
ClimbStep(leaf, siblings, path, climbed, i) ==
    IF i > Len(siblings) THEN leaf
    ELSE IF path[i] = 1 THEN newIntermediate(siblings[i], climbed[i + 1])
    ELSE newIntermediate(climbed[i + 1], siblings[i])

LEMMA ClimbExists ==
    ASSUME NEW leaf, NEW siblings, NEW path, Len(siblings) \in Nat
    PROVE  \E climbed : climbed = [i \in 1 .. Len(siblings) + 1 |->
                                     ClimbStep(leaf, siblings, path, climbed, i)]
<1> DEFINE last == Len(siblings) + 1
           Levels(n) == {i \in 1 .. last : i + n >= last}
           Step(c, i) == ClimbStep(leaf, siblings, path, c, i)
           P(n) == \E c : c = [i \in Levels(n) |-> Step(c, i)]
           Good == {n \in Nat : P(n)}
<1>1. P(0)
  <2> DEFINE c == [i \in Levels(0) |-> Step(<<>>, i)]
  <2>1. \A i \in Levels(0) : Step(<<>>, i) = Step(c, i)
    BY DEF ClimbStep
  <2>2. c = [i \in Levels(0) |-> Step(c, i)]
    BY <2>1
  <2> QED
    BY <2>2
<1>2. ASSUME NEW n \in Nat, P(n) PROVE P(n + 1)
  <2>1. PICK g : g = [i \in Levels(n) |-> Step(g, i)]
    BY <1>2
  <2> DEFINE c == [i \in Levels(n + 1) |-> Step(g, i)]
  <2>2. \A i \in Levels(n) : i \in Levels(n + 1) /\ c[i] = g[i]
    <3> TAKE i \in Levels(n)
    <3>1. i \in Levels(n + 1)
      OBVIOUS
    <3>2. g[i] = Step(g, i)
      BY <2>1
    <3> QED
      BY <3>1, <3>2
  <2>3. \A i \in Levels(n + 1) : Step(g, i) = Step(c, i)
    <3> TAKE i \in Levels(n + 1)
    <3>1. CASE i > Len(siblings)
      BY <3>1 DEF ClimbStep
    <3>2. CASE ~(i > Len(siblings))
      <4>1. i + 1 \in Levels(n)
        BY <3>2
      <4>2. c[i + 1] = g[i + 1]
        BY <2>2, <4>1
      <4> HIDE DEF c
      <4> QED
        BY <4>2 DEF ClimbStep
    <3> QED
      BY <3>1, <3>2
  <2>4. c = [i \in Levels(n + 1) |-> Step(c, i)]
    BY <2>3
  <2> HIDE DEF c
  <2> QED
    BY <2>4
<1> HIDE DEF P
<1>3 Nat \subseteq Good
  <2>1. 0 \in Good /\ \A n \in Nat : n \in Good => n + 1 \in Good
    BY <1>1, <1>2
  <2> HIDE DEF Good
  <2> QED
    BY <2>1, CountingUp
<1>4. P(last)
  BY <1>3
<1>5. Levels(last) = 1 .. last
  OBVIOUS
<1> QED
  BY <1>4, <1>5 DEF P

\* What each round of the loop makes of what the round before has made.
LEMMA Climbing ==
    ASSUME NEW leaf, NEW siblings, NEW path, Len(siblings) \in Nat,
           NEW i \in 1 .. Len(siblings) + 1
    PROVE  LET climbed == Climbed(leaf, siblings, path) IN
           climbed[i] = ClimbStep(leaf, siblings, path, climbed, i)
<1> DEFINE IsClimb(c) == c = [j \in 1 .. Len(siblings) + 1 |->
                                ClimbStep(leaf, siblings, path, c, j)]
<1>1. \E c : IsClimb(c)
  BY ClimbExists
<1>2. Climbed(leaf, siblings, path) = CHOOSE c : IsClimb(c)
  BY DEF Climbed, ClimbStep
<1>3. IsClimb(Climbed(leaf, siblings, path))
  BY <1>1, <1>2
<1> QED
  BY <1>3

\* The path the check takes is the key's own.
LEMMA PathOfKey ==
    ASSUME NEW k \in Seq(Bits), NEW n \in 0 .. Len(k), NEW i \in 1 .. n
    PROVE  getPath(n, k)[i] = k[i]
BY DEF getPath

\* A leaf that leads to the root of a tree, by whatever siblings, is in the tree:
\* what the loop makes on its way is what there is in the tree on the path.
LEMMA OnlyEntriesLead ==
    ASSUME NEW tree, KeysFit(tree), NEW key \in Seq(Bits), NEW val,
           NEW siblings, Len(siblings) \in 0 .. Len(key),
           Climbed(newLeafValue(key, val), siblings, getPath(Len(siblings), key))[1] = Root(tree)
    PROVE  HasEntry(tree, key, val)
<1> DEFINE n == Len(siblings)
           leaf == newLeafValue(key, val)
           path == getPath(n, key)
           climbed == Climbed(leaf, siblings, path)
           Same(i) == climbed[i] = Nodes(tree)[Prefix(key, i - 1)]
<1>1. Same(1)
  <2>1. Prefix(key, 0) = <<>>
    BY Prefixes
  <2> QED
    BY <2>1 DEF Root
<1>2. ASSUME NEW i \in 1 .. n, Same(i) PROVE Same(i + 1)
  <2> DEFINE p == Prefix(key, i - 1)
             l == Nodes(tree)[Append(p, 0)]
             r == Nodes(tree)[Append(p, 1)]
  <2>1. climbed[i] = IF path[i] = 1 THEN newIntermediate(siblings[i], climbed[i + 1])
                     ELSE newIntermediate(climbed[i + 1], siblings[i])
    <3>1. climbed[i] = ClimbStep(leaf, siblings, path, climbed, i)
      BY Climbing
    <3> HIDE DEF climbed, leaf, path
    <3> QED
      BY <3>1 DEF ClimbStep
  <2>2. path[i] = key[i] /\ key[i] \in Bits
    BY PathOfKey, LongerPrefix
  <2>3. p \in Seq(Bits)
    BY Prefixes
  <2> HIDE DEF climbed, path
  <2>4. climbed[i][1] = "node"
    BY <2>1 DEF newIntermediate
  <2>5. climbed[i] = newIntermediate(l, r)
    <3>1. Nodes(tree)[p][1] = "node"
      BY <1>2, <2>4
    <3>2. Nodes(tree)[p] = newIntermediate(l, r)
      BY <2>3, <3>1, NodeKinds
    <3> QED
      BY <1>2, <3>2
  <2>6. climbed[i + 1] = Nodes(tree)[Append(p, key[i])]
    <3>1. CASE key[i] = 1
      <4>1. newIntermediate(siblings[i], climbed[i + 1]) = newIntermediate(l, r)
        BY <2>1, <2>2, <2>5, <3>1
      <4>2. climbed[i + 1] = r
        BY <4>1 DEF newIntermediate
      <4> QED
        BY <3>1, <4>2
    <3>2. CASE key[i] = 0
      <4>1. newIntermediate(climbed[i + 1], siblings[i]) = newIntermediate(l, r)
        BY <2>1, <2>2, <2>5, <3>2
      <4>2. climbed[i + 1] = l
        BY <4>1 DEF newIntermediate
      <4> QED
        BY <3>2, <4>2
    <3> QED
      BY <2>2, <3>1, <3>2 DEF Bits
  <2>7. Append(p, key[i]) = Prefix(key, i)
    BY LongerPrefix
  <2>8. (i + 1) - 1 = i
    OBVIOUS
  <2> QED
    BY <2>6, <2>7, <2>8
<1>3. Same(n + 1)
  <2> DEFINE S == {i \in 0 .. n : Same(i + 1)}
  <2> HIDE DEF Same
  <2>1. n \in Nat /\ 0 \in S
    BY <1>1
  <2>2. ASSUME NEW i \in 0 .. n - 1, i \in S PROVE i + 1 \in S
    BY <1>2, <2>2
  <2>3. 0 .. n \subseteq S
    <3> HIDE DEF S
    <3> QED
      BY <2>1, <2>2, CountingUpTo
  <2> QED
    BY <2>1, <2>3
<1>4. climbed[n + 1] = Nodes(tree)[Prefix(key, n)]
  <2>1. n + 1 - 1 = n
    OBVIOUS
  <2> QED
    BY <1>3, <2>1
<1>5. climbed[n + 1] = leaf
  <2>1. climbed[n + 1] = ClimbStep(leaf, siblings, path, climbed, n + 1)
    BY Climbing
  <2> HIDE DEF climbed
  <2> QED
    BY <2>1 DEF ClimbStep
<1>6. leaf[1] = "leaf"
  BY DEF newLeafValue
<1> HIDE DEF climbed, leaf
<1>7. Prefix(key, n) \in Seq(Bits)
  BY Prefixes
<1>8. PICK k \in DOMAIN tree : leaf = newLeafValue(k, tree[k])
  BY <1>4, <1>5, <1>6, <1>7, NodeKinds
<1>9. key = k /\ val = tree[k]
  BY <1>8 DEF leaf, newLeafValue
<1> QED
  BY <1>9 DEF HasEntry

-----------------------------------------------------------------------------
(***************************************************************************)
(* A tree's proof of its entries.                                          *)
(***************************************************************************)
LEMMA DepthIsFirst ==
    ASSUME NEW tree, KeysFit(tree), NEW k, KeyFits(tree, k)
    PROVE  /\ Depth(tree, k) \in 0 .. Len(k)
           /\ AtMostOne(Under(tree, Prefix(k, Depth(tree, k))))
           /\ \A n \in 0 .. Depth(tree, k) - 1 : ~AtMostOne(Under(tree, Prefix(k, n)))
<1> DEFINE Alone(n) == AtMostOne(Under(tree, Prefix(k, n)))
           S == {n \in 0 .. Len(k) : Alone(n)}
<1>1. k \in Seq(Bits) /\ Len(k) \in Nat /\ \A j \in DOMAIN tree : Len(j) <= Len(k)
  BY DEF KeyFits
<1>2. \A n \in 0 .. Len(k) : Len(Prefix(k, n)) = n /\ Prefix(k, n) \in Seq(Bits)
  BY <1>1, Prefixes
<1>4. Len(k) \in S
  BY <1>1, <1>2, FullPaths
<1>5. PICK d \in S : \A n \in S : d <= n
  <2>1. S \in SUBSET Nat
    BY <1>1
  <2> HIDE DEF S
  <2> QED
    BY <1>4, <2>1, FirstOf
<1>6. Depth(tree, k) \in S /\ \A n \in S : Depth(tree, k) <= n
  BY <1>5 DEF Depth, Min
<1>7. \A n \in 0 .. Depth(tree, k) - 1 : ~Alone(n)
  BY <1>6
<1> QED
  BY <1>6, <1>7

\* The path of an entry's key ends there.
LEMMA DepthOfEntry ==
    ASSUME NEW tree, KeysFit(tree), NEW k \in DOMAIN tree
    PROVE  /\ KeyFits(tree, k)
           /\ \A n \in 0 .. Len(k) : k \in Under(tree, Prefix(k, n))
           /\ Depth(tree, k) \in 0 .. Len(k)
           /\ Under(tree, Prefix(k, Depth(tree, k))) = {k}
<1>1. KeyFits(tree, k)
  BY DEF KeysFit, KeyFits
<1>2. \A n \in 0 .. Len(k) : k \in Under(tree, Prefix(k, n))
  <2> TAKE n \in 0 .. Len(k)
  <2>1. Len(Prefix(k, n)) = n
    BY <1>1, Prefixes DEF KeyFits
  <2> QED
    BY <2>1 DEF Under
<1>3. Depth(tree, k) \in 0 .. Len(k) /\ AtMostOne(Under(tree, Prefix(k, Depth(tree, k))))
  BY <1>1, DepthIsFirst
<1> QED
  BY <1>1, <1>2, <1>3 DEF AtMostOne

\* The last sibling is a key that shares all but the last bit of the path.
LEMMA LastSibling ==
    ASSUME NEW tree, KeysFit(tree), NEW k, KeyFits(tree, k), Depth(tree, k) > 0
    PROVE  Sibling(tree, k, Depth(tree, k)) # Empty
<1> DEFINE n == Depth(tree, k)
           p == Prefix(k, n - 1)
<1>1. /\ n \in 1 .. Len(k) /\ AtMostOne(Under(tree, Prefix(k, n))) /\ ~AtMostOne(Under(tree, p))
      /\ k \in Seq(Bits)
  BY DepthIsFirst DEF KeyFits
<1> HIDE DEF n
<1>2. PICK j \in Under(tree, p) : j \notin Under(tree, Prefix(k, n))
  BY <1>1 DEF AtMostOne
<1>3. j \in DOMAIN tree /\ j \in Seq(Bits) /\ Len(j) = Len(k) /\ j \notin Under(tree, Prefix(k, n))
  BY <1>1, <1>2 DEF Under, KeysFit, KeyFits
<1>4. /\ Len(Prefix(k, n)) = n /\ Len(p) = n - 1 /\ n \in 1 .. Len(j)
  <2>1. n \in 0 .. Len(k) /\ n - 1 \in 0 .. Len(k) /\ n \in 1 .. Len(j)
    BY <1>1, <1>3
  <2> QED
    BY <1>1, <2>1, Prefixes
<1>5. Prefix(j, n - 1) = p /\ Prefix(j, n) # Prefix(k, n)
  BY <1>2, <1>3, <1>4 DEF Under
<1>6. /\ Append(p, k[n]) = Prefix(k, n) /\ Append(p, j[n]) = Prefix(j, n)
      /\ k[n] \in Bits /\ j[n] \in Bits
      /\ Append(p, 1 - k[n]) \in Seq(Bits) /\ Len(Append(p, 1 - k[n])) = n
  BY <1>1, <1>3, <1>4, <1>5, LongerPrefix
<1>7. j[n] = 1 - k[n]
  <2>1. j[n] # k[n]
    BY <1>5, <1>6
  <2>2. \A x, y \in Bits : x # y => x = 1 - y
    BY DEF Bits
  <2> QED
    BY <1>6, <2>1, <2>2
<1>8. j \in Under(tree, Append(p, 1 - k[n]))
  BY <1>3, <1>6, <1>7 DEF Under
<1>9. Nodes(tree)[Append(p, 1 - k[n])] # Empty
  BY <1>6, <1>8, NodeKinds
<1> QED
  BY <1>9 DEF Sibling, n, p

\* The siblings of a key lead from its leaf to the root.
LEMMA EntriesLead ==
    ASSUME NEW tree, KeysFit(tree), NEW k \in DOMAIN tree, NEW siblings,
           siblings = [i \in 1 .. Depth(tree, k) |-> Sibling(tree, k, i)]
    PROVE  Climbed(newLeafValue(k, tree[k]), siblings, getPath(Len(siblings), k))[1] = Root(tree)
<1> DEFINE n == Depth(tree, k)
           leaf == newLeafValue(k, tree[k])
           path == getPath(n, k)
           climbed == Climbed(leaf, siblings, path)
           Same(i) == climbed[i] = Nodes(tree)[Prefix(k, i - 1)]
<1>1. /\ n \in 0 .. Len(k) /\ Under(tree, Prefix(k, n)) = {k} /\ k \in Seq(Bits)
      /\ \A i \in 0 .. n - 1 : ~AtMostOne(Under(tree, Prefix(k, i)))
      /\ \A i \in 0 .. Len(k) : k \in Under(tree, Prefix(k, i))
      /\ Len(k) \in Nat
  BY DepthIsFirst, DepthOfEntry DEF KeysFit
<1>2. Len(siblings) = n
  BY <1>1
<1>3. ASSUME NEW i \in 1 .. n + 1
      PROVE  climbed[i] = ClimbStep(leaf, siblings, path, climbed, i)
  BY <1>1, <1>2, Climbing
<1>4. ASSUME NEW i \in 1 .. n PROVE path[i] = k[i] /\ siblings[i] = Sibling(tree, k, i)
  BY <1>1, PathOfKey
<1> HIDE DEF n, climbed, path
<1>5. Same(n + 1)
  <2>1. climbed[n + 1] = leaf
    <3>1. n + 1 \in 1 .. n + 1 /\ n + 1 > n
      BY <1>1
    <3>2. climbed[n + 1] = ClimbStep(leaf, siblings, path, climbed, n + 1)
      BY <1>3, <3>1
    <3> QED
      BY <1>2, <3>1, <3>2 DEF ClimbStep
  <2>2. Prefix(k, n) \in Seq(Bits)
    BY <1>1, Prefixes
  <2>3. Nodes(tree)[Prefix(k, n)] = NodeOf(tree, Nodes(tree), Prefix(k, n))
    BY <2>2, NodeAtPath
  <2>4. NodeOf(tree, Nodes(tree), Prefix(k, n)) = leaf
    <3>1. (CHOOSE j \in {k} : TRUE) = k
      OBVIOUS
    <3> QED
      BY <1>1, <3>1 DEF NodeOf, AtMostOne
  <2>5. (n + 1) - 1 = n
    BY <1>1
  <2> QED
    BY <2>1, <2>3, <2>4, <2>5
<1>6. ASSUME NEW i \in 1 .. n, Same(i + 1) PROVE Same(i)
  <2> DEFINE p == Prefix(k, i - 1)
  <2>1. /\ climbed[i] = IF k[i] = 1 THEN newIntermediate(Sibling(tree, k, i), climbed[i + 1])
                        ELSE newIntermediate(climbed[i + 1], Sibling(tree, k, i))
    <3>1. i \in 1 .. n + 1 /\ ~(i > n)
      BY <1>1
    <3> QED
      BY <1>2, <1>3, <1>4, <3>1 DEF ClimbStep
  <2>2. Nodes(tree)[p] = newIntermediate(Nodes(tree)[Append(p, 0)], Nodes(tree)[Append(p, 1)])
    <3>1. i - 1 \in 0 .. n - 1 /\ i - 1 \in 0 .. Len(k)
      BY <1>1
    <3>2. p \in Seq(Bits) /\ Under(tree, p) # {} /\ ~AtMostOne(Under(tree, p))
      BY <1>1, <3>1, Prefixes
    <3>3. Nodes(tree)[p] = NodeOf(tree, Nodes(tree), p)
      BY <3>2, NodeAtPath
    <3> QED
      BY <3>2, <3>3 DEF NodeOf
  <2>3. Append(p, k[i]) = Prefix(k, i) /\ k[i] \in Bits
    BY <1>1, LongerPrefix
  <2>4. climbed[i + 1] = Nodes(tree)[Append(p, k[i])]
    <3>1. (i + 1) - 1 = i
      OBVIOUS
    <3> QED
      BY <1>6, <2>3, <3>1
  <2>5. Sibling(tree, k, i) = Nodes(tree)[Append(p, 1 - k[i])]
    BY DEF Sibling
  <2>6. CASE k[i] = 1
    BY <2>1, <2>2, <2>4, <2>5, <2>6
  <2>7. CASE k[i] = 0
    BY <2>1, <2>2, <2>4, <2>5, <2>7
  <2> QED
    BY <2>3, <2>6, <2>7 DEF Bits
<1>7. Same(1)
  <2> DEFINE S == {m \in 0 .. n : Same(n + 1 - m)}
  <2> HIDE DEF Same
  <2>1. n \in Nat /\ 0 \in S
    BY <1>1, <1>5
  <2>2. ASSUME NEW m \in 0 .. n - 1, m \in S PROVE m + 1 \in S
    <3>1. n - m \in 1 .. n /\ n + 1 - m = (n - m) + 1 /\ n + 1 - (m + 1) = n - m
      BY <2>1
    <3>2. Same(n - m)
      BY <1>6, <2>2, <3>1
    <3> QED
      BY <2>1, <3>1, <3>2
  <2>3. n \in S
    <3>1. 0 .. n \subseteq S
      <4> HIDE DEF S
      <4> QED
        BY <2>1, <2>2, CountingUpTo
    <3> QED
      BY <2>1, <3>1
  <2>4. n + 1 - n = 1
    BY <2>1
  <2> QED
    BY <2>3, <2>4
<1>8. Prefix(k, 1 - 1) = <<>>
  BY <1>1, Prefixes
<1> QED
  BY <1>2, <1>7, <1>8 DEF Root, climbed, path, n

-----------------------------------------------------------------------------
(***************************************************************************)
(* Packing the siblings and unpacking them.                                *)
(***************************************************************************)
LEMMA UsedCounts ==
    ASSUME NEW bitmap, NEW i \in Nat
    PROVE  /\ IsFiniteSet({j \in 1 .. i : bitmap[j]})
           /\ Used(bitmap, i) \in Nat /\ Used(bitmap, i) <= i
<1>1. IsFiniteSet(1 .. i) /\ Cardinality(1 .. i) = i
  <2>1. IsFiniteSet(1 .. i) /\ Cardinality(1 .. i) = IF 1 > i THEN 0 ELSE i - 1 + 1
    BY FS_Interval
  <2> QED
    BY <2>1
<1>2. {j \in 1 .. i : bitmap[j]} \subseteq 1 .. i
  OBVIOUS
<1>3. /\ IsFiniteSet({j \in 1 .. i : bitmap[j]})
      /\ Cardinality({j \in 1 .. i : bitmap[j]}) <= Cardinality(1 .. i)
  BY <1>1, <1>2, FS_Subset
<1>4. Cardinality({j \in 1 .. i : bitmap[j]}) \in Nat
  BY <1>3, FS_CardinalityType
<1> QED
  BY <1>1, <1>3, <1>4 DEF Used

\* A bitmap counts up, and goes on at each bit that is set.
LEMMA UsedGrows ==
    ASSUME NEW bitmap, NEW i \in Nat, NEW j \in Nat, i < j
    PROVE  Used(bitmap, i) <= Used(bitmap, j) /\ (bitmap[j] => Used(bitmap, i) < Used(bitmap, j))
<1> DEFINE S(n) == {l \in 1 .. n : bitmap[l]}
<1>1. IsFiniteSet(S(i)) /\ IsFiniteSet(S(j)) /\ Used(bitmap, i) \in Nat /\ Used(bitmap, j) \in Nat
  BY UsedCounts
<1>2. S(i) \subseteq S(j)
  OBVIOUS
<1>3. Cardinality(S(i)) <= Cardinality(S(j))
  BY <1>1, <1>2, FS_Subset
<1>4. ASSUME bitmap[j] PROVE Cardinality(S(i)) < Cardinality(S(j))
  <2>1. j \in S(j) /\ j \notin S(i)
    BY <1>4
  <2>2. Cardinality(S(i)) # Cardinality(S(j))
    <3>1. S(i) # S(j)
      BY <2>1
    <3> HIDE DEF S
    <3> QED
      BY <1>1, <1>2, <3>1, FS_Subset
  <2>3. Cardinality(S(i)) \in Nat /\ Cardinality(S(j)) \in Nat
    BY <1>1 DEF Used
  <2> HIDE DEF S
  <2> QED
    BY <1>3, <2>2, <2>3
<1> QED
  BY <1>3, <1>4 DEF Used

\* Unpacking a proof restores the siblings of its key, the empty ones, too.
LEMMA Unpacked ==
    ASSUME NEW tree, KeysFit(tree), NEW k, KeyFits(tree, k)
    PROVE  UnpackSiblings(GenProof(tree, k)) = [i \in 1 .. Depth(tree, k) |-> Sibling(tree, k, i)]
<1> DEFINE d == Depth(tree, k)
           sibling(i) == Sibling(tree, k, i)
           full == {i \in 1 .. d : sibling(i) # Empty}
           size == 8 * ((d + 7) \div 8)
           bitmap == [i \in 1 .. size |-> i \in full]
           count == Cardinality(full)
           place(j) == CHOOSE i \in full : Used(bitmap, i) = j
           given == [j \in 1 .. count |-> sibling(place(j))]
           levels == {i \in 1 .. size : Used(bitmap, i - 1) < count}
<1>1. d \in Nat /\ (d > 0 => d \in full)
  <2>1. d \in 0 .. Len(k) /\ Len(k) \in Nat
    BY DepthIsFirst DEF KeyFits
  <2>2. d > 0 => sibling(d) # Empty
    BY LastSibling
  <2> QED
    BY <2>1, <2>2
<1>2. GenProof(tree, k) = [bitmap |-> bitmap, given |-> given]
  BY DEF GenProof
<1> HIDE DEF d, sibling
<1>3. size \in Nat /\ size >= d
  BY <1>1
<1> HIDE DEF size
<1>4. \A i \in 1 .. size : bitmap[i] <=> i \in full
  OBVIOUS
<1>5. \A i \in 1 .. size : i >= d => Used(bitmap, i) = count
  <2> TAKE i \in 1 .. size
  <2> HAVE i >= d
  <2>1. {j \in 1 .. i : bitmap[j]} = full
    <3> HIDE DEF bitmap
    <3> QED
      BY <1>1, <1>3, <1>4
  <2> QED
    BY <2>1 DEF Used
<1>6. Used(bitmap, 0) \in Nat /\ Used(bitmap, 0) <= 0
  BY UsedCounts
<1>7. count \in Nat /\ (d = 0 => count = 0)
  <2>1. full = {j \in 1 .. d : [l \in 1 .. d |-> sibling(l) # Empty][j]}
    OBVIOUS
  <2>2. count \in Nat
    BY <1>1, <2>1, UsedCounts, FS_CardinalityType
  <2>3. d = 0 => full = {}
    OBVIOUS
  <2> QED
    BY <2>2, <2>3, FS_EmptySet
<1> HIDE DEF bitmap, full, count
<1>8. levels = 1 .. d
  <2>1. ASSUME NEW i \in 1 .. size, i <= d PROVE Used(bitmap, i - 1) < count
    <3>1. d \in 1 .. size /\ d \in full /\ bitmap[d] /\ i - 1 \in Nat /\ i - 1 < d
      BY <1>1, <1>3, <1>4, <2>1
    <3>2. Used(bitmap, i - 1) < Used(bitmap, d)
      BY <1>1, <3>1, UsedGrows
    <3> QED
      BY <1>5, <3>1, <3>2
  <2>2. ASSUME NEW i \in 1 .. size, i > d PROVE ~(Used(bitmap, i - 1) < count)
    <3>1. CASE i - 1 = 0
      <4>1. d = 0
        BY <1>1, <2>2, <3>1
      <4>2. Used(bitmap, 0) = 0
        BY <1>6
      <4> QED
        BY <1>7, <3>1, <4>1, <4>2
    <3>2. CASE i - 1 # 0
      <4>1. i - 1 \in 1 .. size /\ i - 1 >= d
        BY <1>1, <1>3, <2>2, <3>2
      <4> QED
        BY <1>5, <1>7, <4>1
    <3> QED
      BY <3>1, <3>2
  <2> QED
    BY <1>1, <1>3, <2>1, <2>2
<1>9. \A i \in 1 .. d : (bitmap[i] <=> i \in full) /\ i \in 1 .. size
  BY <1>1, <1>3, <1>4
<1>10. ASSUME NEW i \in full PROVE Used(bitmap, i) \in 1 .. count /\ place(Used(bitmap, i)) = i
  <2>1. \A j \in full : j \in 1 .. d
    BY DEF full
  <2>2. \A j \in full : j \in 1 .. size /\ j \in Nat /\ bitmap[j] /\ Used(bitmap, j) \in Nat
    <3> TAKE j \in full
    <3>1. j \in 1 .. d /\ j \in Nat
      BY <1>1, <2>1
    <3>2. j \in 1 .. size /\ bitmap[j]
      BY <1>9, <3>1
    <3> QED
      BY <3>1, <3>2, UsedCounts
  <2>3. \A j, l \in full : j < l => Used(bitmap, j) < Used(bitmap, l)
    BY <2>2, UsedGrows
  <2>4. \A j \in full : Used(bitmap, j) = Used(bitmap, i) => j = i
    BY <2>2, <2>3
  <2>5. Used(bitmap, i) > 0
    <3>1. Used(bitmap, 0) < Used(bitmap, i)
      BY <2>2, UsedGrows
    <3> QED
      BY <1>6, <2>2, <3>1
  <2>6. Used(bitmap, i) <= count
    <3>1. CASE i = d
      BY <1>1, <1>5, <1>7, <2>2, <3>1
    <3>2. CASE i # d
      <4>1. i < d /\ d \in 1 .. size
        BY <1>1, <1>9, <2>1, <3>2
      <4>2. Used(bitmap, i) <= Used(bitmap, d)
        BY <1>1, <2>2, <4>1, UsedGrows
      <4>3. Used(bitmap, d) = count
        BY <1>1, <1>5, <4>1
      <4> QED
        BY <4>2, <4>3
    <3> QED
      BY <3>1, <3>2
  <2> QED
    BY <1>7, <2>2, <2>4, <2>5, <2>6
<1>11. Len(given) = count
  BY <1>7
<1>12. DOMAIN bitmap = 1 .. size
  BY DEF bitmap
<1>13. Cardinality(levels) = d
  <2>1. Cardinality(1 .. d) = IF 1 > d THEN 0 ELSE d - 1 + 1
    BY <1>1, FS_Interval
  <2>2. Cardinality(1 .. d) = d
    BY <1>1, <2>1
  <2> HIDE DEF levels
  <2> QED
    BY <1>8, <2>2
<1>14. UnpackSiblings([bitmap |-> bitmap, given |-> given])
         = [i \in 1 .. d |-> IF bitmap[i] THEN given[Used(bitmap, i)] ELSE Empty]
  <2> DEFINE packed == [bitmap |-> bitmap, given |-> given]
  <2>1. packed.bitmap = bitmap /\ packed.given = given
    OBVIOUS
  <2> HIDE DEF packed, given
  <2>2. {i \in DOMAIN packed.bitmap : Used(packed.bitmap, i - 1) < Len(packed.given)} = levels
    BY <1>11, <1>12, <2>1
  <2> HIDE DEF levels
  <2>3. UnpackSiblings(packed)
          = [i \in 1 .. d |-> IF bitmap[i] THEN given[Used(bitmap, i)] ELSE Empty]
    BY <1>13, <2>1, <2>2 DEF UnpackSiblings
  <2> QED
    BY <2>3 DEF packed
<1>15. \A i \in 1 .. d : (IF bitmap[i] THEN given[Used(bitmap, i)] ELSE Empty) = sibling(i)
  <2> TAKE i \in 1 .. d
  <2>1. CASE i \in full
    <3>1. given[Used(bitmap, i)] = sibling(place(Used(bitmap, i)))
      BY <1>10, <2>1
    <3>2. place(Used(bitmap, i)) = i /\ bitmap[i]
      BY <1>9, <1>10, <2>1
    <3> HIDE DEF place, given
    <3> QED
      BY <3>1, <3>2
  <2>2. CASE i \notin full
    BY <1>9, <2>2 DEF full
  <2> QED
    BY <2>1, <2>2
<1>16. UnpackSiblings(GenProof(tree, k)) = [i \in 1 .. d |-> sibling(i)]
  <2> HIDE DEF given
  <2> QED
    BY <1>2, <1>14, <1>15
<1> QED
  BY <1>16 DEF d, sibling

\* The leaf at the end of a key's path has the key's path.
LEMMA SamePath ==
    ASSUME NEW tree, KeysFit(tree), NEW k, KeyFits(tree, k),
           NEW j \in Under(tree, Prefix(k, Depth(tree, k)))
    PROVE  /\ j \in DOMAIN tree /\ Depth(tree, j) = Depth(tree, k)
           /\ \A i \in 1 .. Depth(tree, k) : Sibling(tree, j, i) = Sibling(tree, k, i)
<1> DEFINE n == Depth(tree, k)
           m == Depth(tree, j)
<1>1. /\ n \in 0 .. Len(k) /\ AtMostOne(Under(tree, Prefix(k, n)))
      /\ \A i \in 0 .. n - 1 : ~AtMostOne(Under(tree, Prefix(k, i)))
  BY DepthIsFirst
<1>2. /\ j \in DOMAIN tree /\ KeyFits(tree, j) /\ j \in Seq(Bits) /\ k \in Seq(Bits) /\ Len(j) = Len(k)
  BY DEF Under, KeysFit, KeyFits
<1>3. /\ m \in 0 .. Len(j) /\ AtMostOne(Under(tree, Prefix(j, m)))
      /\ \A i \in 0 .. m - 1 : ~AtMostOne(Under(tree, Prefix(j, i)))
  BY <1>2, DepthIsFirst
<1>4. Prefix(j, n) = Prefix(k, n)
  <2>1. Len(Prefix(k, n)) = n
    BY <1>1, <1>2, Prefixes
  <2> QED
    BY <2>1 DEF Under
<1> HIDE DEF n, m
<1>5. \A i \in 1 .. n : j[i] = k[i]
  <2> TAKE i \in 1 .. n
  <2>1. Prefix(j, n)[i] = j[i] /\ Prefix(k, n)[i] = k[i]
    BY DEF Prefix
  <2> QED
    BY <1>4, <2>1
<1>6. \A i \in 0 .. n : Prefix(j, i) = Prefix(k, i)
  BY <1>1, <1>5 DEF Prefix
<1>7. m = n
  BY <1>1, <1>2, <1>3, <1>6
<1>8. \A i \in 1 .. n : Sibling(tree, j, i) = Sibling(tree, k, i)
  <2> TAKE i \in 1 .. n
  <2>1. Prefix(j, i - 1) = Prefix(k, i - 1) /\ j[i] = k[i]
    BY <1>1, <1>5, <1>6
  <2> QED
    BY <2>1 DEF Sibling
<1> QED
  BY <1>2, <1>7, <1>8 DEF n, m

\* A proof that a tree makes for a key checks, for the leaf at the end of its path.
LEMMA OwnProofsCheck ==
    ASSUME NEW tree, KeysFit(tree), NEW k, KeyFits(tree, k), NEW leaf \in LeavesAt(tree, k)
    PROVE  CheckProofPrint(leaf[1], leaf[2], Root(tree), GenProof(tree, k))
<1> DEFINE siblings == UnpackSiblings(GenProof(tree, k))
<1>1. PICK j \in Under(tree, Prefix(k, Depth(tree, k))) : leaf = <<j, tree[j]>>
  BY DEF LeavesAt
<1>2. siblings = [i \in 1 .. Depth(tree, k) |-> Sibling(tree, k, i)]
  BY Unpacked
<1>3. siblings = [i \in 1 .. Depth(tree, j) |-> Sibling(tree, j, i)] /\ j \in DOMAIN tree
  BY <1>2, SamePath
<1> HIDE DEF siblings
<1>4. Climbed(newLeafValue(j, tree[j]), siblings, getPath(Len(siblings), j))[1] = Root(tree)
  BY <1>3, EntriesLead
<1> QED
  BY <1>1, <1>4 DEF CheckProofPrint, siblings

\* The path of an entry's key ends at its own leaf.
LEMMA OwnLeaf ==
    ASSUME NEW tree, KeysFit(tree), NEW k \in DOMAIN tree
    PROVE  LeavesAt(tree, k) = {<<k, tree[k]>>}
BY DepthOfEntry DEF LeavesAt

\* A proof that checks against the root of a tree, whatever tree has made it, is of
\* an entry of that tree.
LEMMA NoOtherProofsCheck ==
    ASSUME NEW tree, KeysFit(tree), NEW made, KeysFit(made), NEW k, KeyFits(made, k),
           NEW key \in Seq(Bits), Len(key) = Len(k), NEW val,
           CheckProofPrint(key, val, Root(tree), GenProof(made, k))
    PROVE  HasEntry(tree, key, val)
<1> DEFINE siblings == UnpackSiblings(GenProof(made, k))
<1>1. siblings = [i \in 1 .. Depth(made, k) |-> Sibling(made, k, i)]
  BY Unpacked
<1>2. Depth(made, k) \in 0 .. Len(key)
  BY DepthIsFirst
<1>3. Climbed(newLeafValue(key, val), siblings, getPath(Len(siblings), key))[1] = Root(tree)
  BY DEF CheckProofPrint
<1> HIDE DEF siblings
<1>4. Len(siblings) \in 0 .. Len(key)
  BY <1>1, <1>2
<1> QED
  BY <1>3, <1>4, OnlyEntriesLead

-----------------------------------------------------------------------------
(***************************************************************************)
(* The trees of the store.                                                 *)
(***************************************************************************)
LEMMA TreesFit == ASSUME NEW t, Tree(t) PROVE KeysFit(t)
BY KeysAssumption DEF Tree, IsMap, KeysFit

\* The tree of block hashes has the root of each height under the key of the height.
LEMMA BlockHashesFit ==
    ASSUME TxStoreTypeOK
    PROVE  /\ KeysFit(BlockHashes)
           /\ \A h \in DOMAIN blockHashTree :
                /\ HeightBits[h] \in DOMAIN BlockHashes
                /\ BlockHashes[HeightBits[h]] = Root(blockHashTree[h])
<1> DEFINE keys == {HeightBits[h] : h \in DOMAIN blockHashTree}
           filed(b) == CHOOSE h \in DOMAIN blockHashTree : HeightBits[h] = b
<1>1. DOMAIN blockHashTree \subseteq 1 .. MaxHeight
  BY DEF TxStoreTypeOK
<1>2. keys \subseteq Seq(Bits) /\ \A j, k \in keys : Len(j) = Len(k)
  BY <1>1, HeightBitsAssumption
<1>3. \A h \in DOMAIN blockHashTree : filed(HeightBits[h]) = h
  BY <1>1, HeightBitsAssumption
<1>4. BlockHashes = [b \in keys |-> Root(blockHashTree[filed(b)])]
  BY DEF BlockHashes
<1>5. KeysFit(BlockHashes)
  BY <1>2, <1>4 DEF KeysFit
<1>6. ASSUME NEW h \in DOMAIN blockHashTree
      PROVE  HeightBits[h] \in keys /\ BlockHashes[HeightBits[h]] = Root(blockHashTree[h])
  <2>1. HeightBits[h] \in keys
    OBVIOUS
  <2>2. BlockHashes[HeightBits[h]] = Root(blockHashTree[filed(HeightBits[h])])
    BY <1>4, <2>1
  <2> QED
    BY <1>3, <2>1, <2>2
<1> QED
  BY <1>4, <1>5, <1>6

LEMMA StoreConvinces == TxStoreInv => AnswersConvince
<1> SUFFICES ASSUME TxStoreInv, blockHeight \in DOMAIN blockHashTree, NEW key \in TxKeys
             PROVE  LET a == Answer(key) IN
                    /\ key \in DOMAIN txStorageTree => a.tx.leaves = {<<key, txStorageTree[key]>>}
                    /\ \A proof \in {a.tx, a.block} : \A leaf \in proof.leaves :
                         CheckProofPrint(leaf[1], leaf[2], proof.root, proof.siblings)
                    /\ a.tx.leaves # {} => a.block.leaves = {<<HeightBits[blockHeight], a.tx.root>>}
  BY DEF AnswersConvince
<1> DEFINE tree == txStorageTree
           last == HeightBits[blockHeight]
           tx == Answer(key).tx
           block == Answer(key).block
<1>1. TxStoreTypeOK
  BY DEF TxStoreInv
<1>2. KeysFit(tree) /\ KeyFits(tree, key)
  BY <1>1, TreesFit, KeysAssumption DEF TxStoreTypeOK, KeyFits, Tree, IsMap
<1>3. /\ KeysFit(BlockHashes) /\ last \in DOMAIN BlockHashes /\ KeyFits(BlockHashes, last)
      /\ BlockHashes[last] = Root(blockHashTree[blockHeight])
  <2>1. KeysFit(BlockHashes) /\ last \in DOMAIN BlockHashes
        /\ BlockHashes[last] = Root(blockHashTree[blockHeight])
    BY <1>1, BlockHashesFit
  <2> QED
    BY <2>1 DEF KeysFit, KeyFits
<1>4. /\ tx.leaves = LeavesAt(tree, key) /\ tx.root = Root(tree)
      /\ tx.siblings = GenProof(tree, key)
      /\ block.leaves = LeavesAt(BlockHashes, last) /\ block.root = Root(BlockHashes)
      /\ block.siblings = GenProof(BlockHashes, last)
  BY DEF Answer, Proof, ProvingTree
<1> HIDE DEF last, tx, block
<1>5. key \in DOMAIN tree => tx.leaves = {<<key, tree[key]>>}
  BY <1>2, <1>4, OwnLeaf
<1>6. \A leaf \in tx.leaves : CheckProofPrint(leaf[1], leaf[2], tx.root, tx.siblings)
  BY <1>2, <1>4, OwnProofsCheck
<1>7. \A leaf \in block.leaves : CheckProofPrint(leaf[1], leaf[2], block.root, block.siblings)
  BY <1>3, <1>4, OwnProofsCheck
<1>8. tx.leaves # {} => block.leaves = {<<last, tx.root>>}
  <2> HAVE tx.leaves # {}
  <2>1. DOMAIN tree # {} /\ tree # EmptyMap
    BY <1>4 DEF LeavesAt, Under, EmptyMap
  <2>2. tree = blockHashTree[blockHeight]
    BY <2>1, FrontRootFits DEF FrontProofsVerify, ProvingTree, ProvenRoot
  <2> QED
    BY <1>3, <1>4, <2>2, OwnLeaf
<1> QED
  BY <1>5, <1>6, <1>7, <1>8 DEF tx, block, last

\* After every commit the answer to a Query for any key - a transaction of the
\* front tree by its own leaf, another key by the leaf at the end of its path -
\* passes both checks, and they meet in one root: for trees of any size and keys
\* of any length, whichever siblings are empty and left out of the proof.
THEOREM Convincing == TxStoreSpec => []AnswersConvince
BY StoreConvinces, TxStoreInvariance, PTL

LEMMA StoreConvincesOfNoOther == TxStoreInv => NothingElseConvinces
<1> DEFINE trees == {blockHashTree[h] : h \in DOMAIN blockHashTree}
<1> SUFFICES ASSUME TxStoreInv, NEW tree \in trees, NEW made \in trees, NEW k \in TxKeys,
                    NEW key \in TxKeys, NEW val \in TxHashes,
                    CheckProofPrint(key, val, Root(tree), GenProof(made, k))
             PROVE  HasEntry(tree, key, val)
  BY DEF NothingElseConvinces
<1>1. \A t \in trees : Tree(t)
  BY DEF TxStoreInv, TxStoreTypeOK
<1> HIDE DEF trees
<1>2. KeysFit(tree) /\ KeysFit(made) /\ KeyFits(made, k)
  BY <1>1, TreesFit, KeysAssumption DEF KeyFits, Tree, IsMap
<1>3. key \in Seq(Bits) /\ Len(key) = Len(k)
  BY KeysAssumption
<1> QED
  BY <1>2, <1>3, NoOtherProofsCheck

\* Whatever the client is told, a proof one of the trees has made leads it to the
\* root of a tree for entries of that tree only: no proof of one transaction, key
\* or block passes for another.
THEOREM NoOtherConvincing == TxStoreSpec => []NothingElseConvinces
BY StoreConvincesOfNoOther, TxStoreInvariance, PTL

-----------------------------------------------------------------------------
(***************************************************************************)
(* The sponge.  Chained hashes first: what FrameHashes has.                *)
(***************************************************************************)
Input(inputs, i) == IF i <= Len(inputs) THEN inputs[i] ELSE Zero

HashStep(inputs, frameSize, hash, n) ==
    Compress([j \in 1 .. frameSize |->
                IF n > 1 /\ j = 1 THEN hash[n - 1]
                ELSE Input(inputs, (n - 1) * (frameSize - 1) + j)])

LEMMA HashesExist ==
    ASSUME NEW inputs, Len(inputs) \in Nat, NEW frameSize
    PROVE  \E hash : hash = [n \in 1 .. Len(inputs) |-> HashStep(inputs, frameSize, hash, n)]
<1> DEFINE Step(hash, n) == HashStep(inputs, frameSize, hash, n)
           P(n) == \E hash : hash = [i \in 1 .. n |-> Step(hash, i)]
           Good == {n \in Nat : P(n)}
<1>1. P(0)
  <2> DEFINE hash == [i \in 1 .. 0 |-> Step(<<>>, i)]
  <2>1. hash = [i \in 1 .. 0 |-> Step(hash, i)]
    OBVIOUS
  <2> QED
    BY <2>1
<1>2. ASSUME NEW n \in Nat, P(n) PROVE P(n + 1)
  <2>1. PICK g : g = [i \in 1 .. n |-> Step(g, i)]
    BY <1>2
  <2> DEFINE hash == [i \in 1 .. n + 1 |-> Step(g, i)]
  <2>2. \A i \in 1 .. n : hash[i] = g[i]
    <3> TAKE i \in 1 .. n
    <3>1. g[i] = Step(g, i)
      BY <2>1
    <3> QED
      BY <3>1
  <2>3. \A i \in 1 .. n + 1 : Step(g, i) = Step(hash, i)
    <3> TAKE i \in 1 .. n + 1
    <3>1. i > 1 => hash[i - 1] = g[i - 1]
      BY <2>2
    <3> HIDE DEF hash
    <3> QED
      BY <3>1 DEF HashStep
  <2>4. hash = [i \in 1 .. n + 1 |-> Step(hash, i)]
    BY <2>3
  <2> HIDE DEF hash
  <2> QED
    BY <2>4
<1> HIDE DEF P
<1>3. Nat \subseteq Good
  <2>1. 0 \in Good /\ \A n \in Nat : n \in Good => n + 1 \in Good
    BY <1>1, <1>2
  <2> HIDE DEF Good
  <2> QED
    BY <2>1, CountingUp
<1> QED
  BY <1>3 DEF P

LEMMA Hashing ==
    ASSUME NEW inputs, Len(inputs) \in Nat, NEW frameSize, NEW n \in 1 .. Len(inputs)
    PROVE  FrameHashes(inputs, frameSize)[n]
             = HashStep(inputs, frameSize, FrameHashes(inputs, frameSize), n)
<1> DEFINE Is(hash) == hash = [i \in 1 .. Len(inputs) |-> HashStep(inputs, frameSize, hash, i)]
<1>1. \E hash : Is(hash)
  BY HashesExist
<1>2. FrameHashes(inputs, frameSize) = CHOOSE hash : Is(hash)
  BY DEF FrameHashes, HashStep, Input
<1>3. Is(FrameHashes(inputs, frameSize))
  BY <1>1, <1>2
<1> QED
  BY <1>3

-----------------------------------------------------------------------------
(***************************************************************************)
(* The rounds of the loop, and the state each leaves.                      *)
(***************************************************************************)
Round(inputs, frameSize, absorbed, n) ==
    IF n = 0 THEN Start(frameSize) ELSE Absorb(absorbed[n - 1], inputs[n], frameSize)

Rounds(inputs, frameSize) ==
    CHOOSE absorbed :
        absorbed = [n \in 0 .. Len(inputs) |-> Round(inputs, frameSize, absorbed, n)]

LEMMA RoundsExist ==
    ASSUME NEW inputs, Len(inputs) \in Nat, NEW frameSize
    PROVE  \E a : a = [n \in 0 .. Len(inputs) |-> Round(inputs, frameSize, a, n)]
<1> DEFINE Step(a, n) == Round(inputs, frameSize, a, n)
           P(n) == \E a : a = [i \in 0 .. n |-> Step(a, i)]
           Good == {n \in Nat : P(n)}
<1>1. P(0)
  <2> DEFINE a == [i \in 0 .. 0 |-> Step(<<>>, i)]
  <2>1. \A i \in 0 .. 0 : Step(<<>>, i) = Step(a, i)
    BY DEF Round
  <2>2. a = [i \in 0 .. 0 |-> Step(a, i)]
    BY <2>1
  <2> QED
    BY <2>2
<1>2. ASSUME NEW n \in Nat, P(n) PROVE P(n + 1)
  <2>1. PICK g : g = [i \in 0 .. n |-> Step(g, i)]
    BY <1>2
  <2> DEFINE a == [i \in 0 .. n + 1 |-> Step(g, i)]
  <2>2. \A i \in 0 .. n : a[i] = g[i]
    <3> TAKE i \in 0 .. n
    <3>1. g[i] = Step(g, i)
      BY <2>1
    <3> QED
      BY <3>1
  <2>3. \A i \in 0 .. n + 1 : Step(g, i) = Step(a, i)
    <3> TAKE i \in 0 .. n + 1
    <3> HIDE DEF a
    <3>1. i # 0 => a[i - 1] = g[i - 1]
      <4>1. i # 0 => i - 1 \in 0 .. n
        OBVIOUS
      <4> QED
        BY <2>2, <4>1
    <3> QED
      BY <3>1 DEF Round
  <2>4. a = [i \in 0 .. n + 1 |-> Step(a, i)]
    BY <2>3
  <2> HIDE DEF a
  <2> QED
    BY <2>4
<1> HIDE DEF P
<1>3. Nat \subseteq Good
  <2>1. 0 \in Good /\ \A n \in Nat : n \in Good => n + 1 \in Good
    BY <1>1, <1>2
  <2> HIDE DEF Good
  <2> QED
    BY <2>1, CountingUp
<1> QED
  BY <1>3 DEF P

LEMMA Rounding ==
    ASSUME NEW inputs, Len(inputs) \in Nat, NEW frameSize, NEW n \in 0 .. Len(inputs)
    PROVE  /\ Rounds(inputs, frameSize)[n]
                = Round(inputs, frameSize, Rounds(inputs, frameSize), n)
           /\ Absorbed(inputs, frameSize) = Rounds(inputs, frameSize)[Len(inputs)]
<1> DEFINE Is(a) == a = [i \in 0 .. Len(inputs) |-> Round(inputs, frameSize, a, i)]
<1>1. \E a : Is(a)
  BY RoundsExist
<1>2. Rounds(inputs, frameSize) = CHOOSE a : Is(a)
  BY DEF Rounds
<1>3. Is(Rounds(inputs, frameSize))
  BY <1>1, <1>2
<1>4. Absorbed(inputs, frameSize) = Rounds(inputs, frameSize)[Len(inputs)]
  BY DEF Absorbed, Rounds, Round
<1> QED
  BY <1>3, <1>4

Fields == {"frame", "k", "dirty", "hash"}

LEMMA Putting ==
    ASSUME NEW s, DOMAIN s = Fields, NEW x
    PROVE  /\ DOMAIN Put(s, x) = Fields
           /\ Put(s, x).frame = [s.frame EXCEPT ![s.k + 1] = x]
           /\ Put(s, x).k = s.k /\ Put(s, x).dirty = TRUE /\ Put(s, x).hash = s.hash
<1>1. DOMAIN Put(s, x) = Fields
  BY DEF Put, Fields
<1>2. Put(s, x).frame = [s.frame EXCEPT ![s.k + 1] = x]
  BY DEF Put, Fields
<1>3. Put(s, x).k = s.k
  BY DEF Put, Fields
<1>4. Put(s, x).dirty = TRUE
  BY DEF Put, Fields
<1>5. Put(s, x).hash = s.hash
  BY DEF Put, Fields
<1> QED
  BY <1>1, <1>2, <1>3, <1>4, <1>5

LEMMA Absorbing ==
    ASSUME NEW s, DOMAIN s = Fields, NEW x, NEW frameSize
    PROVE  LET new  == Absorb(s, x, frameSize)
               full == Put(s, x).frame
           IN  /\ DOMAIN new = Fields
               /\ s.k < frameSize - 1 =>
                    /\ new.frame = full /\ new.k = s.k + 1
                    /\ new.dirty = TRUE /\ new.hash = s.hash
               /\ ~(s.k < frameSize - 1) =>
                    /\ new.frame = Frame(Compress(full), frameSize) /\ new.k = 1
                    /\ new.dirty = FALSE /\ new.hash = Compress(full)
<1> DEFINE p == Put(s, x)
           new == Absorb(s, x, frameSize)
<1>1. DOMAIN p = Fields /\ p.dirty = TRUE /\ p.hash = s.hash
  BY Putting
<1> HIDE DEF p
<1>2. CASE s.k < frameSize - 1
  <2>1. new = [p EXCEPT !.k = s.k + 1]
    BY <1>2 DEF Absorb, p
  <2>2. DOMAIN new = Fields
    BY <1>1, <2>1
  <2>3. new.frame = p.frame /\ new.hash = s.hash
    BY <1>1, <2>1 DEF Fields
  <2>4. new.k = s.k + 1
    BY <1>1, <2>1 DEF Fields
  <2>5. new.dirty = TRUE
    BY <1>1, <2>1 DEF Fields
  <2> QED
    BY <1>2, <2>2, <2>3, <2>4, <2>5 DEF p
<1>3. CASE ~(s.k < frameSize - 1)
  <2>1. new = [frame |-> Frame(Compress(p.frame), frameSize), k |-> 1, dirty |-> FALSE,
               hash |-> Compress(p.frame)]
    BY <1>3 DEF Absorb, p
  <2>2. DOMAIN new = Fields
    BY <2>1 DEF Fields
  <2>3. new.frame = Frame(Compress(p.frame), frameSize) /\ new.hash = Compress(p.frame)
    BY <2>1
  <2>4. new.k = 1
    BY <2>1
  <2>5. new.dirty = FALSE
    BY <2>1
  <2> QED
    BY <1>3, <2>2, <2>3, <2>4, <2>5 DEF p
<1> QED
  BY <1>2, <1>3 DEF p

\* After n rounds that have filled q frames: the place of each input since then.
Filled(inputs, frameSize, s, n, q) ==
    LET base == q * (frameSize - 1)
        hash == FrameHashes(inputs, frameSize)
    IN  /\ n - base \in 0 .. frameSize - 1
        /\ q > 0 => n - base >= 1
        /\ DOMAIN s = Fields
        /\ s.frame = [j \in 1 .. frameSize |->
                        IF q > 0 /\ j = 1 THEN hash[q]
                        ELSE IF j <= n - base THEN inputs[base + j] ELSE Zero]
        /\ s.k = n - base
        /\ s.dirty <=> (q = 0 /\ n >= 1) \/ n - base > 1
        /\ s.hash = IF q = 0 THEN NoHash ELSE hash[q]

LEMMA Bases ==
    ASSUME NEW q \in Nat, NEW frameSize \in 2 .. 16
    PROVE  /\ q * (frameSize - 1) \in Nat /\ q * (frameSize - 1) >= q
           /\ (q + 1) * (frameSize - 1) = q * (frameSize - 1) + (frameSize - 1)
OBVIOUS

LEMMA RoundFills ==
    ASSUME NEW inputs, Len(inputs) \in Nat, NEW frameSize \in 2 .. 16, NEW s,
           NEW n \in 0 .. Len(inputs) - 1, NEW q \in Nat, Filled(inputs, frameSize, s, n, q)
    PROVE  \E p \in Nat :
             Filled(inputs, frameSize, Absorb(s, inputs[n + 1], frameSize), n + 1, p)
<1> DEFINE base == q * (frameSize - 1)
           hash == FrameHashes(inputs, frameSize)
           x == inputs[n + 1]
           filled == [j \in 1 .. frameSize |->
                        IF q > 0 /\ j = 1 THEN hash[q]
                        ELSE IF j <= n + 1 - base THEN inputs[base + j] ELSE Zero]
           new == Absorb(s, x, frameSize)
<1>1. base \in Nat /\ base >= q
  BY Bases
<1>2. (q + 1) * (frameSize - 1) = base + (frameSize - 1)
  BY Bases
<1>3. n - base \in 0 .. frameSize - 1 /\ (q > 0 => n - base >= 1)
  BY DEF Filled
<1>4. /\ DOMAIN s = Fields
      /\ s.frame = [j \in 1 .. frameSize |->
                      IF q > 0 /\ j = 1 THEN hash[q]
                      ELSE IF j <= n - base THEN inputs[base + j] ELSE Zero]
      /\ s.k = n - base
      /\ s.hash = IF q = 0 THEN NoHash ELSE hash[q]
  BY DEF Filled
<1>5. SUFFICES \/ Filled(inputs, frameSize, new, n + 1, q)
               \/ Filled(inputs, frameSize, new, n + 1, q + 1)
  OBVIOUS
<1> HIDE DEF base, hash, x
<1>6. /\ DOMAIN new = Fields
      /\ s.k < frameSize - 1 =>
           /\ new.frame = Put(s, x).frame /\ new.k = s.k + 1
           /\ new.dirty = TRUE /\ new.hash = s.hash
      /\ ~(s.k < frameSize - 1) =>
           /\ new.frame = Frame(Compress(Put(s, x).frame), frameSize) /\ new.k = 1
           /\ new.dirty = FALSE /\ new.hash = Compress(Put(s, x).frame)
  BY <1>4, Absorbing
<1> HIDE DEF new
<1>7. Put(s, x).frame = filled
  <2>1. /\ Put(s, x).frame = [s.frame EXCEPT ![n - base + 1] = x]
        /\ n - base + 1 \in 1 .. frameSize
    <3>1. /\ DOMAIN Put(s, x) = Fields
          /\ Put(s, x).frame = [s.frame EXCEPT ![s.k + 1] = x]
          /\ Put(s, x).k = s.k /\ Put(s, x).dirty = TRUE /\ Put(s, x).hash = s.hash
      <4>1. DOMAIN s = Fields
        BY <1>4
      <4> QED
        BY <4>1, Putting
    <3>2. s.k = n - base
      BY <1>4
    <3>3. n - base + 1 \in 1 .. frameSize
      BY <1>1, <1>3
    <3> QED
      BY <3>1, <3>2, <3>3
  <2>2. /\ base + (n - base + 1) = n + 1
        /\ q > 0 => n - base + 1 # 1
        /\ n - base + 1 <= n + 1 - base
    BY <1>1, <1>3
  <2>3. filled[n - base + 1] = x
    BY <2>1, <2>2 DEF x
  <2>4. \A j \in 1 .. frameSize : j # n - base + 1 => filled[j] = s.frame[j]
    <3> TAKE j \in 1 .. frameSize
    <3> HAVE j # n - base + 1
    <3>1. j <= n + 1 - base <=> j <= n - base
      BY <1>1
    <3> QED
      BY <1>4, <3>1
  <2>5. DOMAIN s.frame = 1 .. frameSize
    BY <1>4
  <2> DEFINE old == s.frame
  <2>6. s.frame = [j \in 1 .. frameSize |-> old[j]]
    BY <1>4
  <2> HIDE DEF filled, old
  <2>7. filled = [j \in 1 .. frameSize |-> filled[j]]
    BY DEF filled
  <2> QED
    BY <2>1, <2>3, <2>4, <2>5, <2>6, <2>7 DEF old
<1>8. CASE n - base < frameSize - 1
  <2>1. new.frame = filled /\ new.k = s.k + 1 /\ new.dirty = TRUE /\ new.hash = s.hash
    <3>1. s.k < frameSize - 1
      BY <1>4, <1>8
    <3> HIDE DEF filled
    <3> QED
      BY <1>7, <1>6, <3>1
  <2>2. /\ s.k + 1 = n + 1 - base
        /\ n + 1 - base \in 0 .. frameSize - 1 /\ n + 1 - base >= 1
        /\ (q = 0 /\ n + 1 >= 1) \/ n + 1 - base > 1
    BY <1>1, <1>4, <1>8, <1>3
  <2>3. Filled(inputs, frameSize, new, n + 1, q)
    BY <1>4, <1>6, <2>1, <2>2 DEF Filled, base, hash
  <2> QED
    BY <2>3
<1>9. CASE ~(n - base < frameSize - 1)
  <2>1. /\ n - base = frameSize - 1 /\ n + 1 = base + frameSize
        /\ n + 1 \in Nat /\ q + 1 <= n + 1
    BY <1>1, <1>9, <1>3
  <2>2. q + 1 \in 1 .. Len(inputs) /\ (q + 1) - 1 = q
    BY <2>1
  <2>3. hash[q + 1] = HashStep(inputs, frameSize, hash, q + 1)
    BY <2>2, Hashing DEF hash
  <2>4. hash[q + 1] = Compress([j \in 1 .. frameSize |->
                                  IF q + 1 > 1 /\ j = 1 THEN hash[q]
                                  ELSE Input(inputs, base + j)])
    BY <2>2, <2>3 DEF HashStep, base
  <2>5. [j \in 1 .. frameSize |-> IF q + 1 > 1 /\ j = 1 THEN hash[q]
                                  ELSE Input(inputs, base + j)] = filled
    <3>1. \A j \in 1 .. frameSize : base + j <= Len(inputs) /\ j <= n + 1 - base
      BY <1>1, <2>1
    <3>2. q + 1 > 1 <=> q > 0
      OBVIOUS
    <3> QED
      BY <3>1, <3>2 DEF Input
  <2>6. /\ new.frame = Frame(hash[q + 1], frameSize) /\ new.k = 1
        /\ new.dirty = FALSE /\ new.hash = hash[q + 1]
    <3>1. ~(s.k < frameSize - 1)
      BY <1>4, <1>9
    <3> HIDE DEF filled
    <3> QED
      BY <1>7, <1>6, <2>4, <2>5, <3>1
  <2>7. n + 1 - (q + 1) * (frameSize - 1) = 1
    BY <1>2, <1>1, <2>1
  <2>8. Frame(hash[q + 1], frameSize)
          = [j \in 1 .. frameSize |->
               IF q + 1 > 0 /\ j = 1 THEN hash[q + 1]
               ELSE IF j <= 1 THEN inputs[(q + 1) * (frameSize - 1) + j] ELSE Zero]
    BY DEF Frame
  <2> HIDE DEF filled
  <2>9. Filled(inputs, frameSize, new, n + 1, q + 1)
    BY <1>6, <2>6, <2>7, <2>8 DEF Filled, hash
  <2> QED
    BY <2>9
<1> QED
  BY <1>8, <1>9

\* The loop leaves the hashes of the frames it has filled.
LEMMA AfterRounds ==
    ASSUME NEW inputs, Len(inputs) \in Nat, NEW frameSize \in 2 .. 16
    PROVE  \E q \in Nat :
             Filled(inputs, frameSize, Absorbed(inputs, frameSize), Len(inputs), q)
<1> DEFINE last == Len(inputs)
           a == Rounds(inputs, frameSize)
           Good == {n \in 0 .. last : \E q \in Nat : Filled(inputs, frameSize, a[n], n, q)}
<1>1. 0 \in Good
  <2>1. a[0] = Start(frameSize)
    BY Rounding DEF Round
  <2>2. /\ DOMAIN a[0] = Fields /\ a[0].k = 0 /\ a[0].hash = NoHash /\ a[0].dirty = FALSE
        /\ a[0].frame = Frame(Zero, frameSize)
    BY <2>1 DEF Start, Fields
  <2>3. Frame(Zero, frameSize)
          = [j \in 1 .. frameSize |->
               IF 0 > 0 /\ j = 1 THEN FrameHashes(inputs, frameSize)[0]
               ELSE IF j <= 0 THEN inputs[0 + j] ELSE Zero]
    BY DEF Frame
  <2>4. 0 * (frameSize - 1) = 0 /\ 0 - 0 = 0 /\ 0 \in 0 .. frameSize - 1
    OBVIOUS
  <2> HIDE DEF a
  <2>5. Filled(inputs, frameSize, a[0], 0, 0)
    BY <2>2, <2>3, <2>4 DEF Filled
  <2> QED
    BY <2>5
<1>2. ASSUME NEW n \in 0 .. last - 1, n \in Good PROVE n + 1 \in Good
  <2>1. PICK q \in Nat : Filled(inputs, frameSize, a[n], n, q)
    BY <1>2
  <2>2. a[n + 1] = Absorb(a[n], inputs[n + 1], frameSize)
    <3>1. n + 1 \in 0 .. Len(inputs) /\ n + 1 # 0 /\ (n + 1) - 1 = n
      OBVIOUS
    <3>2. a[n + 1] = Round(inputs, frameSize, a, n + 1)
      BY <3>1, Rounding
    <3> HIDE DEF a
    <3> QED
      BY <3>1, <3>2 DEF Round
  <2> HIDE DEF a
  <2>3. \E p \in Nat : Filled(inputs, frameSize, a[n + 1], n + 1, p)
    BY <2>1, <2>2, RoundFills
  <2> QED
    BY <2>3
<1>3. last \in Good
  <2> HIDE DEF Good
  <2>1. 0 .. last \subseteq Good
    BY <1>1, <1>2, CountingUpTo
  <2> QED
    BY <2>1
<1>4. a[last] = Absorbed(inputs, frameSize)
  BY Rounding
<1> QED
  BY <1>3, <1>4

LEMMA Quotients ==
    ASSUME NEW w \in 1 .. 15, NEW q \in Int, NEW r \in 0 .. w - 1
    PROVE  (q * w + r) \div w = q
BY SMTT(60)

\* Hashing inputs is hashing their frames.
LEMMA SpongeIsFrames ==
    ASSUME NEW inputs, Len(inputs) \in Nat \ {0}, NEW frameSize \in 2 .. 16
    PROVE  SpongeHashX(inputs, frameSize)
             = FrameHashes(inputs, frameSize)[FrameCount(Len(inputs), frameSize)]
<1> DEFINE n == Len(inputs)
           s == Absorbed(inputs, frameSize)
           hash == FrameHashes(inputs, frameSize)
           w == frameSize - 1
<1>1. PICK q \in Nat : Filled(inputs, frameSize, s, n, q)
  BY AfterRounds
<1> DEFINE base == q * (frameSize - 1)
<1>2. base \in Nat /\ base >= q /\ w \in 1 .. 15
  BY Bases
<1>3. n - base \in 0 .. frameSize - 1 /\ (q > 0 => n - base >= 1)
  BY <1>1 DEF Filled
<1>4. /\ s.frame = [j \in 1 .. frameSize |->
                     IF q > 0 /\ j = 1 THEN hash[q]
                     ELSE IF j <= n - base THEN inputs[base + j] ELSE Zero]
      /\ s.hash = IF q = 0 THEN NoHash ELSE hash[q]
  BY <1>1 DEF Filled
<1>5. s.dirty <=> (q = 0 /\ n >= 1) \/ n - base > 1
  BY <1>1 DEF Filled
<1>6. n \in Nat /\ n >= 1
  OBVIOUS
<1>7. SpongeHashX(inputs, frameSize) = IF s.dirty THEN Compress(s.frame) ELSE s.hash
  BY DEF SpongeHashX, Squeeze
<1> HIDE DEF n, s, hash
<1>8. CASE q = 0 \/ n - base > 1
  <2>1. q + 1 \in 1 .. n /\ (q + 1) - 1 = q /\ (q + 1 > 1 <=> q > 0)
    <3> HIDE DEF base
    <3> QED
      BY <1>2, <1>3, <1>6, <1>8
  <2>2. hash[q + 1] = HashStep(inputs, frameSize, hash, q + 1)
    BY <2>1, Hashing DEF hash, n
  <2>3. hash[q + 1] = Compress([j \in 1 .. frameSize |->
                                  IF q + 1 > 1 /\ j = 1 THEN hash[q]
                                  ELSE Input(inputs, base + j)])
    BY <2>1, <2>2 DEF HashStep
  <2> HIDE DEF base
  <2>4. [j \in 1 .. frameSize |-> IF q + 1 > 1 /\ j = 1 THEN hash[q]
                                  ELSE Input(inputs, base + j)] = s.frame
    <3>1. \A j \in 1 .. frameSize : base + j <= n <=> j <= n - base
      BY <1>2, <1>6
    <3> QED
      BY <1>4, <2>1, <3>1 DEF Input, n
  <2>5. FrameCount(n, frameSize) = q + 1
    <3>1. CASE n = 1
      <4>1. q = 0
        BY <1>2, <1>3, <1>8, <3>1
      <4> QED
        BY <3>1, <4>1 DEF FrameCount
    <3>2. CASE n # 1
      <4>1. n - base - 2 \in 0 .. w - 1 /\ base + (n - base - 2) = n - 2
        <5>1. q = 0 => base = 0
          BY DEF base
        <5> QED
          BY <1>2, <1>3, <1>6, <1>8, <3>2, <5>1
      <4>2. \A r \in 0 .. w - 1 : (q * w + r) \div w = q
        <5>1. q \in Int
          OBVIOUS
        <5> HIDE DEF w
        <5> QED
          BY <1>2, <5>1, Quotients
      <4>3. base = q * w
        BY DEF base
      <4>4. (base + (n - base - 2)) \div w = q
        <5> HIDE DEF w
        <5> QED
          BY <4>1, <4>2, <4>3
      <4>5. (n - 2) \div w = q
        <5> HIDE DEF w
        <5> QED
          BY <4>1, <4>4
      <4> QED
        BY <3>2, <4>5 DEF FrameCount
    <3> QED
      BY <3>1, <3>2
  <2>6. s.dirty
    BY <1>5, <1>6, <1>8
  <2> QED
    BY <1>7, <2>3, <2>4, <2>5, <2>6 DEF n, hash
<1>9. CASE ~(q = 0 \/ n - base > 1)
  <2>1. n - base = 1 /\ q > 0 /\ n # 1 /\ ~s.dirty
    <3> HIDE DEF base
    <3> QED
      BY <1>2, <1>3, <1>5, <1>6, <1>9
  <2>2. (q - 1) * w + (w - 1) = n - 2 /\ w - 1 \in 0 .. w - 1 /\ q - 1 \in Int
    <3>1. (q - 1) + 1 = q /\ q - 1 \in Nat
      BY <2>1
    <3>2. base = (q - 1) * (frameSize - 1) + (frameSize - 1) /\ (q - 1) * (frameSize - 1) \in Nat
      BY <3>1, Bases
    <3> HIDE DEF base
    <3> QED
      BY <1>2, <1>6, <2>1, <3>1, <3>2
  <2>3. ((q - 1) * w + (w - 1)) \div w = q - 1
    BY <1>2, <2>2, Quotients
  <2>4. FrameCount(n, frameSize) = q
    BY <2>1, <2>2, <2>3 DEF FrameCount
  <2> HIDE DEF base
  <2> QED
    BY <1>4, <1>7, <2>1, <2>4 DEF n, hash
<1> QED
  BY <1>8, <1>9

-----------------------------------------------------------------------------
(***************************************************************************)
(* Bytes and their chunks.                                                 *)
(***************************************************************************)
LEMMA ChunkDivision ==
    ASSUME NEW n \in Nat
    PROVE  /\ n \div spongeChunkSize \in Nat /\ n % spongeChunkSize \in 0 .. spongeChunkSize - 1
           /\ n = spongeChunkSize * (n \div spongeChunkSize) + (n % spongeChunkSize)
<1>1. spongeChunkSize \in Nat /\ spongeChunkSize > 0
  BY SpongeAssumption
<1>2. n = spongeChunkSize * (n \div spongeChunkSize) + (n % spongeChunkSize)
  BY <1>1, SMTT(30)
<1>3. n % spongeChunkSize \in 0 .. spongeChunkSize - 1
  BY <1>1, SMTT(30)
<1>4. n \div spongeChunkSize \in Nat
  BY <1>1, SMTT(30)
<1> QED
  BY <1>2, <1>3, <1>4

LEMMA CountOfChunks ==
    ASSUME NEW m \in Seq(Bytes)
    PROVE  /\ Whole(m) \in Nat
           /\ Len(WholeChunks(m)) = Whole(m)
           /\ Len(Chunks(m)) = Whole(m) + (IF Len(m) % spongeChunkSize = 0 THEN 0 ELSE 1)
           /\ m # <<>> => Len(Chunks(m)) # 0
<1>1. Len(m) \in Nat /\ (m # <<>> => Len(m) # 0)
  OBVIOUS
<1>2. /\ Whole(m) \in Nat
      /\ Len(m) = spongeChunkSize * Whole(m) + (Len(m) % spongeChunkSize)
  BY <1>1, ChunkDivision DEF Whole
<1>3. spongeChunkSize * 0 = 0
  BY SpongeAssumption
<1>4. Len(WholeChunks(m)) = Whole(m)
  BY <1>2 DEF WholeChunks
<1>5. Len(Chunks(m)) = Whole(m) + (IF Len(m) % spongeChunkSize = 0 THEN 0 ELSE 1)
  BY <1>2 DEF Chunks
<1>6. Len(m) # 0 /\ Whole(m) = 0 => Len(m) % spongeChunkSize # 0
  BY <1>2, <1>3
<1> QED
  BY <1>1, <1>2, <1>4, <1>5, <1>6

\* Behind its last chunk a message has zeros.
LEMMA ChunksOfMessage ==
    ASSUME NEW m \in Seq(Bytes), NEW i \in Nat \ {0}
    PROVE  Input(Chunks(m), i) = Chunk(m, i)
<1> DEFINE n == Len(Chunks(m))
<1>1. /\ n \in Nat /\ Len(m) \in Nat
      /\ n = Whole(m) + (IF Len(m) % spongeChunkSize = 0 THEN 0 ELSE 1)
  BY CountOfChunks
<1>2. CASE i <= n
  <2>1. i \in 1 .. Whole(m) + (IF Len(m) % spongeChunkSize = 0 THEN 0 ELSE 1)
    <3> HIDE DEF n
    <3> QED
      BY <1>1, <1>2
  <2>2. Chunks(m)[i] = Chunk(m, i)
    BY <2>1 DEF Chunks
  <2> QED
    BY <1>2, <2>2 DEF Input
<1>3. CASE ~(i <= n)
  <2>1. Len(m) <= spongeChunkSize * n
    <3>1. /\ Len(m) = spongeChunkSize * Whole(m) + (Len(m) % spongeChunkSize)
          /\ Len(m) % spongeChunkSize \in 0 .. spongeChunkSize - 1 /\ Whole(m) \in Nat
      BY <1>1, ChunkDivision DEF Whole
    <3>2. spongeChunkSize * (Whole(m) + 1) = spongeChunkSize * Whole(m) + spongeChunkSize
      BY <3>1, SpongeAssumption
    <3>3. spongeChunkSize * Whole(m) \in Nat
      BY <3>1, SpongeAssumption
    <3>4. CASE Len(m) % spongeChunkSize = 0
      <4>1. n = Whole(m)
        BY <1>1, <3>1, <3>4
      <4> HIDE DEF n
      <4> QED
        BY <3>1, <3>3, <3>4, <4>1
    <3>5. CASE Len(m) % spongeChunkSize # 0
      <4>1. n = Whole(m) + 1
        BY <1>1, <3>5
      <4> HIDE DEF n
      <4> QED
        BY <3>1, <3>2, <3>3, <4>1, SpongeAssumption
    <3> QED
      BY <3>4, <3>5
  <2>2. spongeChunkSize * n <= spongeChunkSize * (i - 1)
    <3>1. i - 1 - n \in Nat /\ i - 1 = n + (i - 1 - n)
      BY <1>1, <1>3
    <3>2. \A a, b \in Nat : spongeChunkSize * a <= spongeChunkSize * (a + b)
      BY SpongeAssumption, SMTT(30)
    <3> HIDE DEF n
    <3> QED
      BY <1>1, <3>1, <3>2
  <2>3. spongeChunkSize * n \in Int /\ spongeChunkSize * (i - 1) \in Int
    BY <1>1, SpongeAssumption
  <2>4. \A j \in 1 .. spongeChunkSize : ~(spongeChunkSize * (i - 1) + j <= Len(m))
    BY <1>1, <2>1, <2>2, <2>3
  <2>5. Chunk(m, i) = Zero
    BY <2>4 DEF Chunk, Zero, ByteAt
  <2> QED
    BY <1>3, <2>5 DEF Input
<1> QED
  BY <1>2, <1>3

\* To hash a last input in the frame, or to let the loop have it, is the same.
LEMMA LastInput ==
    ASSUME NEW s, DOMAIN s = Fields, NEW x, NEW frameSize
    PROVE  Squeeze(Absorb(s, x, frameSize)) = Squeeze(Put(s, x))
<1> DEFINE full == Put(s, x)
           new == Absorb(s, x, frameSize)
<1>1. full.dirty = TRUE
  BY Putting
<1>2. /\ s.k < frameSize - 1 => new.frame = full.frame /\ new.dirty = TRUE
      /\ ~(s.k < frameSize - 1) => new.hash = Compress(full.frame) /\ new.dirty = FALSE
  BY Absorbing
<1> HIDE DEF full, new
<1>3. Squeeze(full) = Compress(full.frame)
  BY <1>1 DEF Squeeze
<1>4. Squeeze(new) = Compress(full.frame)
  BY <1>2 DEF Squeeze
<1> QED
  BY <1>3, <1>4 DEF full, new

\* Two lists go through the loop alike as far as they are one.
LEMMA SameRounds ==
    ASSUME NEW a, NEW b, Len(a) \in Nat, Len(b) \in Nat, NEW n \in 0 .. Len(a), n <= Len(b),
           \A i \in 1 .. n : a[i] = b[i], NEW frameSize
    PROVE  Rounds(a, frameSize)[n] = Rounds(b, frameSize)[n]
<1> DEFINE ra == Rounds(a, frameSize)
           rb == Rounds(b, frameSize)
           Good == {i \in 0 .. n : ra[i] = rb[i]}
<1>1. \A i \in 0 .. n : ra[i] = Round(a, frameSize, ra, i) /\ rb[i] = Round(b, frameSize, rb, i)
  <2> TAKE i \in 0 .. n
  <2>1. i \in 0 .. Len(a) /\ i \in 0 .. Len(b)
    OBVIOUS
  <2> QED
    BY <2>1, Rounding
<1> HIDE DEF ra, rb
<1>2. 0 \in Good
  <2>1. ra[0] = rb[0]
    BY <1>1 DEF Round
  <2> QED
    BY <2>1
<1>3. ASSUME NEW i \in 0 .. n - 1, i \in Good PROVE i + 1 \in Good
  <2>1. i + 1 \in 1 .. n /\ i + 1 \in 0 .. n /\ (i + 1) - 1 = i /\ i + 1 # 0
    OBVIOUS
  <2>2. ra[i + 1] = Absorb(ra[i], a[i + 1], frameSize)
    BY <1>1, <2>1 DEF Round
  <2>3. rb[i + 1] = Absorb(rb[i], b[i + 1], frameSize)
    BY <1>1, <2>1 DEF Round
  <2>4. a[i + 1] = b[i + 1] /\ ra[i] = rb[i]
    BY <1>3, <2>1
  <2> QED
    BY <2>1, <2>2, <2>3, <2>4
<1>4. n \in Good
  <2> HIDE DEF Good
  <2>1. n \in Nat
    OBVIOUS
  <2>2. 0 .. n \subseteq Good
    BY <1>2, <1>3, <2>1, CountingUpTo
  <2> QED
    BY <2>1, <2>2
<1> QED
  BY <1>4 DEF ra, rb

\* Hashing bytes is hashing their chunks.
LEMMA BytesAreChunks ==
    ASSUME NEW m \in Seq(Bytes), NEW frameSize \in 2 .. 16
    PROVE  HashBytesX(m, frameSize) = SpongeHashX(Chunks(m), frameSize)
<1> DEFINE n == Whole(m)
           chunks == Chunks(m)
           whole == WholeChunks(m)
           s == Absorbed(whole, frameSize)
<1>1. /\ n \in Nat /\ Len(whole) = n
      /\ Len(chunks) = n + (IF Len(m) % spongeChunkSize = 0 THEN 0 ELSE 1)
  BY CountOfChunks
<1>2. \A i \in 1 .. n : whole[i] = chunks[i]
  BY <1>1 DEF WholeChunks, Chunks
<1>3. s = Rounds(whole, frameSize)[n]
  BY <1>1, Rounding
<1>4. Rounds(whole, frameSize)[n] = Rounds(chunks, frameSize)[n]
  <2> HIDE DEF whole, chunks, n
  <2>1. n \in 0 .. Len(whole) /\ n <= Len(chunks) /\ Len(whole) \in Nat /\ Len(chunks) \in Nat
    BY <1>1
  <2> QED
    BY <1>2, <2>1, SameRounds
<1>5. HashBytesX(m, frameSize)
        = Squeeze(IF Len(m) % spongeChunkSize = 0 THEN s ELSE Put(s, Chunk(m, n + 1)))
  BY DEF HashBytesX
<1>6. SpongeHashX(chunks, frameSize) = Squeeze(Rounds(chunks, frameSize)[Len(chunks)])
  <2>1. Len(chunks) \in Nat
    BY <1>1
  <2> QED
    BY <2>1, Rounding DEF SpongeHashX
<1>7. CASE Len(m) % spongeChunkSize = 0
  BY <1>1, <1>3, <1>4, <1>5, <1>6, <1>7
<1>8. CASE Len(m) % spongeChunkSize # 0
  <2>1. Len(chunks) = n + 1 /\ n + 1 \in 0 .. Len(chunks) /\ Len(chunks) \in Nat
    BY <1>1, <1>8
  <2>2. chunks[n + 1] = Chunk(m, n + 1)
    BY <1>1, <1>8 DEF Chunks
  <2>3. DOMAIN s = Fields
    <3>1. Len(whole) \in Nat
      BY <1>1
    <3> QED
      BY <3>1, AfterRounds DEF Filled
  <2> HIDE DEF whole, chunks, s, n
  <2>4. Rounds(chunks, frameSize)[n + 1] = Absorb(s, chunks[n + 1], frameSize)
    <3>1. n + 1 # 0 /\ (n + 1) - 1 = n
      BY <1>1
    <3>2. Rounds(chunks, frameSize)[n + 1]
            = Round(chunks, frameSize, Rounds(chunks, frameSize), n + 1)
      BY <2>1, Rounding
    <3> QED
      BY <1>3, <1>4, <3>1, <3>2 DEF Round
  <2>5. Squeeze(Absorb(s, chunks[n + 1], frameSize)) = Squeeze(Put(s, chunks[n + 1]))
    BY <2>3, LastInput
  <2>6. HashBytesX(m, frameSize) = Squeeze(Put(s, Chunk(m, n + 1)))
    BY <1>5, <1>8
  <2>7. SpongeHashX(chunks, frameSize) = Squeeze(Put(s, chunks[n + 1]))
    BY <1>6, <2>1, <2>4, <2>5
  <2> QED
    BY <2>2, <2>6, <2>7 DEF chunks
<1> QED
  BY <1>7, <1>8

LEMMA MessageType == SpongeSpec => [](msg \in Seq(Bytes))
<1>1. SpongeInit => msg \in Seq(Bytes)
  BY DEF SpongeInit
<1>2. msg \in Seq(Bytes) /\ [AppendByte]_msg => (msg \in Seq(Bytes))'
  BY DEF AppendByte
<1> QED
  BY <1>1, <1>2, PTL DEF SpongeSpec

\* A message of any length, at any chunk and frame size: what the two loops and
\* the rest behind the last whole chunk make of it is the chain of the hashes of
\* its frames.
THEOREM HashingBytes == SpongeSpec => []HashBytesIsSponge
<1>1. ASSUME msg \in Seq(Bytes) PROVE HashBytesIsSponge
  <2> SUFFICES ASSUME NEW frameSize \in FrameSizes
               PROVE  /\ HashBytesX(msg, frameSize) = SpongeHashX(Chunks(msg), frameSize)
                      /\ msg # <<>> =>
                           HashBytesX(msg, frameSize)
                             = FrameHashes(Chunks(msg), frameSize)
                                 [FrameCount(Len(Chunks(msg)), frameSize)]
    BY DEF HashBytesIsSponge
  <2>1. frameSize \in 2 .. 16
    BY SpongeAssumption
  <2>2. HashBytesX(msg, frameSize) = SpongeHashX(Chunks(msg), frameSize)
    BY <1>1, <2>1, BytesAreChunks
  <2>3. msg # <<>> => Len(Chunks(msg)) \in Nat \ {0}
    BY <1>1, CountOfChunks
  <2> QED
    BY <2>1, <2>2, <2>3, SpongeIsFrames
<1> QED
  BY <1>1, MessageType, PTL

-----------------------------------------------------------------------------
(***************************************************************************)
(* From a hash back to what was hashed.                                    *)
(***************************************************************************)
SameHash(a, p, b, q, frameSize) ==
    FrameHashes(a, frameSize)[p] = FrameHashes(b, frameSize)[q]

Numbers(inputs) == \A i \in Nat \ {0} : Input(inputs, i)[1] = "bytes"

\* Equal hashes come of equal numbers of frames, with the same inputs in them: a
\* frame that begins with a hash is not one that begins with an input.
LEMMA Unchained ==
    ASSUME NEW a, NEW b, Len(a) \in Nat, Len(b) \in Nat, NEW frameSize \in 2 .. 16,
           Numbers(a), Numbers(b),
           NEW p \in 1 .. Len(a), NEW q \in 1 .. Len(b),
           SameHash(a, p, b, q, frameSize)
    PROVE  /\ p = q
           /\ \A i \in 1 .. (p - 1) * (frameSize - 1) + frameSize : Input(a, i) = Input(b, i)
<1> DEFINE ha == FrameHashes(a, frameSize)
           hb == FrameHashes(b, frameSize)
           w == frameSize - 1
           Same(n, m) == n = m /\ \A i \in 1 .. (n - 1) * w + frameSize : Input(a, i) = Input(b, i)
           Good == {n \in Nat : n + 1 <= Len(a) =>
                      \A m \in 1 .. Len(b) : ha[n + 1] = hb[m] => Same(n + 1, m)}
           Frames(x, h, n) == [j \in 1 .. frameSize |->
                                 IF n > 1 /\ j = 1 THEN h[n - 1] ELSE Input(x, (n - 1) * w + j)]
<1>1. ASSUME NEW n \in 1 .. Len(a), NEW m \in 1 .. Len(b), ha[n] = hb[m]
      PROVE  Frames(a, ha, n) = Frames(b, hb, m)
  <2>1. ha[n][2] = Frames(a, ha, n)
    <3>1. ha[n] = HashStep(a, frameSize, ha, n)
      BY Hashing
    <3> HIDE DEF ha
    <3> QED
      BY <3>1 DEF HashStep, Compress
  <2>2. hb[m][2] = Frames(b, hb, m)
    <3>1. hb[m] = HashStep(b, frameSize, hb, m)
      BY Hashing
    <3> HIDE DEF hb
    <3> QED
      BY <3>1 DEF HashStep, Compress
  <2> HIDE DEF ha, hb, Frames
  <2> QED
    BY <1>1, <2>1, <2>2
<1>2. \A n \in 1 .. Len(a) : ha[n][1] = "hash"
  <2> TAKE n \in 1 .. Len(a)
  <2>1. ha[n] = HashStep(a, frameSize, ha, n)
    BY Hashing
  <2> HIDE DEF ha
  <2> QED
    BY <2>1 DEF HashStep, Compress
<1>3. \A m \in 1 .. Len(b) : hb[m][1] = "hash"
  <2> TAKE m \in 1 .. Len(b)
  <2>1. hb[m] = HashStep(b, frameSize, hb, m)
    BY Hashing
  <2> HIDE DEF hb
  <2> QED
    BY <2>1 DEF HashStep, Compress
<1> HIDE DEF ha, hb
<1>4. \A n \in Nat : n * w \in Nat
  <2> TAKE n \in Nat
  <2> QED
    BY Bases
<1>5. ASSUME NEW n \in 1 .. Len(a), NEW m \in 1 .. Len(b), ha[n] = hb[m], n = 1 \/ m = 1
      PROVE  n = 1 /\ m = 1
  <2>1. Frames(a, ha, n)[1] = Frames(b, hb, m)[1]
    <3> HIDE DEF Frames
    <3> QED
      BY <1>1, <1>5
  <2>2. CASE n = 1 /\ m > 1
    <3>1. Frames(a, ha, n)[1] = Input(a, 1)
      <4>1. (1 - 1) * w + 1 = 1
        OBVIOUS
      <4> QED
        BY <2>2, <4>1
    <3>2. Frames(b, hb, m)[1] = hb[m - 1] /\ m - 1 \in 1 .. Len(b)
      BY <2>2
    <3>3. Input(a, 1)[1] = "bytes" /\ hb[m - 1][1] = "hash"
      BY <1>3, <3>2 DEF Numbers
    <3> HIDE DEF Frames
    <3> QED
      BY <2>1, <3>1, <3>2, <3>3
  <2>3. CASE m = 1 /\ n > 1
    <3>1. Frames(b, hb, m)[1] = Input(b, 1)
      <4>1. (1 - 1) * w + 1 = 1
        OBVIOUS
      <4> QED
        BY <2>3, <4>1
    <3>2. Frames(a, ha, n)[1] = ha[n - 1] /\ n - 1 \in 1 .. Len(a)
      BY <2>3
    <3>3. Input(b, 1)[1] = "bytes" /\ ha[n - 1][1] = "hash"
      BY <1>2, <3>2 DEF Numbers
    <3> HIDE DEF Frames
    <3> QED
      BY <2>1, <3>1, <3>2, <3>3
  <2> QED
    BY <1>5, <2>2, <2>3
<1>6. ASSUME NEW n \in 1 .. Len(a), NEW m \in 1 .. Len(b), ha[n] = hb[m], n = m,
             NEW j \in 1 .. frameSize, n = 1 \/ j # 1
      PROVE  Input(a, (n - 1) * w + j) = Input(b, (n - 1) * w + j)
  <2>1. Frames(a, ha, n)[j] = Input(a, (n - 1) * w + j)
    BY <1>6
  <2>2. Frames(b, hb, m)[j] = Input(b, (n - 1) * w + j)
    BY <1>6
  <2> HIDE DEF Frames
  <2> QED
    BY <1>1, <1>6, <2>1, <2>2
<1>7. 0 \in Good
  <2> SUFFICES ASSUME 1 <= Len(a), NEW m \in 1 .. Len(b), ha[1] = hb[m] PROVE Same(1, m)
    BY DEF Good
  <2>1. m = 1 /\ 1 \in 1 .. Len(a)
    BY <1>5
  <2>2. \A i \in 1 .. frameSize : Input(a, (1 - 1) * w + i) = Input(b, (1 - 1) * w + i)
    BY <1>6, <2>1
  <2>3. (1 - 1) * w = 0 /\ 0 + frameSize = frameSize /\ \A i \in 1 .. frameSize : 0 + i = i
    OBVIOUS
  <2> QED
    BY <2>1, <2>2, <2>3
<1>8. ASSUME NEW n \in Nat, n \in Good PROVE n + 1 \in Good
  <2> SUFFICES ASSUME n + 2 <= Len(a), NEW m \in 1 .. Len(b), ha[n + 2] = hb[m]
               PROVE  Same(n + 2, m)
    <3>1. (n + 1) + 1 = n + 2
      OBVIOUS
    <3> HIDE DEF Same
    <3> QED
      BY <3>1
  <2>1. n + 2 \in 1 .. Len(a) /\ n + 2 # 1 /\ n + 2 > 1 /\ (n + 2) - 1 = n + 1
    OBVIOUS
  <2>2. m > 1 /\ m - 1 \in 1 .. Len(b)
    BY <1>5, <2>1
  <2>3. Frames(a, ha, n + 2)[1] = ha[n + 1] /\ Frames(b, hb, m)[1] = hb[m - 1]
    BY <2>1, <2>2
  <2>4. ha[n + 1] = hb[m - 1]
    <3> HIDE DEF Frames
    <3> QED
      BY <1>1, <2>1, <2>3
  <2>5. Same(n + 1, m - 1)
    <3> HIDE DEF Same
    <3> QED
      BY <1>8, <2>2, <2>4
  <2>6. m = n + 2
    BY <2>2, <2>5
  <2>7. \A j \in 2 .. frameSize : Input(a, (n + 1) * w + j) = Input(b, (n + 1) * w + j)
    <3> TAKE j \in 2 .. frameSize
    <3>1. j \in 1 .. frameSize /\ j # 1
      OBVIOUS
    <3>2. Input(a, ((n + 2) - 1) * w + j) = Input(b, ((n + 2) - 1) * w + j)
      <4> HIDE DEF w
      <4> QED
        BY <1>6, <2>1, <2>6, <3>1
    <3> QED
      BY <2>1, <3>2
  <2>8. /\ (n + 1) * w \in Nat /\ n * w \in Nat /\ (n + 1) * w = n * w + w
        /\ ((n + 1) - 1) * w = n * w /\ ((n + 2) - 1) * w = (n + 1) * w
    BY <1>4, Bases
  <2>9. \A i \in 1 .. (n + 1) * w + frameSize : Input(a, i) = Input(b, i)
    <3> TAKE i \in 1 .. (n + 1) * w + frameSize
    <3>1. CASE i <= n * w + frameSize
      BY <2>5, <2>8, <3>1
    <3>2. CASE ~(i <= n * w + frameSize)
      <4>1. i - (n + 1) * w \in 2 .. frameSize /\ (n + 1) * w + (i - (n + 1) * w) = i
        BY <2>8, <3>2
      <4> QED
        BY <2>7, <4>1
    <3> QED
      BY <3>1, <3>2
  <2> QED
    BY <2>6, <2>8, <2>9
<1>9. p - 1 \in Good
  <2> HIDE DEF Good
  <2>1. p - 1 \in Nat
    OBVIOUS
  <2>2. Nat \subseteq Good
    BY <1>7, <1>8, CountingUp
  <2> QED
    BY <2>1, <2>2
<1>10. Same(p, q)
  <2>1. (p - 1) + 1 = p /\ p <= Len(a) /\ ha[p] = hb[q]
    BY DEF ha, hb, SameHash
  <2> HIDE DEF Same
  <2> QED
    BY <1>9, <2>1
<1> QED
  BY <1>10

\* The frames there are hold all the inputs.
LEMMA FramesHold ==
    ASSUME NEW n \in Nat \ {0}, NEW frameSize \in 2 .. 16
    PROVE  LET count == FrameCount(n, frameSize) IN
           /\ count \in 1 .. n
           /\ n <= (count - 1) * (frameSize - 1) + frameSize
<1> DEFINE w == frameSize - 1
           d == (n - 2) \div w
<1>1. CASE n = 1
  <2>1. FrameCount(n, frameSize) = 1
    BY <1>1 DEF FrameCount
  <2>2. (1 - 1) * (frameSize - 1) = 0
    OBVIOUS
  <2> QED
    BY <1>1, <2>1, <2>2
<1>2. CASE n # 1
  <2>1. FrameCount(n, frameSize) = d + 1
    BY <1>2 DEF FrameCount
  <2>2. n - 2 \in Nat /\ w \in 1 .. 15
    BY <1>2
  <2>3. d \in Nat /\ d * w <= n - 2 /\ n - 2 < d * w + w
    BY <2>2, SMTT(60)
  <2> HIDE DEF d
  <2>4. d * w >= d /\ d * w \in Nat
    BY <2>3, Bases
  <2>5. (d + 1) - 1 = d
    BY <2>3
  <2> QED
    BY <2>1, <2>2, <2>3, <2>4, <2>5
<1> QED
  BY <1>1, <1>2

\* Messages with the same chunks have the same bytes, with zeros behind them.
LEMMA SameBytes ==
    ASSUME NEW l \in Seq(Bytes), NEW m \in Seq(Bytes), NEW n \in Nat \ {0}, n <= Len(m),
           \A i \in 1 .. Len(Chunks(m)) : Chunk(l, i) = Chunk(m, i)
    PROVE  ByteAt(l, n) = ByteAt(m, n)
<1> DEFINE c == spongeChunkSize
           d == (n - 1) \div c
           r == (n - 1) % c
<1>1. d \in Nat /\ r \in 0 .. c - 1 /\ n - 1 = c * d + r /\ c \in Nat \ {0}
  <2>1. n - 1 \in Nat
    OBVIOUS
  <2>2. d \in Nat /\ r \in 0 .. c - 1 /\ n - 1 = c * d + r
    BY <2>1, ChunkDivision
  <2>3. c \in Nat \ {0}
    BY SpongeAssumption
  <2> QED
    BY <2>2, <2>3
<1> HIDE DEF d, r, c
<1>2. r + 1 \in 1 .. c /\ c * ((d + 1) - 1) + (r + 1) = n
  BY <1>1
<1>3. d + 1 \in 1 .. Len(Chunks(m))
  <2>1. /\ Whole(m) \in Nat /\ Len(m) \in Nat
        /\ Len(Chunks(m)) = Whole(m) + (IF Len(m) % c = 0 THEN 0 ELSE 1)
    BY CountOfChunks DEF c
  <2>2. Len(m) = c * Whole(m) + (Len(m) % c) /\ Len(m) % c \in 0 .. c - 1
    BY <2>1, ChunkDivision DEF Whole, c
  <2>3. CASE d + 1 <= Whole(m)
    BY <1>1, <2>1, <2>3
  <2>4. CASE ~(d + 1 <= Whole(m))
    <3>1. d - Whole(m) \in Nat /\ d = Whole(m) + (d - Whole(m))
      BY <1>1, <2>1, <2>4
    <3>2. c * d = c * Whole(m) + c * (d - Whole(m))
      <4>1. \A x, y \in Nat : c * (x + y) = c * x + c * y
        BY <1>1, SMTT(30)
      <4> QED
        BY <2>1, <3>1, <4>1
    <3>3. c * Whole(m) \in Nat /\ c * d \in Nat /\ c * (d - Whole(m)) \in Nat
      <4>1. \A x \in Nat : c * x \in Nat
        BY <1>1
      <4> QED
        BY <1>1, <2>1, <3>1, <4>1
    <3>4. c * (d - Whole(m)) + r + 1 <= Len(m) % c
      <4> DEFINE u == c * Whole(m)
                 v == c * d
                 x == c * (d - Whole(m))
      <4>1. u \in Nat /\ v \in Nat /\ x \in Nat /\ v = u + x
        BY <3>2, <3>3
      <4>2. n - 1 = v + r /\ Len(m) = u + (Len(m) % c) /\ n <= Len(m)
        BY <1>1, <2>2
      <4> HIDE DEF u, v, x
      <4>3. x + r + 1 <= Len(m) % c
        BY <1>1, <2>1, <2>2, <4>1, <4>2
      <4> QED
        BY <4>3 DEF x
    <3>5. d - Whole(m) = 0
      <4>1. \A x \in Nat \ {0} : c * x >= c
        BY <1>1, SMTT(30)
      <4>2. c * (d - Whole(m)) < c
        BY <1>1, <2>2, <3>3, <3>4
      <4>3. CASE d - Whole(m) \in Nat \ {0}
        <5>1. c * (d - Whole(m)) >= c
          BY <4>1, <4>3
        <5> QED
          BY <1>1, <3>3, <4>2, <5>1
      <4> QED
        BY <3>1, <4>3
    <3>6. Len(m) % c # 0
      BY <1>1, <2>2, <3>3, <3>4
    <3> QED
      BY <1>1, <2>1, <3>1, <3>5, <3>6
  <2> QED
    BY <2>3, <2>4
<1>4. Chunk(l, d + 1) = Chunk(m, d + 1)
  BY <1>3
<1>5. [j \in 1 .. c |-> ByteAt(l, c * ((d + 1) - 1) + j)]
        = [j \in 1 .. c |-> ByteAt(m, c * ((d + 1) - 1) + j)]
  BY <1>4 DEF Chunk, Number, c
<1>6. ByteAt(l, c * ((d + 1) - 1) + (r + 1)) = ByteAt(m, c * ((d + 1) - 1) + (r + 1))
  BY <1>2, <1>5
<1> QED
  BY <1>2, <1>6

LEMMA HashesApart ==
    ASSUME NEW l \in Seq(Bytes), NEW m \in Seq(Bytes), l # <<>>, m # <<>>, Len(l) <= Len(m),
           NEW frameSize \in 2 .. 16, HashBytesX(l, frameSize) = HashBytesX(m, frameSize)
    PROVE  l = SubSeq(m, 1, Len(l)) /\ ZerosBehind(m, Len(l))
<1> DEFINE a == Chunks(l)
           b == Chunks(m)
           p == FrameCount(Len(a), frameSize)
           q == FrameCount(Len(b), frameSize)
<1>1. Len(a) \in Nat \ {0} /\ Len(b) \in Nat \ {0}
  BY CountOfChunks
<1>2. SameHash(a, p, b, q, frameSize)
  BY <1>1, BytesAreChunks, SpongeIsFrames DEF SameHash
<1>3. p \in 1 .. Len(a) /\ q \in 1 .. Len(b) /\ Len(b) <= (q - 1) * (frameSize - 1) + frameSize
  BY <1>1, FramesHold
<1>4. \A i \in Nat \ {0} : Input(a, i) = Chunk(l, i) /\ Input(b, i) = Chunk(m, i)
  BY ChunksOfMessage
<1>5. Numbers(a) /\ Numbers(b)
  BY <1>4 DEF Chunk, Number, Numbers
<1> HIDE DEF a, b, p, q
<1>6. /\ p = q
      /\ \A i \in 1 .. (p - 1) * (frameSize - 1) + frameSize : Input(a, i) = Input(b, i)
  <2>1. Len(a) \in Nat /\ Len(b) \in Nat /\ p \in 1 .. Len(a) /\ q \in 1 .. Len(b)
    BY <1>1, <1>3
  <2> QED
    BY <1>2, <1>5, <2>1, Unchained
<1>7. \A i \in 1 .. Len(b) : Chunk(l, i) = Chunk(m, i)
  <2> TAKE i \in 1 .. Len(b)
  <2>1. (q - 1) * (frameSize - 1) \in Int
    <3>1. q - 1 \in Nat
      BY <1>1, <1>3
    <3> QED
      BY <3>1, Bases
  <2>2. i \in 1 .. (p - 1) * (frameSize - 1) + frameSize /\ i \in Nat \ {0}
    BY <1>1, <1>3, <1>6, <2>1
  <2> QED
    BY <1>4, <1>6, <2>2
<1>8. \A n \in 1 .. Len(m) : ByteAt(l, n) = ByteAt(m, n)
  BY <1>7, SameBytes DEF b
<1>9. \A n \in 1 .. Len(l) : l[n] = m[n]
  BY <1>8 DEF ByteAt
<1>10. l = SubSeq(m, 1, Len(l))
  BY <1>9
<1>11. ZerosBehind(m, Len(l))
  BY <1>8 DEF ByteAt, ZerosBehind
<1> QED
  BY <1>10, <1>11

\* Two messages of any lengths with one hash differ in zeros at the end of the
\* longer only: what a hash says is the message up to its padding.  The padding
\* is what collides, and nothing else.
THEOREM HashCollisions == SpongeSpec => []OnlyZerosCollide
<1>1. ASSUME msg \in Seq(Bytes) PROVE OnlyZerosCollide
  <2> SUFFICES ASSUME NEW frameSize \in FrameSizes, NEW other \in Messages, msg \in Messages,
                      Len(other) <= Len(msg),
                      HashOf[frameSize][other] = HashOf[frameSize][msg]
               PROVE  other = SubSeq(msg, 1, Len(other)) /\ ZerosBehind(msg, Len(other))
    BY DEF OnlyZerosCollide
  <2>1. frameSize \in 2 .. 16
    BY SpongeAssumption
  <2>2. \A m \in Messages : m \in Seq(Bytes) /\ m # <<>>
    BY SpongeAssumption DEF Messages
  <2>3. HashBytesX(other, frameSize) = HashBytesX(msg, frameSize)
    BY DEF HashOf
  <2> QED
    BY <2>1, <2>2, <2>3, HashesApart
<1> QED
  BY <1>1, MessageType, PTL

=============================================================================
