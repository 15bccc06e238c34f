--------------------------- MODULE AccountsProofs ---------------------------
(***************************************************************************)
(* Proofs about Accounts: its inductive invariant, and that it implements  *)
(* Ledger.                                                                 *)
(***************************************************************************)
EXTENDS Accounts, FiniteSetTheorems, TLAPS

(***************************************************************************)
(* The inductive invariant: the parts the run of MCAccounts checks.        *)
(***************************************************************************)
AccountsInv ==
    /\ AccountsTypeOK
    /\ AddressesDense
    /\ CacheCoherent
    /\ CredentialsAreCommitted
    /\ IndexTargetsExist

\* What the invariant says of the cache, for any cache of the tree's accounts.
GoodCache(c) ==
    /\ IsMap(c, Addresses, CachedAccount)
    /\ DOMAIN c \subseteq DOMAIN accountTree
    /\ \A a \in DOMAIN c :
         /\ ~c[a].Modified => c[a].now = accountTree[a]
         /\ c[a].schnorrPubKey = accountTree[a].schnorr
         /\ c[a].counter = accountTree[a].Counter

-----------------------------------------------------------------------------
(***************************************************************************)
(* Arithmetic and records.                                                 *)
(***************************************************************************)

\* Wrapping yields a uint32, whatever integer is wrapped.
LEMMA WrapType == \A n \in Int : Wrap(n) \in UInt32
BY WordAssumption, SMT DEF Wrap, UInt32

\* A participant occurs a natural number of times in a batch.
LEMMA OccurrencesType ==
    ASSUME NEW p \in Seq(Addresses), NEW a
    PROVE  Occurrences(p, a) \in Nat
<1>1. IsFiniteSet(1 .. Len(p))
  BY FS_Interval
<1>2. {i \in DOMAIN p : p[i] = a} \subseteq 1 .. Len(p)
  OBVIOUS
<1>3. IsFiniteSet({i \in DOMAIN p : p[i] = a})
  BY <1>1, <1>2, FS_Subset
<1> QED
  BY <1>3, FS_CardinalityType DEF Occurrences

\* The members of a batch are listed addresses.
LEMMA BatchMembersType ==
    ASSUME NEW p \in Seq(Addresses), NEW tail \in BOOLEAN
    PROVE  BatchMembers(p, tail) \in Seq(Addresses)
<1>1. CASE tail \/ p = <<>>
  BY <1>1 DEF BatchMembers
<1>2. CASE ~(tail \/ p = <<>>)
  <2>1. Len(p) \in Nat /\ Len(p) # 0
    BY <1>2
  <2>2. SubSeq(p, 1, Len(p) - 1) \in Seq(Addresses)
    BY <2>1
  <2> QED
    BY <1>2, <2>2 DEF BatchMembers
<1> QED
  BY <1>1, <1>2

\* execUpdate's assignments leave a record a record.
LEMMA UpdatedType ==
    ASSUME NEW leaf \in Leaf, NEW m \in UInt32, NEW n \in Nat,
           NEW st \in States \cup {NoState}
    PROVE  Updated(leaf, m, n, st) \in Leaf
<1> DEFINE c == Plus(leaf.Counter, n)
<1>1. leaf.Counter + n \in Int
  BY WordAssumption DEF Leaf, UInt32
<1>2. c \in UInt32
  BY <1>1, WrapType DEF Plus
<1> HIDE DEF c
<1>3. [leaf EXCEPT !.Amount = m, !.Counter = c, !.State = st] \in Leaf
  BY <1>2 DEF Leaf
<1> QED
  BY <1>3 DEF Updated, c

\* Every handler's arithmetic turns records into records.
LEMMA LeafOps ==
    ASSUME NEW leaf \in Leaf, NEW amount \in UInt32, NEW fee \in UInt32
    PROVE  /\ \A st \in States \cup {NoState} : Debited(leaf, amount, fee, st) \in Leaf
           /\ Released(leaf, amount, fee) \in Leaf
           /\ Credited(leaf, amount) \in Leaf
           /\ \A s \in Keys, b \in BlsKeys : Rekeyed(leaf, s, b, fee) \in Leaf
           /\ \A s \in Keys, b \in BlsKeys : NewLeaf(amount, s, b) \in Leaf
           /\ \A st \in States \cup {NoState}, n \in Nat : Settled(leaf, n, amount, fee, st) \in Leaf
           /\ \A p \in Seq(Addresses) : BatchCredited(leaf, p, amount, fee) \in Leaf
<1>1. amount \in Int /\ fee \in Int /\ leaf.Amount \in Int /\ leaf.Counter \in Int
  BY WordAssumption DEF UInt32, Leaf
<1>3. \A st \in States \cup {NoState} : Debited(leaf, amount, fee, st) \in Leaf
  <2>1. Minus(leaf.Amount, amount + fee) \in UInt32
    BY <1>1, WrapType DEF Minus
  <2> QED
    BY <2>1, UpdatedType DEF Debited
<1>4. Released(leaf, amount, fee) \in Leaf
  <2>1. Wrap(leaf.Amount + amount - fee) \in UInt32
    BY <1>1, WrapType
  <2> QED
    BY <2>1, UpdatedType DEF Released
<1>5. Credited(leaf, amount) \in Leaf
  BY <1>1, WrapType DEF Credited, Plus, Leaf
<1>6. \A s \in Keys, b \in BlsKeys : Rekeyed(leaf, s, b, fee) \in Leaf
  <2> TAKE s \in Keys, b \in BlsKeys
  <2> DEFINE m == Minus(leaf.Amount, fee)
             c == Plus(leaf.Counter, 1)
  <2>1. m \in UInt32 /\ c \in UInt32
    BY <1>1, WrapType DEF Minus, Plus
  <2> HIDE DEF m, c
  <2>2. [leaf EXCEPT !.Amount = m, !.schnorr = s, !.bls = b, !.Counter = c] \in Leaf
    BY <2>1 DEF Leaf
  <2> QED
    BY <2>2 DEF Rekeyed, m, c
<1>7. \A s \in Keys, b \in BlsKeys : NewLeaf(amount, s, b) \in Leaf
  BY WordAssumption DEF NewLeaf, UInt32, Leaf
<1>8. \A st \in States \cup {NoState}, n \in Nat : Settled(leaf, n, amount, fee, st) \in Leaf
  <2> TAKE st \in States \cup {NoState}, n \in Nat
  <2>1. n * (amount + fee) \in Int
    BY <1>1
  <2>2. Wrap(leaf.Amount - n * (amount + fee)) \in UInt32
    BY <1>1, <2>1, WrapType
  <2> QED
    BY <2>2, UpdatedType DEF Settled
<1>9. \A p \in Seq(Addresses) : BatchCredited(leaf, p, amount, fee) \in Leaf
  <2> TAKE p \in Seq(Addresses)
  <2>1. amount * Len(p) \in Int
    BY <1>1
  <2>2. Wrap(leaf.Amount + amount * Len(p) - fee) \in UInt32
    BY <1>1, <2>1, WrapType
  <2> QED
    BY <2>2 DEF BatchCredited, Leaf
<1> QED
  BY <1>3, <1>4, <1>5, <1>6, <1>7, <1>8, <1>9

-----------------------------------------------------------------------------
(***************************************************************************)
(* The cache.                                                              *)
(***************************************************************************)

\* Fetching leaves the cache good and brings in whatever is found.
LEMMA FetchedGood ==
    ASSUME AccountsInv, NEW A
    PROVE  /\ GoodCache(Fetched(A))
           /\ \A a \in A : Found(a) => a \in DOMAIN Fetched(A)
<1> USE DEF AccountsInv, AccountsTypeOK, CacheCoherent, CredentialsAreCommitted
<1>1. DOMAIN Fetched(A) = DOMAIN tempAccountMap \cup (A \cap DOMAIN accountTree)
  BY DEF Fetched
<1>2. ASSUME NEW a \in DOMAIN Fetched(A)
      PROVE  /\ Fetched(A)[a] \in CachedAccount
             /\ ~Fetched(A)[a].Modified => Fetched(A)[a].now = accountTree[a]
             /\ Fetched(A)[a].schnorrPubKey = accountTree[a].schnorr
             /\ Fetched(A)[a].counter = accountTree[a].Counter
  <2>1. Fetched(A)[a] = fetchAccount(a)
    BY <1>1 DEF Fetched
  <2>2. CASE a \in DOMAIN tempAccountMap
    BY <2>1, <2>2 DEF fetchAccount, IsMap
  <2>3. CASE a \notin DOMAIN tempAccountMap
    <3>1. accountTree[a] \in Leaf
      BY <1>1, <2>3 DEF IsMap
    <3>2. Fetched(A)[a] = FromTree(accountTree[a])
      BY <2>1, <2>3 DEF fetchAccount
    <3> QED
      BY <3>1, <3>2 DEF FromTree, Leaf, CachedAccount
  <2> QED
    BY <2>2, <2>3
<1>3. DOMAIN Fetched(A) \subseteq DOMAIN accountTree
  BY <1>1
<1>4. IsMap(Fetched(A), Addresses, CachedAccount)
  <2>1. DOMAIN Fetched(A) \subseteq Addresses
    BY <1>3 DEF IsMap
  <2>2. Fetched(A) = [a \in DOMAIN Fetched(A) |-> Fetched(A)[a]]
    BY DEF Fetched
  <2> QED
    BY <1>2, <2>1, <2>2 DEF IsMap
<1>5. \A a \in A : Found(a) => a \in DOMAIN Fetched(A)
  BY <1>1, <1>3 DEF Found
<1> QED
  BY <1>2, <1>3, <1>4, <1>5 DEF GoodCache

\* writeAccount on one entry leaves the cache good.
LEMMA WriteGood ==
    ASSUME NEW c, GoodCache(c), NEW a \in DOMAIN c, NEW leaf \in Leaf
    PROVE  LET d == [c EXCEPT ![a] = writeAccount(c[a], leaf)]
           IN  GoodCache(d) /\ DOMAIN d = DOMAIN c /\ d[a].now = leaf
<1> DEFINE w == writeAccount(c[a], leaf)
           d == [c EXCEPT ![a] = w]
<1>1. c[a] \in CachedAccount
  BY DEF GoodCache, IsMap
<1>2. /\ w \in CachedAccount
      /\ w.Modified = TRUE
      /\ w.now = leaf
      /\ w.schnorrPubKey = c[a].schnorrPubKey
      /\ w.counter = c[a].counter
  BY <1>1 DEF writeAccount, CachedAccount
<1> HIDE DEF w
<1>3. /\ DOMAIN d = DOMAIN c
      /\ d[a] = w
      /\ \A x \in DOMAIN c : x # a => d[x] = c[x]
  OBVIOUS
<1>4. IsMap(d, Addresses, CachedAccount)
  BY <1>2, <1>3 DEF GoodCache, IsMap
<1>5. GoodCache(d)
  BY <1>2, <1>3, <1>4 DEF GoodCache
<1> QED
  BY <1>2, <1>3, <1>5 DEF w

\* A step that touches only the cache, and leaves it good, keeps the invariant.
LEMMA CacheStep ==
    ASSUME AccountsInv, GoodCache(tempAccountMap'),
           UNCHANGED <<accountTree, tempNewAccountMap, accountNumOnDb,
                       accountLedgerDb, accountWatch>>
    PROVE  AccountsInv'
BY DEF AccountsInv, AccountsTypeOK, AddressesDense, CacheCoherent,
       CredentialsAreCommitted, IndexTargetsExist, GoodCache

\* A cached record is a record.
LEMMA NowType ==
    ASSUME NEW c, GoodCache(c), NEW a \in DOMAIN c
    PROVE  c[a].now \in Leaf
BY DEF GoodCache, IsMap, CachedAccount

-----------------------------------------------------------------------------
(***************************************************************************)
(* One lemma per handler.                                                  *)
(***************************************************************************)

LEMMA FetchStep ==
    ASSUME AccountsInv, NEW A, Fetch(A)
    PROVE  AccountsInv'
<1>1. GoodCache(tempAccountMap')
  BY FetchedGood DEF Fetch
<1> QED
  BY <1>1, CacheStep DEF Fetch

LEMMA ExecUpdateStep ==
    ASSUME AccountsInv, NEW s \in Addresses, NEW T \in SUBSET Addresses,
           NEW amount \in UInt32, NEW fee \in UInt32, NEW st \in States \cup {NoState},
           ExecUpdate(s, T, amount, fee, st)
    PROVE  AccountsInv'
<1> DEFINE c == Fetched({s} \cup T)
           leaf == Debited(c[s].now, amount, fee, st)
<1>1. GoodCache(c) /\ s \in DOMAIN c
  BY FetchedGood DEF ExecUpdate, verifyAccounts
<1>2. tempAccountMap' = [c EXCEPT ![s] = writeAccount(c[s], leaf)]
  BY DEF ExecUpdate
<1> HIDE DEF c
<1>3. leaf \in Leaf
  BY <1>1, NowType, LeafOps
<1> HIDE DEF leaf
<1>4. GoodCache(tempAccountMap')
  BY <1>1, <1>2, <1>3, WriteGood
<1> QED
  BY <1>4, CacheStep DEF ExecUpdate

LEMMA TransferStep ==
    ASSUME AccountsInv, NEW s \in Addresses, NEW t \in Addresses,
           NEW amount \in UInt32, NEW fee \in UInt32, NEW st \in States \cup {NoState},
           ExecTransfer(s, t, amount, fee, st)
    PROVE  AccountsInv'
<1> DEFINE c == Fetched({s, t})
           paid == [c EXCEPT ![s] = writeAccount(c[s], Debited(c[s].now, amount, fee, st))]
           leaf == Credited(paid[t].now, amount)
<1>1. GoodCache(c) /\ s \in DOMAIN c /\ t \in DOMAIN c
  BY FetchedGood DEF ExecTransfer, verifyAccounts
<1>2. tempAccountMap' = [paid EXCEPT ![t] = writeAccount(paid[t], leaf)]
  BY DEF ExecTransfer
<1> HIDE DEF c
<1>3. Debited(c[s].now, amount, fee, st) \in Leaf
  BY <1>1, NowType, LeafOps
<1>4. GoodCache(paid) /\ t \in DOMAIN paid
  BY <1>1, <1>3, WriteGood
<1> HIDE DEF paid
<1>5. leaf \in Leaf
  BY <1>4, NowType, LeafOps
<1> HIDE DEF leaf
<1>6. GoodCache(tempAccountMap')
  BY <1>2, <1>4, <1>5, WriteGood
<1> QED
  BY <1>6, CacheStep DEF ExecTransfer

LEMMA ExecReleaseStep ==
    ASSUME AccountsInv, NEW s \in Addresses,
           NEW amount \in UInt32, NEW fee \in UInt32,
           ExecRelease(s, amount, fee)
    PROVE  AccountsInv'
<1> DEFINE c == Fetched({s})
           leaf == Released(c[s].now, amount, fee)
<1>1. GoodCache(c) /\ s \in DOMAIN c
  BY FetchedGood DEF ExecRelease, verifyAccounts
<1>2. tempAccountMap' = [c EXCEPT ![s] = writeAccount(c[s], leaf)]
  BY DEF ExecRelease
<1> HIDE DEF c
<1>3. leaf \in Leaf
  BY <1>1, NowType, LeafOps
<1> HIDE DEF leaf
<1>4. GoodCache(tempAccountMap')
  BY <1>1, <1>2, <1>3, WriteGood
<1> QED
  BY <1>4, CacheStep DEF ExecRelease

LEMMA KeyChangeStep ==
    ASSUME AccountsInv, NEW s \in Addresses, NEW fee \in UInt32,
           NEW key \in Keys, NEW b \in BlsKeys,
           ExecAccountKeyChanger(s, key, b, fee)
    PROVE  AccountsInv'
<1> DEFINE c == Fetched({s})
           leaf == Rekeyed(c[s].now, key, b, fee)
<1>1. GoodCache(c) /\ s \in DOMAIN c
  BY FetchedGood DEF ExecAccountKeyChanger, verifyAccounts
<1>2. tempAccountMap' = [c EXCEPT ![s] = writeAccount(c[s], leaf)]
  BY DEF ExecAccountKeyChanger
<1> HIDE DEF c
<1>3. leaf \in Leaf
  BY <1>1, NowType, LeafOps, WordAssumption DEF UInt32
<1> HIDE DEF leaf
<1>4. GoodCache(tempAccountMap')
  BY <1>1, <1>2, <1>3, WriteGood
<1> QED
  BY <1>4, CacheStep DEF ExecAccountKeyChanger

\* A new address extends both the range of the pending addresses and the
\* counter of addresses by one.
LEMMA CreateStep ==
    ASSUME AccountsInv, NEW s \in Addresses, NEW amount \in UInt32, NEW fee \in UInt32,
           NEW key \in Keys, NEW b \in BlsKeys,
           ExecCreateAccount(s, amount, fee, key, b)
    PROVE  AccountsInv'
<1> DEFINE c == Fetched({s})
           leaf == Debited(c[s].now, amount, fee, NoState)
           n == Cardinality(DOMAIN accountTree)
<1>1. GoodCache(c) /\ s \in DOMAIN c
  BY FetchedGood DEF ExecCreateAccount, verifyAccounts
<1>2. tempAccountMap' = [c EXCEPT ![s] = writeAccount(c[s], leaf)]
  BY DEF ExecCreateAccount
<1> HIDE DEF c
<1>3. leaf \in Leaf
  BY <1>1, NowType, LeafOps
<1> HIDE DEF leaf
<1>4. GoodCache(tempAccountMap')
  BY <1>1, <1>2, <1>3, WriteGood
<1>5. UNCHANGED <<accountTree, accountLedgerDb, accountWatch>>
  BY DEF ExecCreateAccount
<1>6. NewLeaf(amount, key, b) \in Leaf
  <2>1. NewLeaf(amount, key, b).Amount \in UInt32
    BY DEF NewLeaf
  <2> QED
    BY <2>1, WordAssumption DEF NewLeaf, Leaf, UInt32
<1>7. /\ accountNumOnDb \in Addresses
      /\ accountNumOnDb' = accountNumOnDb + 1
      /\ DOMAIN tempNewAccountMap' = DOMAIN tempNewAccountMap \cup {accountNumOnDb}
  BY DEF ExecCreateAccount
<1>8. IsMap(tempNewAccountMap', Addresses, Leaf)
  BY <1>6, <1>7 DEF ExecCreateAccount, IsMap, AccountsInv, AccountsTypeOK
<1>9. AddressesDense'
  <2>1. n \in Nat
    <3>1. DOMAIN accountTree = 0 .. n - 1 /\ DOMAIN accountTree \subseteq Addresses
      BY DEF AccountsInv, AddressesDense, AccountsTypeOK, IsMap
    <3>2. IsFiniteSet(Addresses)
      BY AccountsAssumption, FS_Interval DEF Addresses
    <3>3. IsFiniteSet(DOMAIN accountTree)
      BY <3>1, <3>2, FS_Subset
    <3> QED
      BY <3>3, FS_CardinalityType
  <2>2. DOMAIN tempNewAccountMap = n .. accountNumOnDb - 1 /\ n <= accountNumOnDb
    BY DEF AccountsInv, AddressesDense
  <2>3. DOMAIN tempNewAccountMap' = n .. accountNumOnDb' - 1 /\ n <= accountNumOnDb'
    BY <1>7, <2>1, <2>2, AccountsAssumption DEF Addresses
  <2> QED
    BY <1>5, <2>3 DEF AccountsInv, AddressesDense
<1>10. AccountsTypeOK'
  <2>1. accountNumOnDb' \in 0 .. MaxAccounts
    BY <1>7, AccountsAssumption DEF Addresses
  <2> QED
    BY <1>4, <1>5, <1>8, <2>1 DEF AccountsInv, AccountsTypeOK, GoodCache
<1> QED
  BY <1>4, <1>5, <1>9, <1>10 DEF AccountsInv, CacheCoherent, CredentialsAreCommitted,
     IndexTargetsExist, GoodCache

LEMMA BatchStep ==
    ASSUME AccountsInv, NEW s \in Addresses, NEW p \in Seq(Addresses), NEW tail \in BOOLEAN,
           NEW amount \in UInt32, NEW fee \in UInt32, NEW st \in States \cup {NoState},
           ExecBatch(s, p, tail, amount, fee, st)
    PROVE  AccountsInv'
<1> DEFINE members == BatchMembers(p, tail)
           c == Fetched({s} \cup {members[i] : i \in DOMAIN members})
           n(a) == Occurrences(members, a)
           put(a) == writeAccount(c[a], Settled(c[a].now, n(a), amount, fee, st))
           settled == [a \in DOMAIN c |-> IF n(a) = 0 THEN c[a] ELSE put(a)]
           leaf == BatchCredited(settled[s].now, p, amount, fee)
<1>1. GoodCache(c) /\ s \in DOMAIN c
  BY FetchedGood DEF ExecBatch, verifyAccounts
<1>2. tempAccountMap' = [settled EXCEPT ![s] = writeAccount(settled[s], leaf)]
  BY DEF ExecBatch
<1>3. members \in Seq(Addresses)
  BY BatchMembersType
<1>4. \A a : n(a) \in Nat
  BY <1>3, OccurrencesType
<1> HIDE DEF members, c, n
<1>5. GoodCache(settled) /\ s \in DOMAIN settled
  <2>1. ASSUME NEW a \in DOMAIN c
        PROVE  /\ settled[a] \in CachedAccount
               /\ ~settled[a].Modified => settled[a].now = accountTree[a]
               /\ settled[a].schnorrPubKey = accountTree[a].schnorr
               /\ settled[a].counter = accountTree[a].Counter
    <3>1. /\ c[a] \in CachedAccount
          /\ ~c[a].Modified => c[a].now = accountTree[a]
          /\ c[a].schnorrPubKey = accountTree[a].schnorr
          /\ c[a].counter = accountTree[a].Counter
      BY <1>1 DEF GoodCache, IsMap
    <3>2. Settled(c[a].now, n(a), amount, fee, st) \in Leaf
      BY <1>1, <1>4, NowType, LeafOps
    <3>3. /\ put(a) \in CachedAccount
          /\ put(a).Modified
          /\ put(a).schnorrPubKey = c[a].schnorrPubKey
          /\ put(a).counter = c[a].counter
      BY <3>1, <3>2 DEF writeAccount, CachedAccount
    <3> HIDE DEF put
    <3> QED
      BY <3>1, <3>3
  <2>2. DOMAIN settled = DOMAIN c
    OBVIOUS
  <2>3. settled = [a \in DOMAIN settled |-> settled[a]]
    OBVIOUS
  <2> HIDE DEF settled
  <2>4. IsMap(settled, Addresses, CachedAccount)
    BY <1>1, <2>1, <2>2, <2>3 DEF GoodCache, IsMap
  <2> QED
    BY <1>1, <2>1, <2>2, <2>4 DEF GoodCache
<1> HIDE DEF settled
<1>6. leaf \in Leaf
  BY <1>3, <1>5, NowType, LeafOps
<1> HIDE DEF leaf
<1>7. GoodCache(tempAccountMap')
  BY <1>2, <1>5, <1>6, WriteGood
<1> QED
  BY <1>7, CacheStep DEF ExecBatch

\* The commit turns the pending addresses into committed ones, and empties the
\* cache.
LEMMA CommitAccountsStep ==
    ASSUME AccountsInv, CommitAccounts
    PROVE  AccountsInv'
<1> DEFINE n == Cardinality(DOMAIN accountTree)
<1>1. /\ DOMAIN accountTree = 0 .. n - 1
      /\ DOMAIN tempNewAccountMap = n .. accountNumOnDb - 1
      /\ n <= accountNumOnDb
      /\ accountNumOnDb \in Nat
  BY AccountsAssumption DEF AccountsInv, AddressesDense, AccountsTypeOK
<1>2. n \in Nat
  <2>1. IsFiniteSet(Addresses)
    BY AccountsAssumption, FS_Interval DEF Addresses
  <2>2. IsFiniteSet(DOMAIN accountTree)
    BY <2>1, FS_Subset DEF AccountsInv, AccountsTypeOK, IsMap
  <2> QED
    BY <2>2, FS_CardinalityType
<1>3. DOMAIN accountTree' = 0 .. accountNumOnDb - 1
  <2>1. DOMAIN accountTree' = DOMAIN accountTree \cup DOMAIN tempNewAccountMap
    BY DEF CommitAccounts, CommittedTree
  <2> QED
    BY <1>1, <1>2, <2>1
<1>4. Cardinality(DOMAIN accountTree') = accountNumOnDb
  BY <1>1, <1>3, FS_Interval
<1>5. accountNumOnDb' = accountNumOnDb
  BY <1>4 DEF CommitAccounts
<1>6. IsMap(accountTree', Addresses, Leaf)
  <2>1. DOMAIN accountTree' \subseteq Addresses
    BY <1>1, <1>3, AccountsAssumption DEF AccountsInv, AccountsTypeOK, Addresses
  <2>2. ASSUME NEW a \in DOMAIN accountTree \cup DOMAIN tempNewAccountMap
        PROVE  CommittedTree[a] \in Leaf
    <3>1. CASE a \notin DOMAIN accountTree
      <4>1. tempNewAccountMap[a] \in Leaf
        BY <3>1 DEF AccountsInv, AccountsTypeOK, IsMap
      <4>2. CommittedTree[a] = tempNewAccountMap[a]
        BY <3>1 DEF CommittedTree, AccountsInv, CacheCoherent
      <4> QED
        BY <4>1, <4>2
    <3>2. CASE a \in DOMAIN accountTree /\ a \in DOMAIN tempAccountMap /\ tempAccountMap[a].Modified
      <4>1. tempAccountMap[a].now \in Leaf
        BY <3>2 DEF AccountsInv, AccountsTypeOK, IsMap, CachedAccount
      <4> QED
        BY <3>2, <4>1 DEF CommittedTree
    <3>3. CASE a \in DOMAIN accountTree /\ ~(a \in DOMAIN tempAccountMap /\ tempAccountMap[a].Modified)
      <4>1. accountTree[a] \in Leaf
        BY <3>3 DEF AccountsInv, AccountsTypeOK, IsMap
      <4> QED
        BY <3>3, <4>1 DEF CommittedTree
    <3> QED
      BY <3>1, <3>2, <3>3
  <2>3. accountTree' = CommittedTree
    BY DEF CommitAccounts
  <2>4. CommittedTree = [a \in DOMAIN accountTree \cup DOMAIN tempNewAccountMap |-> CommittedTree[a]]
    BY DEF CommittedTree
  <2> QED
    BY <2>1, <2>2, <2>3, <2>4 DEF IsMap
<1>7. tempAccountMap' = EmptyMap /\ tempNewAccountMap' = EmptyMap /\ UNCHANGED accountWatch
  BY DEF CommitAccounts
<1>8. AddressesDense'
  BY <1>1, <1>3, <1>4, <1>5, <1>7 DEF AddressesDense, EmptyMap
<1>9. PICK index \in [DOMAIN accountLedgerDb \cup {e[1] : e \in NewIndexEntries} -> Addresses] :
        /\ \A b \in DOMAIN index :
             IF \E e \in NewIndexEntries : e[1] = b
             THEN <<b, index[b]>> \in NewIndexEntries
             ELSE index[b] = accountLedgerDb[b]
        /\ accountLedgerDb' = index
  BY DEF CommitAccounts
<1>10. \A e \in NewIndexEntries : e[1] \in BlsKeys /\ e[2] \in DOMAIN accountTree'
  <2>1. SUFFICES ASSUME NEW a \in DOMAIN tempNewAccountMap
                 PROVE  tempNewAccountMap[a].bls \in BlsKeys /\ a \in DOMAIN accountTree'
    BY DEF NewIndexEntries
  <2>2. tempNewAccountMap[a] \in Leaf
    BY DEF AccountsInv, AccountsTypeOK, IsMap
  <2>3. a \in DOMAIN accountTree'
    BY DEF CommitAccounts, CommittedTree
  <2> QED
    BY <2>2, <2>3 DEF Leaf
<1>11. IsMap(accountLedgerDb', BlsKeys, Addresses)
  BY <1>9, <1>10 DEF AccountsInv, AccountsTypeOK, IsMap
<1>12. IndexTargetsExist'
  <2>1. SUFFICES ASSUME NEW b \in DOMAIN index
                 PROVE  index[b] \in DOMAIN accountTree'
    BY <1>9 DEF IndexTargetsExist
  <2>2. CASE \E e \in NewIndexEntries : e[1] = b
    <3>1. <<b, index[b]>> \in NewIndexEntries
      BY <1>9, <2>2
    <3> QED
      BY <1>10, <3>1
  <2>3. CASE ~\E e \in NewIndexEntries : e[1] = b
    <3>1. b \in DOMAIN accountLedgerDb /\ index[b] = accountLedgerDb[b]
      <4>1. DOMAIN index = DOMAIN accountLedgerDb \cup {e[1] : e \in NewIndexEntries}
        OBVIOUS
      <4>2. b \notin {e[1] : e \in NewIndexEntries}
        BY <2>3
      <4> QED
        BY <1>9, <2>3, <4>1, <4>2
    <3>2. index[b] \in DOMAIN accountTree
      BY <3>1 DEF AccountsInv, IndexTargetsExist
    <3> QED
      BY <3>2 DEF CommitAccounts, CommittedTree
  <2> QED
    BY <2>2, <2>3
<1>13. AccountsTypeOK'
  BY <1>5, <1>6, <1>7, <1>11 DEF AccountsInv, AccountsTypeOK, IsMap, EmptyMap
<1> QED
  BY <1>7, <1>8, <1>12, <1>13 DEF AccountsInv, CacheCoherent, CredentialsAreCommitted, EmptyMap

-----------------------------------------------------------------------------
(***************************************************************************)
(* The invariant.                                                          *)
(***************************************************************************)

\* NewApp leaves the store with the template accounts and an empty cache.
LEMMA InitInv == AccountsInit => AccountsInv
<1> SUFFICES ASSUME AccountsInit PROVE AccountsInv
  OBVIOUS
<1> USE DEF AccountsInit
<1>1. PICK n \in 0 .. MaxAccounts : DOMAIN Genesis = 0 .. n - 1
  BY GenesisAssumption
<1>2. n \in Nat /\ Cardinality(DOMAIN Genesis) = n
  BY <1>1, FS_Interval, AccountsAssumption
<1>3. AccountsTypeOK
  <2>1. accountNumOnDb \in 0 .. MaxAccounts
    BY <1>1, <1>2, AccountsAssumption
  <2>2. DOMAIN accountLedgerDb \subseteq BlsKeys
    BY GenesisAssumption DEF IsMap, Leaf
  <2> QED
    BY <2>1, <2>2, GenesisAssumption DEF AccountsTypeOK, IsMap, EmptyMap
<1>4. AddressesDense
  BY <1>1, <1>2 DEF AddressesDense, EmptyMap
<1> QED
  BY <1>3, <1>4 DEF AccountsInv, CacheCoherent, CredentialsAreCommitted, IndexTargetsExist, EmptyMap

\* Every step keeps the invariant.
LEMMA NextInv == AccountsInv /\ [AccountsNext]_accountsVars => AccountsInv'
<1> SUFFICES ASSUME AccountsInv, [AccountsNext]_accountsVars PROVE AccountsInv'
  OBVIOUS
<1>1. ASSUME NEW A \in SUBSET Addresses, Fetch(A) PROVE AccountsInv'
  BY <1>1, FetchStep
<1>2. ASSUME NEW s \in Addresses, NEW amount \in TxAmounts, NEW fee \in TxFees,
             NEW st \in States \cup {NoState},
             ExecUpdate(s, {}, amount, fee, st)
      PROVE  AccountsInv'
  BY <1>2, ExecUpdateStep, InputsAssumption
<1>3. ASSUME NEW s \in Addresses, NEW amount \in TxAmounts, NEW fee \in TxFees,
             NEW st \in States \cup {NoState}, NEW t \in Addresses,
             ExecUpdate(s, {t}, amount, fee, st)
      PROVE  AccountsInv'
  BY <1>3, ExecUpdateStep, InputsAssumption
<1>4. ASSUME NEW s \in Addresses, NEW amount \in TxAmounts, NEW fee \in TxFees,
             NEW st \in States \cup {NoState}, NEW t \in Addresses,
             ExecTransfer(s, t, amount, fee, st)
      PROVE  AccountsInv'
  BY <1>4, TransferStep, InputsAssumption
<1>5. ASSUME NEW s \in Addresses, NEW amount \in TxAmounts, NEW fee \in TxFees,
             ExecRelease(s, amount, fee)
      PROVE  AccountsInv'
  BY <1>5, ExecReleaseStep, InputsAssumption
<1>6. ASSUME NEW s \in Addresses, NEW fee \in TxFees, NEW key \in Keys, NEW b \in BlsKeys,
             ExecAccountKeyChanger(s, key, b, fee)
      PROVE  AccountsInv'
  BY <1>6, KeyChangeStep, InputsAssumption
<1>7. ASSUME NEW s \in Addresses, NEW fee \in TxFees, NEW key \in Keys, NEW b \in BlsKeys,
             NEW amount \in TxAmounts, ExecCreateAccount(s, amount, fee, key, b)
      PROVE  AccountsInv'
  BY <1>7, CreateStep, InputsAssumption
<1>8. ASSUME NEW s \in Addresses, NEW p \in Batches, NEW tail \in BOOLEAN,
             NEW amount \in TxAmounts, NEW fee \in TxFees, NEW st \in States,
             ExecBatch(s, p, tail, amount, fee, st)
      PROVE  AccountsInv'
  BY <1>8, BatchStep, InputsAssumption
<1>9. CASE CommitAccounts
  BY <1>9, CommitAccountsStep
<1>10. CASE ToggleAccountWatch
  BY <1>10 DEF ToggleAccountWatch, AccountsInv, AccountsTypeOK, AddressesDense,
     CacheCoherent, CredentialsAreCommitted, IndexTargetsExist
<1>11. ASSUME NEW b \in BlsKeys, FindAccountByPubKey(b) PROVE AccountsInv'
  BY <1>11, FetchStep DEF FindAccountByPubKey
<1>12. CASE UNCHANGED accountsVars
  BY <1>12 DEF accountsVars, AccountsInv, AccountsTypeOK, AddressesDense,
     CacheCoherent, CredentialsAreCommitted, IndexTargetsExist
<1> QED
  BY <1>1, <1>2, <1>3, <1>4, <1>5, <1>6, <1>7, <1>8, <1>9, <1>10, <1>11, <1>12
     DEF AccountsNext

\* The store's invariant: types, dense addresses, a coherent cache, committed
\* credentials and an index into the tree, after every step of every handler.
THEOREM Invariance == AccountsSpec => []AccountsInv
<1>1. AccountsInit => AccountsInv
  BY InitInv
<1>2. AccountsInv /\ [AccountsNext]_accountsVars => AccountsInv'
  BY NextInv
<1> QED
  BY <1>1, <1>2, PTL DEF AccountsSpec

\* Every variable keeps its type in every instance, wraps included.
THEOREM TypeCorrect == AccountsSpec => []AccountsTypeOK
<1>1. AccountsInv => AccountsTypeOK
  BY DEF AccountsInv
<1> QED
  BY <1>1, Invariance, PTL

\* No address is handed out twice or skipped, whatever number of accounts the
\* blocks open.
THEOREM DenseAddresses == AccountsSpec => []AddressesDense
<1>1. AccountsInv => AddressesDense
  BY DEF AccountsInv
<1> QED
  BY <1>1, Invariance, PTL

\* A cached account nobody has written equals the committed one.
THEOREM Coherence == AccountsSpec => []CacheCoherent
<1>1. AccountsInv => CacheCoherent
  BY DEF AccountsInv
<1> QED
  BY <1>1, Invariance, PTL

\* Signatures are checked against the credentials of the last commit.
THEOREM Credentials == AccountsSpec => []CredentialsAreCommitted
<1>1. AccountsInv => CredentialsAreCommitted
  BY DEF AccountsInv
<1> QED
  BY <1>1, Invariance, PTL

\* The BLS index leads to accounts that exist.
THEOREM IndexTargets == AccountsSpec => []IndexTargetsExist
<1>1. AccountsInv => IndexTargetsExist
  BY DEF AccountsInv
<1> QED
  BY <1>1, Invariance, PTL

-----------------------------------------------------------------------------
(***************************************************************************)
(* Accounts implements Ledger: every step of the store with its cache is a *)
(* step of the ledger without one, or none at all.                         *)
(***************************************************************************)
\* The accounts of the running block, seen through a cache c.
LiveOf(c) == [a \in DOMAIN accountTree |->
                IF a \in DOMAIN c THEN c[a].now ELSE accountTree[a]]

LEMMA LiveIsLiveOf == Live = LiveOf(tempAccountMap)
BY DEF Live, LiveOf, fetchAccount, FromTree

\* Fetching shows the same accounts.
LEMMA LiveOfFetched ==
    ASSUME AccountsInv, NEW A
    PROVE  /\ LiveOf(Fetched(A)) = Live
           /\ \A a \in DOMAIN Fetched(A) : Fetched(A)[a].now = Live[a]
<1>1. DOMAIN tempAccountMap \subseteq DOMAIN accountTree
  BY DEF AccountsInv, CacheCoherent
<1> QED
  BY <1>1 DEF LiveOf, Live, Fetched, fetchAccount, FromTree

\* Writing one entry of a cache changes that account and no other.
LEMMA LiveOfWrite ==
    ASSUME NEW c, GoodCache(c), NEW a \in DOMAIN c, NEW leaf
    PROVE  LiveOf([c EXCEPT ![a] = writeAccount(c[a], leaf)])
             = [LiveOf(c) EXCEPT ![a] = leaf]
<1> DEFINE w == writeAccount(c[a], leaf)
<1>1. w.now = leaf
  BY DEF GoodCache, IsMap, CachedAccount, writeAccount
<1> HIDE DEF w
<1>2. a \in DOMAIN accountTree
  BY DEF GoodCache
<1>3. LiveOf([c EXCEPT ![a] = w]) = [LiveOf(c) EXCEPT ![a] = leaf]
  BY <1>1, <1>2 DEF LiveOf
<1> QED
  BY <1>3 DEF w

LEMMA LivePrimed ==
    ASSUME UNCHANGED accountTree
    PROVE  Live' = LiveOf(tempAccountMap')
BY DEF Live, LiveOf, fetchAccount, FromTree

\* What a handler reads of an account it has fetched.
LEMMA FetchedNow ==
    ASSUME AccountsInv, NEW A, NEW a \in A, Found(a)
    PROVE  /\ a \in DOMAIN Fetched(A)
           /\ a \in DOMAIN Live
           /\ Fetched(A)[a].now = Live[a]
           /\ fetchAccount(a).now = Live[a]
<1>1. a \in DOMAIN Fetched(A) /\ GoodCache(Fetched(A))
  BY FetchedGood
<1>2. a \in DOMAIN accountTree
  BY <1>1 DEF GoodCache
<1> QED
  BY <1>1, <1>2, LiveOfFetched DEF Live

\* The ledger computes with the same records.
LEMMA SameRecords ==
    /\ \A m, n : Abstract!Plus(m, n) = Plus(m, n)
    /\ \A l, m, n, st : Abstract!Updated(l, m, n, st) = Updated(l, m, n, st)
    /\ \A l, m, f, st : Abstract!Debited(l, m, f, st) = Debited(l, m, f, st)
    /\ \A l, m, f : Abstract!Released(l, m, f) = Released(l, m, f)
    /\ \A l, m : Abstract!Credited(l, m) = Credited(l, m)
    /\ \A l, s, b, f : Abstract!Rekeyed(l, s, b, f) = Rekeyed(l, s, b, f)
    /\ \A m, s, b : Abstract!NewLeaf(m, s, b) = NewLeaf(m, s, b)
    /\ \A l, n, m, f, st : Abstract!Settled(l, n, m, f, st) = Settled(l, n, m, f, st)
    /\ \A l, p, m, f : Abstract!BatchCredited(l, p, m, f) = BatchCredited(l, p, m, f)
    /\ \A p, tail : Abstract!BatchMembers(p, tail) = BatchMembers(p, tail)
    /\ \A p, a : Abstract!Occurrences(p, a) = Occurrences(p, a)
    /\ \A S : Abstract!Cardinality(S) = Cardinality(S)
    /\ Abstract!Addresses = Addresses
<1>1. /\ \A m, n : Abstract!Plus(m, n) = Plus(m, n)
      /\ \A m, n : Abstract!Minus(m, n) = Minus(m, n)
      /\ \A m : Abstract!Wrap(m) = Wrap(m)
  BY DEF Abstract!Plus, Plus, Abstract!Minus, Minus, Abstract!Wrap, Wrap
<1>2. \A l, m, n, st : Abstract!Updated(l, m, n, st) = Updated(l, m, n, st)
  BY <1>1 DEF Abstract!Updated, Updated
<1>3. \A l, m, f, st : Abstract!Debited(l, m, f, st) = Debited(l, m, f, st)
  BY <1>1, <1>2 DEF Abstract!Debited, Debited
<1>4. \A l, m, f : Abstract!Released(l, m, f) = Released(l, m, f)
  BY <1>1, <1>2 DEF Abstract!Released, Released
<1>5. \A l, m : Abstract!Credited(l, m) = Credited(l, m)
  BY <1>1 DEF Abstract!Credited, Credited
<1>6. \A l, s, b, f : Abstract!Rekeyed(l, s, b, f) = Rekeyed(l, s, b, f)
  BY <1>1 DEF Abstract!Rekeyed, Rekeyed
<1>7. \A m, s, b : Abstract!NewLeaf(m, s, b) = NewLeaf(m, s, b)
  BY DEF Abstract!NewLeaf, NewLeaf
<1>8. \A l, n, m, f, st : Abstract!Settled(l, n, m, f, st) = Settled(l, n, m, f, st)
  BY <1>1, <1>2 DEF Abstract!Settled, Settled
<1>9. \A l, p, m, f : Abstract!BatchCredited(l, p, m, f) = BatchCredited(l, p, m, f)
  BY <1>1 DEF Abstract!BatchCredited, BatchCredited
<1>10. \A p, tail : Abstract!BatchMembers(p, tail) = BatchMembers(p, tail)
  BY DEF Abstract!BatchMembers, BatchMembers
<1>13. \A S : Abstract!Cardinality(S) = Cardinality(S)
  BY DEF Abstract!Cardinality, Cardinality
<1>11. \A p, a : Abstract!Occurrences(p, a) = Occurrences(p, a)
  BY <1>13 DEF Abstract!Occurrences, Occurrences
<1>12. Abstract!Addresses = Addresses
  BY DEF Abstract!Addresses, Addresses
<1> QED
  BY <1>1, <1>2, <1>3, <1>4, <1>5, <1>6, <1>7, <1>8, <1>9, <1>10, <1>11, <1>12, <1>13

-----------------------------------------------------------------------------
(***************************************************************************)
(* One lemma per handler.                                                  *)
(***************************************************************************)

\* The balance test of the handler is that of the ledger.
LEMMA CanPayRefines ==
    ASSUME AccountsInv, NEW s, NEW T, NEW amount, NEW fee, verifyAccounts(s, T, amount, fee)
    PROVE  Abstract!CanPay(s, amount, fee)
<1>1. Found(s)
  BY DEF verifyAccounts
<1>2. s \in DOMAIN Live /\ fetchAccount(s).now = Live[s]
  BY <1>1, FetchedNow
<1> QED
  BY <1>2, SameRecords DEF verifyAccounts, Abstract!CanPay

LEMMA FetchRefines ==
    ASSUME AccountsInv, NEW A, Fetch(A)
    PROVE  UNCHANGED <<accountTree, Live, tempNewAccountMap>>
BY LiveOfFetched, LivePrimed DEF Fetch

\* A handler that fetches some accounts and writes one of them changes that
\* account of the ledger.
LEMMA WriteRefines ==
    ASSUME AccountsInv, NEW A, NEW s \in A, Found(s), NEW leaf, UNCHANGED accountTree,
           tempAccountMap' = [Fetched(A) EXCEPT ![s] = writeAccount(Fetched(A)[s], leaf)]
    PROVE  Live' = [Live EXCEPT ![s] = leaf]
<1>1. s \in DOMAIN Fetched(A) /\ GoodCache(Fetched(A))
  BY FetchedGood
<1>2. LiveOf(Fetched(A)) = Live
  BY LiveOfFetched
<1>3. LiveOf(tempAccountMap') = [Live EXCEPT ![s] = leaf]
  BY <1>1, <1>2, LiveOfWrite
<1> QED
  BY <1>3, LivePrimed

LEMMA UpdateRefines ==
    ASSUME AccountsInv, NEW s \in Addresses, NEW T, NEW amount, NEW fee, NEW st,
           ExecUpdate(s, T, amount, fee, st)
    PROVE  Abstract!Update(s, amount, fee, st)
<1> DEFINE A == {s} \cup T
<1>1. Found(s) /\ Abstract!CanPay(s, amount, fee)
  BY CanPayRefines DEF ExecUpdate, verifyAccounts
<1>2. Fetched(A)[s].now = Live[s]
  BY <1>1, FetchedNow
<1>3. Live' = [Live EXCEPT ![s] = Debited(Fetched(A)[s].now, amount, fee, st)]
  BY <1>1, WriteRefines DEF ExecUpdate
<1> QED
  BY <1>1, <1>2, <1>3, SameRecords DEF ExecUpdate, Abstract!Update

LEMMA ReleaseRefines ==
    ASSUME AccountsInv, NEW s \in Addresses, NEW amount, NEW fee,
           ExecRelease(s, amount, fee)
    PROVE  Abstract!Release(s, amount, fee)
<1>1. Found(s) /\ Abstract!CanPay(s, 0, fee)
  BY CanPayRefines DEF ExecRelease, verifyAccounts
<1>2. Fetched({s})[s].now = Live[s]
  BY <1>1, FetchedNow
<1>3. Live' = [Live EXCEPT ![s] = Released(Fetched({s})[s].now, amount, fee)]
  BY <1>1, WriteRefines DEF ExecRelease
<1> QED
  BY <1>1, <1>2, <1>3, SameRecords DEF ExecRelease, Abstract!Release

LEMMA KeyChangeRefines ==
    ASSUME AccountsInv, NEW s \in Addresses, NEW key, NEW b, NEW fee,
           ExecAccountKeyChanger(s, key, b, fee)
    PROVE  Abstract!ChangeKeys(s, key, b, fee)
<1>1. Found(s) /\ Abstract!CanPay(s, 0, fee)
  BY CanPayRefines DEF ExecAccountKeyChanger, verifyAccounts
<1>2. Fetched({s})[s].now = Live[s]
  BY <1>1, FetchedNow
<1>3. Live' = [Live EXCEPT ![s] = Rekeyed(Fetched({s})[s].now, key, b, fee)]
  BY <1>1, WriteRefines DEF ExecAccountKeyChanger
<1> QED
  BY <1>1, <1>2, <1>3, SameRecords DEF ExecAccountKeyChanger, Abstract!ChangeKeys

\* The second write of a transfer sees the first, when the source pays itself too.
LEMMA TransferRefines ==
    ASSUME AccountsInv, NEW s \in Addresses, NEW t \in Addresses,
           NEW amount \in UInt32, NEW fee \in UInt32, NEW st \in States \cup {NoState},
           ExecTransfer(s, t, amount, fee, st)
    PROVE  Abstract!Transfer(s, t, amount, fee, st)
<1> DEFINE c == Fetched({s, t})
           debited == Debited(c[s].now, amount, fee, st)
           paid == [c EXCEPT ![s] = writeAccount(c[s], debited)]
           credited == Credited(paid[t].now, amount)
           paidLive == [Live EXCEPT ![s] = Debited(Live[s], amount, fee, st)]
<1>1. Found(s) /\ Found(t) /\ Abstract!CanPay(s, amount, fee)
  BY CanPayRefines DEF ExecTransfer, verifyAccounts
<1>2. /\ s \in DOMAIN c /\ t \in DOMAIN c /\ GoodCache(c)
      /\ c[s].now = Live[s] /\ t \in DOMAIN Live /\ s \in DOMAIN Live
      /\ LiveOf(c) = Live
  BY <1>1, FetchedGood, FetchedNow, LiveOfFetched
<1>3. tempAccountMap' = [paid EXCEPT ![t] = writeAccount(paid[t], credited)] /\ UNCHANGED accountTree
  BY DEF ExecTransfer
<1> HIDE DEF c
<1>4. debited \in Leaf
  BY <1>2, NowType, LeafOps
<1>5. LiveOf(paid) = paidLive
  BY <1>2, LiveOfWrite
<1>6. GoodCache(paid) /\ DOMAIN paid = DOMAIN c
  BY <1>2, <1>4, WriteGood
<1> HIDE DEF paid, debited
<1>7. t \in DOMAIN accountTree
  BY <1>2 DEF GoodCache
<1>8. paid[t].now = paidLive[t]
  <2>1. LiveOf(paid)[t] = paid[t].now
    BY <1>2, <1>6, <1>7 DEF LiveOf
  <2> QED
    BY <1>5, <2>1
<1> HIDE DEF paidLive, credited
<1>9. LiveOf(tempAccountMap') = [paidLive EXCEPT ![t] = credited]
  BY <1>2, <1>3, <1>5, <1>6, LiveOfWrite
<1>10. Live' = [paidLive EXCEPT ![t] = Credited(paidLive[t], amount)]
  BY <1>3, <1>8, <1>9, LivePrimed DEF credited
<1> QED
  BY <1>1, <1>2, <1>10, SameRecords DEF ExecTransfer, Abstract!Transfer, paidLive

\* The next address is the number of committed and pending accounts.
LEMMA NextAddress ==
    ASSUME AccountsInv
    PROVE  Cardinality(DOMAIN accountTree \cup DOMAIN tempNewAccountMap) = accountNumOnDb
<1> DEFINE n == Cardinality(DOMAIN accountTree)
<1>1. /\ DOMAIN accountTree = 0 .. n - 1
      /\ DOMAIN tempNewAccountMap = n .. accountNumOnDb - 1
      /\ n <= accountNumOnDb
      /\ accountNumOnDb \in Nat
  BY AccountsAssumption DEF AccountsInv, AddressesDense, AccountsTypeOK
<1>2. n \in Nat
  <2>1. IsFiniteSet(Addresses)
    BY AccountsAssumption, FS_Interval DEF Addresses
  <2>2. IsFiniteSet(DOMAIN accountTree)
    BY <2>1, FS_Subset DEF AccountsInv, AccountsTypeOK, IsMap
  <2> QED
    BY <2>2, FS_CardinalityType
<1> HIDE DEF n
<1>3. DOMAIN accountTree \cup DOMAIN tempNewAccountMap = 0 .. accountNumOnDb - 1
  BY <1>1, <1>2
<1>4. Cardinality(0 .. accountNumOnDb - 1) = accountNumOnDb
  BY <1>1, FS_Interval
<1> QED
  BY <1>3, <1>4

LEMMA CreateRefines ==
    ASSUME AccountsInv, NEW s \in Addresses, NEW amount, NEW fee, NEW key, NEW b,
           ExecCreateAccount(s, amount, fee, key, b)
    PROVE  Abstract!Open(s, amount, fee, key, b)
<1>1. Found(s) /\ Abstract!CanPay(s, amount, fee)
  BY CanPayRefines DEF ExecCreateAccount, verifyAccounts
<1>2. Fetched({s})[s].now = Live[s]
  BY <1>1, FetchedNow
<1>3. Live' = [Live EXCEPT ![s] = Debited(Fetched({s})[s].now, amount, fee, NoState)]
  BY <1>1, WriteRefines DEF ExecCreateAccount
<1>4. Abstract!Cardinality(DOMAIN accountTree \cup DOMAIN tempNewAccountMap) = accountNumOnDb
  BY NextAddress, SameRecords
<1> QED
  BY <1>1, <1>2, <1>3, <1>4, SameRecords DEF ExecCreateAccount, Abstract!Open

\* Participants that were not cached are fetched first; accounts nobody
\* listed, cached or not, stay as they were.
LEMMA BatchRefines ==
    ASSUME AccountsInv, NEW s \in Addresses, NEW p \in Seq(Addresses), NEW tail \in BOOLEAN,
           NEW amount \in UInt32, NEW fee \in UInt32, NEW st \in States \cup {NoState},
           ExecBatch(s, p, tail, amount, fee, st)
    PROVE  Abstract!Settle(s, p, tail, amount, fee, st)
<1> DEFINE members == BatchMembers(p, tail)
           A == {s} \cup {members[i] : i \in DOMAIN members}
           c == Fetched(A)
           n(a) == Occurrences(members, a)
           put(a) == writeAccount(c[a], Settled(c[a].now, n(a), amount, fee, st))
           settled == [a \in DOMAIN c |-> IF n(a) = 0 THEN c[a] ELSE put(a)]
           credited == BatchCredited(settled[s].now, p, amount, fee)
           settledLive == [a \in DOMAIN Live |-> Settled(Live[a], n(a), amount, fee, st)]
<1>1. Found(s) /\ Abstract!CanPay(s, amount, fee)
  <2>1. verifyAccounts(s, {}, amount, fee)
    BY DEF ExecBatch
  <2>2. Found(s)
    BY <2>1 DEF verifyAccounts
  <2>3. Abstract!CanPay(s, amount, fee)
    BY <2>1, CanPayRefines
  <2> QED
    BY <2>2, <2>3
<1>2. /\ s \in DOMAIN c /\ GoodCache(c)
      /\ \A a \in DOMAIN c : c[a].now = Live[a]
      /\ DOMAIN c = DOMAIN tempAccountMap \cup (A \cap DOMAIN accountTree)
      /\ DOMAIN Live = DOMAIN accountTree
  BY <1>1, FetchedGood, LiveOfFetched DEF Fetched, Live
<1>3. tempAccountMap' = [settled EXCEPT ![s] = writeAccount(settled[s], credited)] /\ UNCHANGED accountTree
  BY DEF ExecBatch
<1>4. members \in Seq(Addresses)
  BY BatchMembersType
<1>5. \A a \in DOMAIN accountTree : a \notin DOMAIN c => n(a) = 0
  <2>1. SUFFICES ASSUME NEW a \in DOMAIN accountTree, a \notin DOMAIN c PROVE n(a) = 0
    OBVIOUS
  <2>2. {i \in DOMAIN members : members[i] = a} = {}
    BY <1>2, <2>1
  <2> QED
    BY <2>2, FS_EmptySet DEF Occurrences
<1> HIDE DEF members, A, c, n
<1>6. /\ DOMAIN settled = DOMAIN c
      /\ \A a \in DOMAIN c : settled[a] \in CachedAccount
                          /\ settled[a].now = Settled(Live[a], n(a), amount, fee, st)
  <2>1. DOMAIN settled = DOMAIN c
    OBVIOUS
  <2>2. ASSUME NEW a \in DOMAIN c
        PROVE  settled[a] \in CachedAccount
               /\ settled[a].now = Settled(Live[a], n(a), amount, fee, st)
    <3>1. c[a] \in CachedAccount /\ c[a].now = Live[a] /\ c[a].now \in Leaf
      BY <1>2, NowType DEF GoodCache, IsMap
    <3>2. CASE n(a) = 0
      BY <3>1, <3>2 DEF Settled
    <3>3. CASE n(a) # 0
      <4> DEFINE leaf == Settled(c[a].now, n(a), amount, fee, st)
      <4>1. n(a) \in Nat
        BY <1>4, OccurrencesType DEF n
      <4>2. leaf \in Leaf
        BY <3>1, <4>1, LeafOps
      <4>3. put(a) = writeAccount(c[a], leaf)
        OBVIOUS
      <4> HIDE DEF leaf, put
      <4>4. put(a) \in CachedAccount /\ put(a).now = leaf
        BY <3>1, <4>2, <4>3 DEF writeAccount, CachedAccount
      <4>5. settled[a] = put(a)
        BY <3>3
      <4> QED
        BY <3>1, <4>4, <4>5 DEF leaf
    <3> QED
      BY <3>2, <3>3
  <2> QED
    BY <2>1, <2>2
<1> HIDE DEF settled
<1>7. s \in DOMAIN accountTree /\ settled[s].now = settledLive[s]
  BY <1>2, <1>6 DEF GoodCache
<1>8. Live' = [settledLive EXCEPT ![s] = credited]
  <2> DEFINE w == writeAccount(settled[s], credited)
  <2>1. w.now = credited
    BY <1>2, <1>6 DEF writeAccount, CachedAccount
  <2>2. tempAccountMap' = [settled EXCEPT ![s] = w]
    BY <1>3
  <2> HIDE DEF w, credited
  <2>3. ASSUME NEW a \in DOMAIN accountTree
        PROVE  LiveOf(tempAccountMap')[a] = IF a = s THEN credited ELSE settledLive[a]
    <3>1. CASE a = s
      BY <1>2, <1>6, <2>1, <2>2, <3>1 DEF LiveOf
    <3>2. CASE a # s /\ a \in DOMAIN c
      BY <1>2, <1>6, <2>2, <3>2 DEF LiveOf
    <3>3. CASE a \notin DOMAIN c
      <4>1. Live[a] = accountTree[a]
        BY <1>2, <3>3 DEF Live, fetchAccount, FromTree
      <4>2. settledLive[a] = accountTree[a]
        BY <1>2, <1>5, <3>3, <4>1 DEF Settled
      <4>3. a # s /\ LiveOf(tempAccountMap')[a] = accountTree[a]
        BY <1>2, <1>6, <2>2, <3>3 DEF LiveOf
      <4> QED
        BY <4>2, <4>3
    <3> QED
      BY <3>1, <3>2, <3>3
  <2>4. LiveOf(tempAccountMap') = [a \in DOMAIN accountTree |-> LiveOf(tempAccountMap')[a]]
    BY DEF LiveOf
  <2>5. Live' = LiveOf(tempAccountMap')
    BY <1>3, LivePrimed
  <2>6. DOMAIN settledLive = DOMAIN accountTree
    BY <1>2
  <2> HIDE DEF settledLive
  <2> QED
    BY <1>7, <2>3, <2>4, <2>5, <2>6
<1>9. credited = BatchCredited(settledLive[s], p, amount, fee)
  BY <1>7
<1>10. \A a : Abstract!Occurrences(Abstract!BatchMembers(p, tail), a) = n(a)
  BY SameRecords DEF n, members
<1> HIDE DEF credited
<1> QED
  BY <1>1, <1>8, <1>9, <1>10, SameRecords DEF ExecBatch, Abstract!Settle

\* At the commit the tree takes over what the block did, account by account.
LEMMA CommitRefines ==
    ASSUME AccountsInv, CommitAccounts
    PROVE  Abstract!Commit
<1>1. /\ accountTree' = CommittedTree
      /\ tempAccountMap' = EmptyMap
      /\ tempNewAccountMap' = EmptyMap
  BY DEF CommitAccounts
<1>2. Live' = accountTree'
  <2>1. Live' = [a \in DOMAIN accountTree' |-> accountTree'[a]]
    BY <1>1 DEF Live, fetchAccount, FromTree, EmptyMap
  <2> QED
    BY <1>1, <2>1 DEF CommittedTree
<1>3. DOMAIN Live = DOMAIN accountTree
  BY DEF Live
<1>4. accountTree' = [a \in DOMAIN Live \cup DOMAIN tempNewAccountMap |->
                        IF a \in DOMAIN Live THEN Live[a] ELSE tempNewAccountMap[a]]
  <2>1. ASSUME NEW a \in DOMAIN accountTree \cup DOMAIN tempNewAccountMap
        PROVE  CommittedTree[a] = IF a \in DOMAIN Live THEN Live[a] ELSE tempNewAccountMap[a]
    <3>1. CASE a \in DOMAIN tempAccountMap /\ tempAccountMap[a].Modified
      <4>1. a \in DOMAIN accountTree
        BY <3>1 DEF AccountsInv, CacheCoherent
      <4> QED
        BY <3>1, <4>1 DEF CommittedTree, Live, fetchAccount
    <3>2. CASE a \in DOMAIN tempAccountMap /\ ~tempAccountMap[a].Modified
      <4>1. a \in DOMAIN accountTree /\ tempAccountMap[a].now = accountTree[a]
        BY <3>2 DEF AccountsInv, CacheCoherent
      <4> QED
        BY <3>2, <4>1 DEF CommittedTree, Live, fetchAccount
    <3>3. CASE a \notin DOMAIN tempAccountMap
      BY <3>3 DEF CommittedTree, Live, fetchAccount, FromTree
    <3> QED
      BY <3>1, <3>2, <3>3
  <2> QED
    BY <1>1, <1>3, <2>1 DEF CommittedTree
<1> QED
  BY <1>1, <1>2, <1>4 DEF Abstract!Commit, Abstract!EmptyMap, EmptyMap

-----------------------------------------------------------------------------
(***************************************************************************)
(* The refinement.                                                         *)
(***************************************************************************)
LEMMA InitRefines == AccountsInit => Abstract!LedgerInit
<1> SUFFICES ASSUME AccountsInit PROVE Abstract!LedgerInit
  OBVIOUS
<1>1. Live = [a \in DOMAIN Genesis |-> Genesis[a]]
  BY DEF AccountsInit, Live, fetchAccount, FromTree, EmptyMap
<1>2. Live = Genesis
  BY <1>1, GenesisAssumption DEF IsMap
<1> QED
  BY <1>2 DEF AccountsInit, Abstract!LedgerInit, Abstract!EmptyMap, EmptyMap

LEMMA StepRefines ==
    AccountsInv /\ [AccountsNext]_accountsVars => [Abstract!LedgerNext]_(Abstract!ledgerVars)
<1> SUFFICES ASSUME AccountsInv, [AccountsNext]_accountsVars
             PROVE  Abstract!LedgerNext \/ UNCHANGED <<accountTree, Live, tempNewAccountMap>>
  BY DEF Abstract!ledgerVars
<1> USE SameRecords DEF Abstract!LedgerNext
<1>1. ASSUME NEW A \in SUBSET Addresses, Fetch(A)
      PROVE  UNCHANGED <<accountTree, Live, tempNewAccountMap>>
  BY <1>1, FetchRefines
<1>2. ASSUME NEW s \in Addresses, NEW amount \in TxAmounts, NEW fee \in TxFees,
             NEW st \in States \cup {NoState}, ExecUpdate(s, {}, amount, fee, st)
      PROVE  Abstract!LedgerNext
  BY <1>2, UpdateRefines
<1>11. ASSUME NEW s \in Addresses, NEW amount \in TxAmounts, NEW fee \in TxFees,
             NEW st \in States \cup {NoState}, NEW t \in Addresses,
             ExecUpdate(s, {t}, amount, fee, st)
      PROVE  Abstract!LedgerNext
  BY <1>11, UpdateRefines
<1>3. ASSUME NEW s \in Addresses, NEW amount \in TxAmounts, NEW fee \in TxFees,
             NEW st \in States \cup {NoState}, NEW t \in Addresses,
             ExecTransfer(s, t, amount, fee, st)
      PROVE  Abstract!LedgerNext
  BY <1>3, TransferRefines, InputsAssumption
<1>4. ASSUME NEW s \in Addresses, NEW amount \in TxAmounts, NEW fee \in TxFees,
             ExecRelease(s, amount, fee)
      PROVE  Abstract!LedgerNext
  BY <1>4, ReleaseRefines
<1>5. ASSUME NEW s \in Addresses, NEW fee \in TxFees, NEW key \in Keys, NEW b \in BlsKeys,
             ExecAccountKeyChanger(s, key, b, fee)
      PROVE  Abstract!LedgerNext
  BY <1>5, KeyChangeRefines
<1>6. ASSUME NEW s \in Addresses, NEW fee \in TxFees, NEW key \in Keys, NEW b \in BlsKeys,
             NEW amount \in TxAmounts, ExecCreateAccount(s, amount, fee, key, b)
      PROVE  Abstract!LedgerNext
  BY <1>6, CreateRefines
<1>7. ASSUME NEW s \in Addresses, NEW p \in Batches, NEW tail \in BOOLEAN,
             NEW amount \in TxAmounts, NEW fee \in TxFees, NEW st \in States,
             ExecBatch(s, p, tail, amount, fee, st)
      PROVE  Abstract!LedgerNext
  <2>1. Abstract!Settle(s, p, tail, amount, fee, st)
    BY <1>7, BatchRefines, InputsAssumption
  <2>2. \E u \in Abstract!Addresses, q \in Batches, r \in BOOLEAN, m \in TxAmounts,
           f \in TxFees, x \in States : Abstract!Settle(u, q, r, m, f, x)
    <3> HIDE DEF Abstract!LedgerNext
    <3> QED
      BY <2>1
  <2> QED
    BY <2>2
<1>8. CASE CommitAccounts
  BY <1>8, CommitRefines
<1>9. CASE ToggleAccountWatch \/ UNCHANGED accountsVars
  BY <1>9 DEF ToggleAccountWatch, accountsVars, Live, fetchAccount, FromTree
<1>10. ASSUME NEW b \in BlsKeys, FindAccountByPubKey(b)
       PROVE  UNCHANGED <<accountTree, Live, tempNewAccountMap>>
  BY <1>10, FetchRefines DEF FindAccountByPubKey
<1> HIDE DEF Abstract!LedgerNext
<1> QED
  BY <1>1, <1>2, <1>3, <1>4, <1>5, <1>6, <1>7, <1>8, <1>9, <1>10, <1>11 DEF AccountsNext

\* Cache transparency for every instance: the account store with its caches,
\* write batches and Modified flags implements the ledger that has none.
THEOREM Refinement == AccountsSpec => ImplementsLedger
<1>1. AccountsInit => Abstract!LedgerInit
  BY InitRefines
<1>2. AccountsInv /\ [AccountsNext]_accountsVars => [Abstract!LedgerNext]_(Abstract!ledgerVars)
  BY StepRefines
<1> QED
  BY <1>1, <1>2, Invariance, PTL DEF AccountsSpec, ImplementsLedger, Abstract!LedgerSpec

=============================================================================
