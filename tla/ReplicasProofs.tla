--------------------------- MODULE ReplicasProofs ---------------------------
(***************************************************************************)
(* Proofs about Replicas: two nodes that are given the same blocks agree,  *)
(* whatever one of them is asked to check and queried in between.          *)
(***************************************************************************)
EXTENDS Replicas, AppProofs

(***************************************************************************)
(* The second node's account store.  Its cache is looked at as a cache c   *)
(* over a tree, so that what is proved of c needs no variable.             *)
(***************************************************************************)
Entry(tree, c, a) == IF a \in DOMAIN c THEN c[a] ELSE FromTree(tree[a])

LiveIn(tree, c) == [a \in DOMAIN tree |-> Entry(tree, c, a).now]

\* A cache over the tree: unwritten entries and all credentials are the tree's.
Backed(tree, c) ==
    /\ IsMap(c, DOMAIN tree, CachedAccount)
    /\ \A a \in DOMAIN c :
         /\ c[a].schnorrPubKey = tree[a].schnorr
         /\ c[a].counter = tree[a].Counter
         /\ ~c[a].Modified => c[a].now = tree[a]

FetchIn(tree, c, A) == [a \in DOMAIN c \cup (A \cap DOMAIN tree) |-> Entry(tree, c, a)]

\* Fetching shows the same accounts.
LEMMA FetchInBacked ==
    ASSUME NEW tree, IsMap(tree, Addresses, Leaf), NEW c, Backed(tree, c), NEW A
    PROVE  LET f == FetchIn(tree, c, A) IN
           /\ Backed(tree, f)
           /\ LiveIn(tree, f) = LiveIn(tree, c)
           /\ \A a \in DOMAIN f : f[a].now = LiveIn(tree, c)[a] /\ f[a].now \in Leaf
<1> DEFINE f == FetchIn(tree, c, A)
<1>1. /\ DOMAIN f = DOMAIN c \cup (A \cap DOMAIN tree)
      /\ \A a \in DOMAIN f : f[a] = Entry(tree, c, a)
      /\ f = [a \in DOMAIN f |-> f[a]]
      /\ DOMAIN c \subseteq DOMAIN tree
  BY DEF FetchIn, Backed, IsMap
<1>2. ASSUME NEW a \in DOMAIN f
      PROVE  /\ Entry(tree, c, a) \in CachedAccount
             /\ Entry(tree, c, a).schnorrPubKey = tree[a].schnorr
             /\ Entry(tree, c, a).counter = tree[a].Counter
             /\ ~Entry(tree, c, a).Modified => Entry(tree, c, a).now = tree[a]
  <2>1. CASE a \in DOMAIN c
    BY <2>1 DEF Entry, Backed, IsMap
  <2>2. CASE a \notin DOMAIN c
    <3>1. tree[a] \in Leaf
      BY <1>1, <2>2 DEF IsMap
    <3> QED
      BY <2>2, <3>1 DEF Entry, FromTree, CachedAccount, Leaf
  <2> QED
    BY <2>1, <2>2
<1> HIDE DEF f
<1>3. Backed(tree, f)
  BY <1>1, <1>2 DEF Backed, IsMap
<1>4. \A a \in DOMAIN tree : Entry(tree, f, a).now = Entry(tree, c, a).now
  BY <1>1 DEF Entry
<1>5. \A a \in DOMAIN f : f[a].now = LiveIn(tree, c)[a] /\ f[a].now \in Leaf
  BY <1>1, <1>2 DEF LiveIn, CachedAccount
<1> QED
  BY <1>3, <1>4, <1>5 DEF LiveIn, f

WriteIn(c, a, leaf) == [c EXCEPT ![a] = writeAccount(c[a], leaf)]

\* Writing an entry changes that account and no other.
LEMMA WriteInBacked ==
    ASSUME NEW tree, NEW c, Backed(tree, c), NEW a \in DOMAIN c, NEW leaf \in Leaf
    PROVE  /\ Backed(tree, WriteIn(c, a, leaf))
           /\ LiveIn(tree, WriteIn(c, a, leaf)) = [LiveIn(tree, c) EXCEPT ![a] = leaf]
           /\ DOMAIN WriteIn(c, a, leaf) = DOMAIN c
<1> DEFINE e == writeAccount(c[a], leaf)
           w == WriteIn(c, a, leaf)
<1>1. /\ e \in CachedAccount /\ e.now = leaf /\ e.Modified
      /\ e.schnorrPubKey = c[a].schnorrPubKey /\ e.counter = c[a].counter
  BY DEF Backed, IsMap, CachedAccount, writeAccount
<1>2. w = [c EXCEPT ![a] = e]
  BY DEF WriteIn
<1> HIDE DEF e, w
<1>3. Backed(tree, w)
  BY <1>1, <1>2 DEF Backed, IsMap
<1>4. LiveIn(tree, w) = [LiveIn(tree, c) EXCEPT ![a] = leaf]
  BY <1>1, <1>2 DEF LiveIn, Entry, Backed, IsMap
<1> QED
  BY <1>2, <1>3, <1>4 DEF w

SettleIn(c, W, new) == [a \in DOMAIN c |-> IF a \in W THEN writeAccount(c[a], new[a]) ELSE c[a]]

\* So does writing several: a batch, one entry per participant.
LEMMA SettleInBacked ==
    ASSUME NEW tree, NEW c, Backed(tree, c), NEW W, NEW new, \A a \in DOMAIN c : new[a] \in Leaf
    PROVE  /\ Backed(tree, SettleIn(c, W, new))
           /\ LiveIn(tree, SettleIn(c, W, new))
                = [a \in DOMAIN tree |->
                     IF a \in W \cap DOMAIN c THEN new[a] ELSE LiveIn(tree, c)[a]]
           /\ DOMAIN SettleIn(c, W, new) = DOMAIN c
<1> DEFINE e(a) == writeAccount(c[a], new[a])
           w == SettleIn(c, W, new)
<1>1. ASSUME NEW a \in DOMAIN c
      PROVE  /\ e(a) \in CachedAccount /\ e(a).now = new[a] /\ e(a).Modified
             /\ e(a).schnorrPubKey = c[a].schnorrPubKey /\ e(a).counter = c[a].counter
  BY DEF Backed, IsMap, CachedAccount, writeAccount
<1>2. w = [a \in DOMAIN c |-> IF a \in W THEN e(a) ELSE c[a]]
  BY DEF SettleIn
<1> HIDE DEF e, w
<1>3. Backed(tree, w)
  BY <1>1, <1>2 DEF Backed, IsMap
<1>4. LiveIn(tree, w) = [a \in DOMAIN tree |->
                           IF a \in W \cap DOMAIN c THEN new[a] ELSE LiveIn(tree, c)[a]]
  BY <1>1, <1>2 DEF LiveIn, Entry, Backed, IsMap
<1> QED
  BY <1>2, <1>3, <1>4 DEF w

-----------------------------------------------------------------------------
(***************************************************************************)
(* What the second node computes with are the same operators, where they   *)
(* read no variable.                                                       *)
(***************************************************************************)
LEMMA SecondRecords ==
    /\ \A m, n : B!Plus(m, n) = Plus(m, n) /\ B!Minus(m, n) = Minus(m, n)
    /\ \A m : B!Wrap(m) = Wrap(m)
    /\ \A l, m, f, st : B!Debited(l, m, f, st) = Debited(l, m, f, st)
    /\ \A l, m, f : B!Released(l, m, f) = Released(l, m, f)
    /\ \A l, m : B!Credited(l, m) = Credited(l, m)
    /\ \A l, s, b, f : B!Rekeyed(l, s, b, f) = Rekeyed(l, s, b, f)
    /\ \A m, s, b : B!NewLeaf(m, s, b) = NewLeaf(m, s, b)
    /\ \A l, n, m, f, st : B!Settled(l, n, m, f, st) = Settled(l, n, m, f, st)
    /\ \A l, p, m, f : B!BatchCredited(l, p, m, f) = BatchCredited(l, p, m, f)
    /\ \A p, tail : B!BatchMembers(p, tail) = BatchMembers(p, tail)
    /\ \A p, a : B!Occurrences(p, a) = Occurrences(p, a)
    /\ \A S : B!Cardinality(S) = Cardinality(S)
    /\ \A acc, l : B!writeAccount(acc, l) = writeAccount(acc, l)
    /\ \A l : B!FromTree(l) = FromTree(l)
    /\ B!Addresses = Addresses
<1>1. /\ \A m, n : B!Plus(m, n) = Plus(m, n) /\ B!Minus(m, n) = Minus(m, n)
      /\ \A m : B!Wrap(m) = Wrap(m)
  BY DEF B!Plus, Plus, B!Minus, Minus, B!Wrap, Wrap
<1>2. \A l, m, n, st : B!Updated(l, m, n, st) = Updated(l, m, n, st)
  BY <1>1 DEF B!Updated, Updated
<1>3. \A l, m, f, st : B!Debited(l, m, f, st) = Debited(l, m, f, st)
  BY <1>1, <1>2 DEF B!Debited, Debited
<1>4. /\ \A l, m, f : B!Released(l, m, f) = Released(l, m, f)
      /\ \A l, n, m, f, st : B!Settled(l, n, m, f, st) = Settled(l, n, m, f, st)
  BY <1>1, <1>2 DEF B!Released, Released, B!Settled, Settled
<1>5. \A l, m : B!Credited(l, m) = Credited(l, m)
  BY <1>1 DEF B!Credited, Credited
<1>6. \A l, s, b, f : B!Rekeyed(l, s, b, f) = Rekeyed(l, s, b, f)
  BY <1>1 DEF B!Rekeyed, Rekeyed
<1>7. \A m, s, b : B!NewLeaf(m, s, b) = NewLeaf(m, s, b)
  BY DEF B!NewLeaf, NewLeaf
<1>8. \A l, p, m, f : B!BatchCredited(l, p, m, f) = BatchCredited(l, p, m, f)
  BY <1>1 DEF B!BatchCredited, BatchCredited
<1>9. \A S : B!Cardinality(S) = Cardinality(S)
  BY DEF B!Cardinality, Cardinality
<1>10. /\ \A p, tail : B!BatchMembers(p, tail) = BatchMembers(p, tail)
       /\ \A p, a : B!Occurrences(p, a) = Occurrences(p, a)
  BY <1>9 DEF B!BatchMembers, BatchMembers, B!Occurrences, Occurrences
<1>11. /\ \A acc, l : B!writeAccount(acc, l) = writeAccount(acc, l)
       /\ \A l : B!FromTree(l) = FromTree(l)
       /\ B!Addresses = Addresses
  BY DEF B!writeAccount, writeAccount, B!FromTree, FromTree, B!Addresses, Addresses
<1> QED
  BY <1>1, <1>3, <1>4, <1>5, <1>6, <1>7, <1>8, <1>9, <1>10, <1>11

\* Reading a transaction.
LEMMA SecondTransactions ==
    ASSUME NEW d
    PROVE  /\ B!selectTxType(d) = selectTxType(d)
           /\ B!Fee(d) = Fee(d) /\ B!AmountOf(d) = AmountOf(d)
           /\ B!TargetsOf(d) = TargetsOf(d) /\ B!Members(d) = Members(d)
           /\ B!TooShort(d) = TooShort(d)
           /\ B!Digest(d) = Digest(d)
           /\ \A h, c : B!Extended(h, c) = Extended(h, c)
           /\ B!fetchTx(d) = fetchTx(d)
           /\ B!Panic = Panic
<1>1. B!selectTxType(d) = selectTxType(d)
  BY DEF B!selectTxType, selectTxType
<1>2. /\ B!Fee(d) = Fee(d) /\ B!AmountOf(d) = AmountOf(d) /\ B!TargetsOf(d) = TargetsOf(d)
  BY <1>1, SecondRecords DEF B!Fee, Fee, B!AmountOf, AmountOf, B!TargetsOf, TargetsOf
<1>3. B!Members(d) = Members(d)
  BY SecondRecords DEF B!Members, Members
<1>4. B!TooShort(d) = TooShort(d)
  BY <1>1 DEF B!TooShort, TooShort
<1>5. B!Digest(d) = Digest(d) /\ (\A h, c : B!Extended(h, c) = Extended(h, c))
  BY DEF B!Digest, Digest, B!Extended, Extended
<1>6. B!fetchTx(d) = fetchTx(d) /\ B!Panic = Panic
  BY DEF B!fetchTx, fetchTx, B!MaxLength, MaxLength, B!MinLength, MinLength, B!Panic, Panic
<1> QED
  BY <1>1, <1>2, <1>3, <1>4, <1>5, <1>6

-----------------------------------------------------------------------------
(***************************************************************************)
(* Two nodes in step: what the blocks have made of them is the same, part  *)
(* by part, and the second one's caches hold nothing of their own.         *)
(***************************************************************************)
ChainAgrees ==
    /\ phaseB = phase /\ lastSetB = lastSet /\ curSetB = curSet /\ nextSetB = nextSet
    /\ everSetB = everSet
    /\ validatorTreeB = validatorTree /\ valUpdatesB = valUpdates /\ totalFeesB = totalFees

AccountsAgree ==
    /\ accountTreeB = accountTree
    /\ tempNewAccountMapB = tempNewAccountMap
    /\ accountNumOnDbB = accountNumOnDb
    /\ Backed(accountTree, tempAccountMapB)
    /\ LiveIn(accountTree, tempAccountMapB) = Live

ContractsAgree ==
    /\ contractTreeB = contractTree
    /\ tempContractMapB = tempContractMap /\ tempNewContractMapB = tempNewContractMap
    /\ contractNumOnDbB = contractNumOnDb
    /\ contractStorageDbB = contractStorageDb /\ contractStorageDb2B = contractStorageDb2

TxsAgree ==
    /\ txQueueB = txQueue
    /\ txStorageTreeB = txStorageTree /\ txStorageTree2B = txStorageTree2
    /\ blockHashTreeB = blockHashTree /\ blockHeightB = blockHeight

InStep ==
    ChainAgrees /\ AccountsAgree /\ ContractsAgree /\ TxsAgree /\ txMapB = EmptyMap

ReplicasInv == AppInv /\ (~staleDelivered => InStep)

-----------------------------------------------------------------------------
(***************************************************************************)
(* What the nodes read of their accounts.                                  *)
(***************************************************************************)
LEMMA SecondReads ==
    ASSUME AccountsInv, AccountsAgree
    PROVE  /\ \A a : B!Found(a) = Found(a)
           /\ \A a : Found(a) => a \in DOMAIN accountTree
           /\ \A A : B!Fetched(A) = FetchIn(accountTree, tempAccountMapB, A)
           /\ \A a : B!fetchAccount(a).now = fetchAccount(a).now
           /\ \A a \in DOMAIN accountTree :
                LET first == fetchAccount(a)  second == B!fetchAccount(a) IN
                /\ second.now = Live[a] /\ first.now = Live[a]
                /\ second.schnorrPubKey = first.schnorrPubKey
                /\ second.counter = first.counter
<1>1. /\ DOMAIN tempAccountMap \subseteq DOMAIN accountTree
      /\ DOMAIN tempAccountMapB \subseteq DOMAIN accountTree
      /\ accountTreeB = accountTree
  BY DEF AccountsInv, CacheCoherent, AccountsAgree, Backed, IsMap
<1>2. \A a : /\ B!Found(a) = Found(a)
             /\ Found(a) => a \in DOMAIN accountTree
  BY <1>1 DEF B!Found, Found
<1>3. \A a : B!fetchAccount(a) = Entry(accountTree, tempAccountMapB, a)
  BY <1>1, SecondRecords DEF B!fetchAccount, Entry
<1>4. \A A : B!Fetched(A) = FetchIn(accountTree, tempAccountMapB, A)
  BY <1>1, <1>3 DEF B!Fetched, FetchIn
<1>5. ASSUME NEW a \in DOMAIN accountTree
      PROVE  LET first == fetchAccount(a)  second == B!fetchAccount(a) IN
             /\ second.now = Live[a] /\ first.now = Live[a]
             /\ second.schnorrPubKey = first.schnorrPubKey
             /\ second.counter = first.counter
  <2>1. B!fetchAccount(a).now = Live[a] /\ fetchAccount(a).now = Live[a]
    BY <1>3 DEF AccountsAgree, LiveIn, Live
  <2>2. /\ fetchAccount(a).schnorrPubKey = accountTree[a].schnorr
        /\ fetchAccount(a).counter = accountTree[a].Counter
    BY DEF fetchAccount, FromTree, AccountsInv, CredentialsAreCommitted
  <2>3. /\ B!fetchAccount(a).schnorrPubKey = accountTree[a].schnorr
        /\ B!fetchAccount(a).counter = accountTree[a].Counter
    BY <1>3 DEF Entry, FromTree, AccountsAgree, Backed
  <2> QED
    BY <2>1, <2>2, <2>3
<1>6. ASSUME NEW a, a \notin DOMAIN accountTree PROVE B!fetchAccount(a) = fetchAccount(a)
  BY <1>1, <1>3, <1>6 DEF fetchAccount, Entry
<1> QED
  BY <1>2, <1>4, <1>5, <1>6

\* The balance test gives one answer.
LEMMA SecondVerifies ==
    ASSUME AccountsInv, AccountsAgree, NEW s, NEW T, NEW amount, NEW fee
    PROVE  B!verifyAccounts(s, T, amount, fee) = verifyAccounts(s, T, amount, fee)
BY SecondReads, SecondRecords DEF B!verifyAccounts, verifyAccounts

\* And so do the checks of a transaction that is not cached.
LEMMA SecondCodes ==
    ASSUME AccountsInv, AccountsAgree, blockHeightB = blockHeight, NEW raw
    PROVE  /\ B!accountsCode(raw.data) = accountsCode(raw.data)
           /\ B!isSigned(raw) = isSigned(raw)
           /\ Found(raw.data.source) =>
                B!verifyBlsTx(raw.data) = verifyBlsTx(raw.data)
<1> DEFINE d == raw.data
<1>1. B!accountsCode(d) = accountsCode(d)
  <2>1. /\ B!Found(d.source) <=> Found(d.source)
        /\ (\E t \in B!TargetsOf(d) : ~B!Found(t)) <=> (\E t \in TargetsOf(d) : ~Found(t))
    BY SecondReads, SecondTransactions
  <2>2. B!verifyAccounts(d.source, B!TargetsOf(d), B!AmountOf(d), B!Fee(d))
          <=> verifyAccounts(d.source, TargetsOf(d), AmountOf(d), Fee(d))
    BY SecondVerifies, SecondTransactions
  <2>3. B!selectTxType(d) = selectTxType(d) /\ B!Panic = Panic
    BY SecondTransactions
  <2> QED
    BY <2>1, <2>2, <2>3 DEF B!accountsCode, accountsCode
<1>2. B!isSigned(raw) = isSigned(raw)
  BY SecondReads DEF B!isSigned, isSigned
<1>3. ASSUME Found(d.source) PROVE B!verifyBlsTx(d) = verifyBlsTx(d)
  <2>1. B!KnownMembers(d) = KnownMembers(d)
    <3> DEFINE first == DOMAIN tempAccountMap \cup DOMAIN accountTree
               second == DOMAIN tempAccountMapB \cup DOMAIN accountTreeB
    <3>1. /\ KnownMembers(d) = SelectSeq(Members(d), LAMBDA a : a \in first)
          /\ B!KnownMembers(d) = SelectSeq(B!Members(d), LAMBDA a : a \in second)
      BY DEF KnownMembers, B!KnownMembers, Found, B!Found
    <3>2. first = second
      BY SecondReads DEF B!Found, Found
    <3>3. B!Members(d) = Members(d)
      BY SecondTransactions
    <3> HIDE DEF first, second
    <3> QED
      BY <3>1, <3>2, <3>3
  <2>3. [i \in DOMAIN KnownMembers(d) |-> B!fetchAccount(KnownMembers(d)[i]).now.bls]
          = [i \in DOMAIN KnownMembers(d) |-> fetchAccount(KnownMembers(d)[i]).now.bls]
    BY SecondReads
  <2>4. B!verifyBatch(d) = verifyBatch(d)
    BY <2>1, <2>3 DEF B!verifyBatch, verifyBatch
  <2> QED
    BY <1>3, <2>4, SecondReads, SecondTransactions DEF B!verifyBlsTx, verifyBlsTx
<1> QED
  BY <1>1, <1>2, <1>3

\* As long as what the first node has cached is fresh, DeliverTx answers alike:
\* the second one, which has nothing cached, makes the checks the first leaves out.
LEMMA SecondAnswers ==
    ASSUME AccountsInv, CheckedTxs, InStep, NEW raw, Fresh(raw)
    PROVE  B!DeliverTxCode(raw) = DeliverTxCode(raw)
<1> DEFINE d == raw.data
<1>1. /\ AccountsAgree /\ blockHeightB = blockHeight
      /\ ~B!inCache(d)
  BY DEF InStep, TxsAgree, B!inCache, EmptyMap
<1>2. /\ B!accountsCode(d) = accountsCode(d)
      /\ B!isSigned(raw) <=> isSigned(raw)
      /\ isSigned(raw) => (B!verifyBlsTx(d) <=> verifyBlsTx(d))
  BY <1>1, SecondCodes DEF isSigned
<1>3. /\ B!selectTxType(d) = selectTxType(d)
      /\ B!TooShort(d) <=> TooShort(d)
      /\ B!fetchTx(d) = fetchTx(d) /\ B!Panic = Panic
  BY SecondTransactions
<1> HIDE DEF d
<1>4. CASE fetchTx(d) # 0
  BY <1>1, <1>3, <1>4 DEF B!DeliverTxCode, DeliverTxCode, B!CheckTxCode, CheckTxCode, d
<1>5. CASE fetchTx(d) = 0 /\ inCache(d)
  <2>1. isSigned(raw) /\ verifyBlsTx(d) /\ selectTxType(d) # "none" /\ ~TooShort(d)
    BY <1>5 DEF Fresh, CheckedTxs, inCache, d
  <2>2. B!isValid(raw) = accountsCode(d)
    BY <1>1, <1>2, <1>3, <2>1 DEF B!isValid, d
  <2> QED
    BY <1>1, <1>3, <1>5, <2>2 DEF B!DeliverTxCode, DeliverTxCode, B!CheckTxCode, d
<1>6. CASE fetchTx(d) = 0 /\ ~inCache(d)
  <2>1. B!isValid(raw) = isValid(raw)
    BY <1>1, <1>2, <1>3, <1>6 DEF B!isValid, isValid, d
  <2> QED
    BY <1>1, <1>3, <1>6, <2>1
       DEF B!DeliverTxCode, DeliverTxCode, B!CheckTxCode, CheckTxCode, d
<1> QED
  BY <1>4, <1>5, <1>6 DEF d

-----------------------------------------------------------------------------
(***************************************************************************)
(* What an accepted transaction does to both account stores.               *)
(***************************************************************************)
\* A handler of the second node that fetches some accounts and writes one.
LEMMA SecondWrites ==
    ASSUME AccountsInv, AccountsAgree, NEW A, NEW s \in A, Found(s), NEW leaf \in Leaf,
           tempAccountMapB' = WriteIn(B!Fetched(A), s, leaf)
    PROVE  /\ Backed(accountTree, tempAccountMapB')
           /\ LiveIn(accountTree, tempAccountMapB') = [Live EXCEPT ![s] = leaf]
<1> DEFINE f == FetchIn(accountTree, tempAccountMapB, A)
<1>1. Backed(accountTree, f) /\ LiveIn(accountTree, f) = Live
  BY FetchInBacked DEF AccountsInv, AccountsTypeOK, AccountsAgree
<1>2. s \in DOMAIN f
  BY SecondReads DEF FetchIn
<1>3. tempAccountMapB' = WriteIn(f, s, leaf)
  BY SecondReads
<1> HIDE DEF f
<1> QED
  BY <1>1, <1>2, <1>3, WriteInBacked

\* What it reads of an account it has fetched.
LEMMA SecondFetched ==
    ASSUME AccountsInv, AccountsAgree, NEW A, NEW s \in A, Found(s)
    PROVE  B!Fetched(A)[s].now = Live[s] /\ Live[s] \in Leaf
<1> DEFINE f == FetchIn(accountTree, tempAccountMapB, A)
<1>1. \A a \in DOMAIN f : f[a].now = LiveIn(accountTree, tempAccountMapB)[a] /\ f[a].now \in Leaf
  BY FetchInBacked DEF AccountsInv, AccountsTypeOK, AccountsAgree
<1>2. s \in DOMAIN f
  BY SecondReads DEF FetchIn
<1>3. B!Fetched(A) = f
  BY SecondReads
<1> QED
  BY <1>1, <1>2, <1>3 DEF AccountsAgree

\* Handlers leave the tree alone; the two accounts of a pair agree if their
\* contents do.
LEMMA AgreeAfter ==
    ASSUME AccountsAgree, UNCHANGED <<accountTree, accountTreeB>>,
           tempNewAccountMapB' = tempNewAccountMap', accountNumOnDbB' = accountNumOnDb',
           Backed(accountTree, tempAccountMapB'), LiveIn(accountTree, tempAccountMapB') = Live'
    PROVE  AccountsAgree'
BY DEF AccountsAgree

LEMMA FetchInStep ==
    ASSUME AccountsInv, AccountsAgree, NEW A, Fetch(A), NEW C, B!Fetch(C)
    PROVE  AccountsAgree'
<1>1. Live' = Live
  BY FetchRefines
<1>2. tempAccountMapB' = FetchIn(accountTree, tempAccountMapB, C)
  BY SecondReads DEF B!Fetch
<1>3. Backed(accountTree, tempAccountMapB') /\ LiveIn(accountTree, tempAccountMapB') = Live
  BY <1>2, FetchInBacked DEF AccountsInv, AccountsTypeOK, AccountsAgree
<1> QED
  BY <1>1, <1>3, AgreeAfter DEF Fetch, B!Fetch, AccountsAgree

LEMMA UpdateInStep ==
    ASSUME AccountsInv, AccountsAgree, NEW s \in Addresses, NEW T, NEW amount \in UInt32,
           NEW fee \in UInt32, NEW st \in States \cup {NoState},
           ExecUpdate(s, T, amount, fee, st), B!ExecUpdate(s, T, amount, fee, st)
    PROVE  AccountsAgree'
<1> DEFINE leaf == Debited(Live[s], amount, fee, st)
<1>1. Live' = [Live EXCEPT ![s] = leaf]
  BY UpdateRefines, SameRecords DEF Abstract!Update
<1>2. Found(s)
  BY DEF ExecUpdate, verifyAccounts
<1>3. PICK A : A = {s} \cup T
  OBVIOUS
<1>4. B!Fetched(A)[s].now = Live[s] /\ leaf \in Leaf
  BY <1>2, <1>3, SecondFetched, LeafOps
<1> HIDE DEF leaf
<1>5. tempAccountMapB' = WriteIn(B!Fetched(A), s, leaf)
  BY <1>3, <1>4, SecondRecords DEF WriteIn, B!ExecUpdate, leaf
<1>6. /\ Backed(accountTree, tempAccountMapB')
      /\ LiveIn(accountTree, tempAccountMapB') = [Live EXCEPT ![s] = leaf]
  BY <1>2, <1>3, <1>4, <1>5, SecondWrites
<1> QED
  BY <1>1, <1>6, AgreeAfter DEF ExecUpdate, B!ExecUpdate, AccountsAgree

LEMMA ReleaseInStep ==
    ASSUME AccountsInv, AccountsAgree, NEW s \in Addresses, NEW amount \in UInt32,
           NEW fee \in UInt32, ExecRelease(s, amount, fee), B!ExecRelease(s, amount, fee)
    PROVE  AccountsAgree'
<1> DEFINE leaf == Released(Live[s], amount, fee)
<1>1. Live' = [Live EXCEPT ![s] = leaf]
  BY ReleaseRefines, SameRecords DEF Abstract!Release
<1>2. Found(s)
  BY DEF ExecRelease, verifyAccounts
<1>3. B!Fetched({s})[s].now = Live[s] /\ leaf \in Leaf
  BY <1>2, SecondFetched, LeafOps
<1> HIDE DEF leaf
<1>4. tempAccountMapB' = WriteIn(B!Fetched({s}), s, leaf)
  BY <1>3, SecondRecords DEF WriteIn, B!ExecRelease, leaf
<1>5. /\ Backed(accountTree, tempAccountMapB')
      /\ LiveIn(accountTree, tempAccountMapB') = [Live EXCEPT ![s] = leaf]
  BY <1>2, <1>3, <1>4, SecondWrites
<1> QED
  BY <1>1, <1>5, AgreeAfter DEF ExecRelease, B!ExecRelease, AccountsAgree

LEMMA KeyChangeInStep ==
    ASSUME AccountsInv, AccountsAgree, NEW s \in Addresses, NEW key \in Keys, NEW b \in BlsKeys,
           NEW fee \in UInt32, ExecAccountKeyChanger(s, key, b, fee),
           B!ExecAccountKeyChanger(s, key, b, fee)
    PROVE  AccountsAgree'
<1> DEFINE leaf == Rekeyed(Live[s], key, b, fee)
<1>1. Live' = [Live EXCEPT ![s] = leaf]
  BY KeyChangeRefines, SameRecords DEF Abstract!ChangeKeys
<1>2. Found(s)
  BY DEF ExecAccountKeyChanger, verifyAccounts
<1>3. B!Fetched({s})[s].now = Live[s] /\ leaf \in Leaf
  BY <1>2, SecondFetched, LeafOps
<1> HIDE DEF leaf
<1>4. tempAccountMapB' = WriteIn(B!Fetched({s}), s, leaf)
  BY <1>3, SecondRecords DEF WriteIn, B!ExecAccountKeyChanger, leaf
<1>5. /\ Backed(accountTree, tempAccountMapB')
      /\ LiveIn(accountTree, tempAccountMapB') = [Live EXCEPT ![s] = leaf]
  BY <1>2, <1>3, <1>4, SecondWrites
<1> QED
  BY <1>1, <1>5, AgreeAfter DEF ExecAccountKeyChanger, B!ExecAccountKeyChanger, AccountsAgree

LEMMA CreateInStep ==
    ASSUME AccountsInv, AccountsAgree, NEW s \in Addresses, NEW amount \in UInt32,
           NEW fee \in UInt32, NEW key, NEW b, ExecCreateAccount(s, amount, fee, key, b),
           B!ExecCreateAccount(s, amount, fee, key, b)
    PROVE  AccountsAgree'
<1> DEFINE leaf == Debited(Live[s], amount, fee, NoState)
<1>1. Live' = [Live EXCEPT ![s] = leaf]
  BY CreateRefines, SameRecords DEF Abstract!Open
<1>2. Found(s)
  BY DEF ExecCreateAccount, verifyAccounts
<1>3. B!Fetched({s})[s].now = Live[s] /\ leaf \in Leaf
  BY <1>2, SecondFetched, LeafOps
<1> HIDE DEF leaf
<1>4. tempAccountMapB' = WriteIn(B!Fetched({s}), s, leaf)
  BY <1>3, SecondRecords DEF WriteIn, B!ExecCreateAccount, leaf
<1>5. /\ Backed(accountTree, tempAccountMapB')
      /\ LiveIn(accountTree, tempAccountMapB') = [Live EXCEPT ![s] = leaf]
  BY <1>2, <1>3, <1>4, SecondWrites
<1>6. tempNewAccountMapB' = tempNewAccountMap' /\ accountNumOnDbB' = accountNumOnDb'
  BY SecondRecords DEF ExecCreateAccount, B!ExecCreateAccount, AccountsAgree
<1> QED
  BY <1>1, <1>5, <1>6, AgreeAfter DEF ExecCreateAccount, B!ExecCreateAccount, AccountsAgree

\* Both nodes see their own first write in the second one.
LEMMA TransferInStep ==
    ASSUME AccountsInv, AccountsAgree, NEW s \in Addresses, NEW t \in Addresses,
           NEW amount \in UInt32, NEW fee \in UInt32, NEW st \in States \cup {NoState},
           ExecTransfer(s, t, amount, fee, st), B!ExecTransfer(s, t, amount, fee, st)
    PROVE  AccountsAgree'
<1> DEFINE debited == Debited(Live[s], amount, fee, st)
           paidLive == [Live EXCEPT ![s] = debited]
           credited == Credited(paidLive[t], amount)
           f == FetchIn(accountTree, tempAccountMapB, {s, t})
           paid == WriteIn(f, s, debited)
<1>1. Live' = [paidLive EXCEPT ![t] = credited]
  BY TransferRefines, SameRecords DEF Abstract!Transfer
<1>2. Found(s) /\ Found(t)
  BY DEF ExecTransfer, verifyAccounts
<1>3. /\ Backed(accountTree, f) /\ LiveIn(accountTree, f) = Live
      /\ \A a \in DOMAIN f : f[a].now = Live[a] /\ f[a].now \in Leaf
      /\ s \in DOMAIN f /\ t \in DOMAIN f /\ B!Fetched({s, t}) = f
      /\ DOMAIN f \subseteq DOMAIN Live
  <2>1. /\ Backed(accountTree, f) /\ LiveIn(accountTree, f) = Live
        /\ \A a \in DOMAIN f : f[a].now = Live[a] /\ f[a].now \in Leaf
    BY FetchInBacked DEF AccountsInv, AccountsTypeOK, AccountsAgree
  <2>2. s \in DOMAIN f /\ t \in DOMAIN f /\ B!Fetched({s, t}) = f
    BY <1>2, SecondReads DEF FetchIn
  <2> QED
    BY <2>1, <2>2 DEF Backed, IsMap, Live
<1> HIDE DEF f
<1>4. debited \in Leaf
  BY <1>3, LeafOps
<1>5. /\ Backed(accountTree, paid)
      /\ LiveIn(accountTree, paid) = paidLive
      /\ DOMAIN paid = DOMAIN f
  BY <1>3, <1>4, WriteInBacked
<1>6. tempAccountMapB' = WriteIn(paid, t, Credited(paid[t].now, amount))
  BY <1>3, SecondRecords DEF B!ExecTransfer, WriteIn
<1> HIDE DEF paid, debited
<1>7. paid[t].now = paidLive[t]
  <2>1. LiveIn(accountTree, paid)[t] = paid[t].now
    BY <1>3, <1>5 DEF LiveIn, Entry, Live
  <2> QED
    BY <1>5, <2>1
<1>8. credited \in Leaf
  <2>1. paidLive[t] \in Leaf
    BY <1>3, <1>4
  <2> QED
    BY <2>1, LeafOps
<1> HIDE DEF paidLive, credited
<1>9. tempAccountMapB' = WriteIn(paid, t, credited)
  BY <1>6, <1>7 DEF credited
<1>10. /\ Backed(accountTree, tempAccountMapB')
       /\ LiveIn(accountTree, tempAccountMapB') = [paidLive EXCEPT ![t] = credited]
  <2>1. t \in DOMAIN paid
    BY <1>3, <1>5
  <2> QED
    BY <1>5, <1>8, <1>9, <2>1, WriteInBacked
<1> QED
  BY <1>1, <1>10, AgreeAfter DEF ExecTransfer, B!ExecTransfer, AccountsAgree

\* Accounts are records.
LEMMA LiveTypes == ASSUME AccountsInv PROVE \A a \in DOMAIN accountTree : Live[a] \in Leaf
BY DEF Live, fetchAccount, FromTree, AccountsInv, AccountsTypeOK, IsMap, CachedAccount

\* In a batch each node fetches the participants it has not cached.
LEMMA BatchInStep ==
    ASSUME AccountsInv, AccountsAgree, NEW s \in Addresses, NEW p \in Seq(Addresses),
           NEW tail \in BOOLEAN, NEW amount \in UInt32, NEW fee \in UInt32,
           NEW st \in States \cup {NoState},
           ExecBatch(s, p, tail, amount, fee, st), B!ExecBatch(s, p, tail, amount, fee, st)
    PROVE  AccountsAgree'
<1> DEFINE members == BatchMembers(p, tail)
           n(a) == Occurrences(members, a)
           A == {s} \cup {members[i] : i \in DOMAIN members}
           f == FetchIn(accountTree, tempAccountMapB, A)
           W == {a \in DOMAIN f : n(a) # 0}
           new == [a \in DOMAIN f |-> Settled(Live[a], n(a), amount, fee, st)]
           settled == SettleIn(f, W, new)
           settledLive == [a \in DOMAIN Live |-> Settled(Live[a], n(a), amount, fee, st)]
           credited == BatchCredited(settledLive[s], p, amount, fee)
<1>1. Live' = [settledLive EXCEPT ![s] = credited]
  <2> DEFINE abstract == [a \in DOMAIN Live |-> Abstract!Settled(Live[a],
                  Abstract!Occurrences(Abstract!BatchMembers(p, tail), a), amount, fee, st)]
  <2>1. Abstract!Settle(s, p, tail, amount, fee, st)
    BY BatchRefines
  <2>2. Live' = [abstract EXCEPT ![s] = Abstract!BatchCredited(abstract[s], p, amount, fee)]
    BY <2>1 DEF Abstract!Settle
  <2>3. abstract = settledLive
    BY SameRecords
  <2> HIDE DEF abstract, settledLive
  <2> QED
    BY <2>2, <2>3, SameRecords
<1>2. Found(s)
  BY DEF ExecBatch, verifyAccounts
<1>3. /\ Backed(accountTree, f) /\ LiveIn(accountTree, f) = Live
      /\ \A a \in DOMAIN f : f[a].now = Live[a] /\ f[a].now \in Leaf
      /\ s \in DOMAIN f /\ B!Fetched(A) = f
      /\ DOMAIN f = DOMAIN tempAccountMapB \cup (A \cap DOMAIN accountTree)
      /\ DOMAIN f \subseteq DOMAIN accountTree
      /\ DOMAIN Live = DOMAIN accountTree
  <2>1. /\ Backed(accountTree, f) /\ LiveIn(accountTree, f) = Live
        /\ \A a \in DOMAIN f : f[a].now = Live[a] /\ f[a].now \in Leaf
    BY FetchInBacked DEF AccountsInv, AccountsTypeOK, AccountsAgree
  <2>2. /\ DOMAIN f = DOMAIN tempAccountMapB \cup (A \cap DOMAIN accountTree)
        /\ B!Fetched(A) = f
    BY SecondReads DEF FetchIn
  <2>3. s \in DOMAIN f
    BY <1>2, <2>2, SecondReads
  <2> QED
    BY <2>1, <2>2, <2>3 DEF Backed, IsMap, Live
<1>4. members \in Seq(Addresses)
  BY BatchMembersType
<1>5. \A a \in DOMAIN accountTree : a \notin DOMAIN f => n(a) = 0
  <2>1. SUFFICES ASSUME NEW a \in DOMAIN accountTree, a \notin DOMAIN f PROVE n(a) = 0
    OBVIOUS
  <2>2. {i \in DOMAIN members : members[i] = a} = {}
    BY <1>3, <2>1
  <2> QED
    BY <2>2, FS_EmptySet DEF Occurrences
<1>6. tempAccountMapB' = WriteIn(settled, s, BatchCredited(settled[s].now, p, amount, fee))
  <2> DEFINE second == B!BatchMembers(p, tail)
             cache == B!Fetched({s} \cup {second[i] : i \in DOMAIN second})
             put == [a \in DOMAIN cache |->
                       IF B!Occurrences(second, a) = 0 THEN cache[a]
                       ELSE B!writeAccount(cache[a],
                              B!Settled(cache[a].now, B!Occurrences(second, a), amount, fee, st))]
  <2>1. tempAccountMapB' = [put EXCEPT
          ![s] = B!writeAccount(put[s], B!BatchCredited(put[s].now, p, amount, fee))]
    BY DEF B!ExecBatch
  <2>2. second = members /\ \A a : B!Occurrences(second, a) = n(a)
    BY SecondRecords
  <2>3. cache = f
    BY <1>3, <2>2
  <2> HIDE DEF second, cache, n, f
  <2>4. put = settled
    BY <1>3, <2>2, <2>3, SecondRecords DEF SettleIn
  <2> HIDE DEF put, settled
  <2> QED
    BY <2>1, <2>4, SecondRecords DEF WriteIn
<1>7. \A a \in DOMAIN accountTree : n(a) \in Nat /\ Live[a] \in Leaf
  BY <1>4, OccurrencesType, LiveTypes
<1> HIDE DEF members, n, A, f
<1>8. \A a \in DOMAIN accountTree : Settled(Live[a], n(a), amount, fee, st) \in Leaf
  BY <1>7, LeafOps
<1>9. /\ Backed(accountTree, settled) /\ DOMAIN settled = DOMAIN f
      /\ LiveIn(accountTree, settled) = settledLive
  <2>1. /\ Backed(accountTree, settled) /\ DOMAIN settled = DOMAIN f
        /\ LiveIn(accountTree, settled) = [a \in DOMAIN accountTree |->
                                             IF a \in W \cap DOMAIN f THEN new[a] ELSE Live[a]]
    <3>1. \A a \in DOMAIN f : new[a] \in Leaf
      BY <1>3, <1>8
    <3> HIDE DEF W, new
    <3> QED
      BY <1>3, <3>1, SettleInBacked
  <2>2. ASSUME NEW a \in DOMAIN accountTree
        PROVE  (IF a \in W \cap DOMAIN f THEN new[a] ELSE Live[a]) = settledLive[a]
    <3>1. n(a) = 0 => Settled(Live[a], n(a), amount, fee, st) = Live[a]
      BY DEF Settled
    <3> QED
      BY <1>3, <1>5, <3>1
  <2> QED
    BY <1>3, <2>1, <2>2
<1> HIDE DEF settled
<1>10. s \in DOMAIN settled /\ settled[s].now = settledLive[s] /\ s \in DOMAIN accountTree
  <2>1. s \in DOMAIN settled /\ s \in DOMAIN accountTree
    BY <1>3, <1>9
  <2>2. LiveIn(accountTree, settled)[s] = settled[s].now
    BY <2>1 DEF LiveIn, Entry
  <2> QED
    BY <1>9, <2>1, <2>2
<1>11. credited \in Leaf
  <2>1. settledLive[s] \in Leaf
    BY <1>3, <1>8, <1>10
  <2> HIDE DEF settledLive
  <2> QED
    BY <2>1, LeafOps
<1>12. tempAccountMapB' = WriteIn(settled, s, credited)
  BY <1>6, <1>10
<1> HIDE DEF credited, settledLive
<1>13. /\ Backed(accountTree, tempAccountMapB')
       /\ LiveIn(accountTree, tempAccountMapB') = [settledLive EXCEPT ![s] = credited]
  BY <1>9, <1>10, <1>11, <1>12, WriteInBacked
<1> QED
  BY <1>1, <1>13, AgreeAfter DEF ExecBatch, B!ExecBatch, AccountsAgree

\* The accounts of a transaction both accept. The validator whose stake is
\* released is the one of the credentials, which are the tree's in both.
LEMMA AccountsInStep ==
    ASSUME AccountsInv, AccountsAgree, ValidatorsTypeOK, validatorTreeB = validatorTree,
           NEW d \in TxData, accountsCode(d) = 0, selectTxType(d) # "none",
           ExecAccounts(d), B!ExecAccounts(d)
    PROVE  AccountsAgree'
<1> DEFINE s == d.source
           fee == Fee(d)
           k == fetchAccount(s).schnorrPubKey
<1>1. /\ s \in Addresses /\ fee \in UInt32 /\ d.amount \in UInt32
      /\ d.state \in States \cup {NoState} /\ NoState \in States \cup {NoState}
      /\ d.schnorr \in Keys /\ d.bls \in BlsKeys
      /\ d.addresses \in Seq(Addresses) /\ d.tail \in BOOLEAN
      /\ 0 \in UInt32
  BY AccountsFound, FieldTypes, WordAssumption DEF UInt32
<1>2. selectTxType(d) \in {"update", "release", "stake", "transfer", "change",
                           "create", "batch", "contract"}
  BY KindOf, AccountsFound DEF Kinds
<1>3. B!selectTxType(d) = selectTxType(d) /\ B!Fee(d) = fee
  BY SecondTransactions
<1>4. B!fetchAccount(s).schnorrPubKey = k
  BY AccountsFound, SecondReads
<1> HIDE DEF s, fee
<1>5. CASE selectTxType(d) = "update"
  <2>1. /\ ExecUpdate(s, {}, 0, fee, d.state)
        /\ B!ExecUpdate(s, {}, 0, fee, d.state)
    BY <1>3, <1>5 DEF ExecAccounts, B!ExecAccounts, s, fee
  <2> QED
    BY <1>1, <2>1, UpdateInStep
<1>6. CASE selectTxType(d) = "transfer"
  <2>1. /\ ExecTransfer(s, d.target, d.amount, fee, d.state)
        /\ B!ExecTransfer(s, d.target, d.amount, fee, d.state)
    BY <1>3, <1>6 DEF ExecAccounts, B!ExecAccounts, s, fee
  <2>2. d.target \in Addresses
    BY <1>6, AccountsFound DEF TargetsOf
  <2> QED
    BY <1>1, <2>1, <2>2, TransferInStep
<1>7. CASE selectTxType(d) = "stake"
  <2>1. /\ ExecUpdate(s, {}, d.amount, fee, NoState)
        /\ B!ExecUpdate(s, {}, d.amount, fee, NoState)
    BY <1>3, <1>7 DEF ExecAccounts, B!ExecAccounts, s, fee
  <2> QED
    BY <1>1, <2>1, UpdateInStep
<1>8. CASE selectTxType(d) = "release"
  <2>1. /\ IF k \in DOMAIN validatorTree THEN ExecRelease(s, Wrap(validatorTree[k]), fee)
                                         ELSE Fetch({s})
        /\ IF k \in DOMAIN validatorTree THEN B!ExecRelease(s, Wrap(validatorTree[k]), fee)
                                         ELSE B!Fetch({s})
    BY <1>3, <1>4, <1>8, SecondRecords DEF ExecAccounts, B!ExecAccounts, s, fee
  <2>2. CASE k \in DOMAIN validatorTree
    <3>1. validatorTree[k] \in Int
      BY <2>2 DEF ValidatorsTypeOK, IsMap
    <3>2. Wrap(validatorTree[k]) \in UInt32
      BY <3>1, WrapType
    <3> QED
      BY <1>1, <2>1, <2>2, <3>2, ReleaseInStep
  <2>3. CASE k \notin DOMAIN validatorTree
    BY <2>1, <2>3, FetchInStep
  <2> QED
    BY <2>2, <2>3
<1>9. CASE selectTxType(d) = "contract"
  <2>1. /\ ExecUpdate(s, {d.target}, d.amount, fee, NoState)
        /\ B!ExecUpdate(s, {d.target}, d.amount, fee, NoState)
    BY <1>3, <1>9 DEF ExecAccounts, B!ExecAccounts, s, fee
  <2> QED
    BY <1>1, <2>1, UpdateInStep
<1>10. CASE selectTxType(d) = "create"
  <2>1. /\ ExecCreateAccount(s, d.amount, fee, d.schnorr, d.bls)
        /\ B!ExecCreateAccount(s, d.amount, fee, d.schnorr, d.bls)
    BY <1>3, <1>10 DEF ExecAccounts, B!ExecAccounts, s, fee
  <2> QED
    BY <1>1, <2>1, CreateInStep
<1>11. CASE selectTxType(d) = "change"
  <2>1. /\ ExecAccountKeyChanger(s, d.schnorr, d.bls, fee)
        /\ B!ExecAccountKeyChanger(s, d.schnorr, d.bls, fee)
    BY <1>3, <1>11 DEF ExecAccounts, B!ExecAccounts, s, fee
  <2> QED
    BY <1>1, <2>1, KeyChangeInStep
<1>12. CASE selectTxType(d) = "batch"
  <2>1. /\ ExecBatch(s, d.addresses, d.tail, d.amount, fee, d.state)
        /\ B!ExecBatch(s, d.addresses, d.tail, d.amount, fee, d.state)
    BY <1>3, <1>12 DEF ExecAccounts, B!ExecAccounts, s, fee
  <2> QED
    BY <1>1, <2>1, BatchInStep
<1> QED
  BY <1>2, <1>5, <1>6, <1>7, <1>8, <1>9, <1>10, <1>11, <1>12

-----------------------------------------------------------------------------
(***************************************************************************)
(* The other parts are functions of what they were and of the call.        *)
(***************************************************************************)
\* What the votes make of the powers.
LEMMA SecondVotes ==
    ASSUME ChainAgrees, NEW signed, NEW proposer, NEW byzantine
    PROVE  /\ B!Revalued(signed, proposer) = Revalued(signed, proposer)
           /\ \A k : B!PowerAfter(k, proposer) = PowerAfter(k, proposer)
           /\ \A S : B!UpdatesAtBegin(S, proposer, byzantine) = UpdatesAtBegin(S, proposer, byzantine)
<1>1. \A k : B!Rewarded(k, proposer) = Rewarded(k, proposer)
  BY DEF ChainAgrees, B!Rewarded, Rewarded
<1>2. \A p, v : B!Leak(p, v) = Leak(p, v)
  BY DEF B!Leak, Leak
<1>3. \A k : B!PowerAfter(k, proposer) = PowerAfter(k, proposer)
  BY <1>1, <1>2, SecondRecords DEF ChainAgrees, B!PowerAfter, PowerAfter
<1>4. B!Revalued(signed, proposer) = Revalued(signed, proposer)
  BY <1>1, <1>2, SecondRecords DEF ChainAgrees, B!Revalued, Revalued
<1>5. \A S : B!SetToSeq(S) = SetToSeq(S)
  BY SecondRecords DEF B!SetToSeq, SetToSeq, B!IsInjective, IsInjective
<1>6. \A S : B!UpdatesAtBegin(S, proposer, byzantine) = UpdatesAtBegin(S, proposer, byzantine)
  <2> TAKE S
  <2>1. \A k, p : B!ValidatorUpdate(k, p) = ValidatorUpdate(k, p)
    BY DEF B!ValidatorUpdate, ValidatorUpdate
  <2>2. /\ {B!ValidatorUpdate(k, B!PowerAfter(k, proposer)) : k \in S}
             = {ValidatorUpdate(k, PowerAfter(k, proposer)) : k \in S}
        /\ {B!ValidatorUpdate(k, 0) : k \in byzantine} = {ValidatorUpdate(k, 0) : k \in byzantine}
    BY <1>3, <2>1
  <2>3. /\ B!VoteUpdates(S, proposer) = VoteUpdates(S, proposer)
        /\ B!Punishments(byzantine) = Punishments(byzantine)
    BY <1>5, <2>2 DEF B!VoteUpdates, VoteUpdates, B!Punishments, Punishments
  <2> QED
    BY <2>3 DEF B!UpdatesAtBegin, UpdatesAtBegin
<1> QED
  BY <1>3, <1>4, <1>6

LEMMA BeginInStep ==
    ASSUME ChainAgrees, NEW signed, NEW proposer, NEW byzantine,
           BeginBlockValidators(signed, proposer, byzantine),
           B!BeginBlockValidators(signed, proposer, byzantine)
    PROVE  ChainAgrees'
<1>1. /\ phaseB' = phase' /\ UNCHANGED <<lastSet, curSet, nextSet, everSet>>
      /\ UNCHANGED <<lastSetB, curSetB, nextSetB, everSetB>>
  BY DEF BeginBlockValidators, B!BeginBlockValidators, TmBeginBlock, B!TmBeginBlock,
         validatorSets, B!validatorSets
<1>2. validatorTreeB' = validatorTree'
  BY SecondVotes DEF ChainAgrees, BeginBlockValidators, B!BeginBlockValidators
<1>3. valUpdatesB' = valUpdates' /\ totalFeesB' = totalFees'
  BY SecondVotes DEF BeginBlockValidators, B!BeginBlockValidators
<1> QED
  BY <1>1, <1>2, <1>3 DEF ChainAgrees

\* The validator side of a transaction.
LEMMA ValidatorsInStep ==
    ASSUME AccountsInv, AccountsAgree, ChainAgrees, NEW d \in TxData, accountsCode(d) = 0,
           ExecValidators(d), B!ExecValidators(d)
    PROVE  ChainAgrees'
<1> DEFINE k == fetchAccount(d.source).schnorrPubKey
           all == Wrap(Fee(d) * (Charged(d) + 1))
           amount == d.amount
           fee == Fee(d)
<1>1. B!selectTxType(d) = selectTxType(d) /\ B!Fee(d) = fee
  BY SecondTransactions
<1>2. B!fetchAccount(d.source).schnorrPubKey = k
  BY AccountsFound, SecondReads
<1>3. B!Wrap(B!Fee(d) * (B!Charged(d) + 1)) = all
  <2>1. B!Charged(d) = Charged(d)
    BY SecondReads, SecondTransactions, SecondRecords DEF B!Charged, Charged
  <2> QED
    BY <1>1, <2>1, SecondRecords
<1> HIDE DEF k, all, fee, amount
<1>4. \/ ExecStakeValidator(k, amount, fee) /\ B!ExecStakeValidator(k, amount, fee)
      \/ ExecReleaseValidator(k, fee) /\ B!ExecReleaseValidator(k, fee)
      \/ ExecOtherValidators(all) /\ B!ExecOtherValidators(all)
      \/ ExecOtherValidators(fee) /\ B!ExecOtherValidators(fee)
  <2>1. CASE selectTxType(d) = "stake"
    BY <1>1, <1>2, <2>1 DEF ExecValidators, B!ExecValidators, k, amount, fee
  <2>2. CASE selectTxType(d) = "release"
    BY <1>1, <1>2, <2>2 DEF ExecValidators, B!ExecValidators, k, fee
  <2>3. CASE selectTxType(d) = "batch"
    BY <1>1, <1>3, <2>3 DEF ExecValidators, B!ExecValidators, all
  <2>4. CASE selectTxType(d) \notin {"stake", "release", "batch"}
    BY <1>1, <2>4 DEF ExecValidators, B!ExecValidators, fee
  <2> QED
    BY <2>1, <2>2, <2>3, <2>4
<1>5. \A f : (B!CollectFee(f) /\ CollectFee(f)) => totalFeesB' = totalFees'
  BY SecondRecords DEF ChainAgrees, CollectFee, B!CollectFee
<1>6. B!StakeOf(k) = StakeOf(k) /\ (\A j, p : B!ValidatorUpdate(j, p) = ValidatorUpdate(j, p))
  BY DEF ChainAgrees, B!StakeOf, StakeOf, B!ValidatorUpdate, ValidatorUpdate
<1>7. ASSUME TmDeliverTx, B!TmDeliverTx,
             validatorTreeB' = validatorTree', valUpdatesB' = valUpdates', totalFeesB' = totalFees'
      PROVE  ChainAgrees'
  BY <1>7 DEF ChainAgrees, TmDeliverTx, B!TmDeliverTx, tendermintVars, B!tendermintVars,
              validatorSets, B!validatorSets
<1>8. CASE ExecStakeValidator(k, amount, fee) /\ B!ExecStakeValidator(k, amount, fee)
  <2>1. TmDeliverTx /\ B!TmDeliverTx /\ totalFeesB' = totalFees'
    BY <1>5, <1>8 DEF ExecStakeValidator, B!ExecStakeValidator
  <2>2. validatorTreeB' = validatorTree' /\ valUpdatesB' = valUpdates'
    BY <1>6, <1>8 DEF ExecStakeValidator, B!ExecStakeValidator, ChainAgrees
  <2> QED
    BY <1>7, <2>1, <2>2
<1>9. CASE ExecReleaseValidator(k, fee) /\ B!ExecReleaseValidator(k, fee)
  <2>1. TmDeliverTx /\ B!TmDeliverTx
    BY <1>9 DEF ExecReleaseValidator, B!ExecReleaseValidator
  <2>2. CASE k \in DOMAIN validatorTree
    BY <1>5, <1>6, <1>7, <1>9, <2>1, <2>2 DEF ExecReleaseValidator, B!ExecReleaseValidator, ChainAgrees
  <2>3. CASE k \notin DOMAIN validatorTree
    BY <1>7, <1>9, <2>1, <2>3 DEF ExecReleaseValidator, B!ExecReleaseValidator, ChainAgrees,
       validatorsVars, B!validatorsVars
  <2> QED
    BY <2>2, <2>3
<1>10. ASSUME NEW f, ExecOtherValidators(f), B!ExecOtherValidators(f) PROVE ChainAgrees'
  BY <1>5, <1>7, <1>10 DEF ExecOtherValidators, B!ExecOtherValidators, ChainAgrees
<1> QED
  BY <1>4, <1>8, <1>9, <1>10

\* The end of a block: the same updates, and Tendermint's answer to them.
LEMMA EndInStep ==
    ASSUME ChainAgrees, EndBlockValidators, B!EndBlockValidators
    PROVE  ChainAgrees'
<1> DEFINE kept == removeDuplicateValidatorUpdates(valUpdates)
           keptB == B!removeDuplicateValidatorUpdates(valUpdatesB)
<1>1. keptB = kept
  <2>1. valUpdatesB = valUpdates
    BY DEF ChainAgrees
  <2>2. \A k : B!Rightmost(valUpdates, k) = Rightmost(valUpdates, k)
    BY DEF B!Rightmost, Rightmost
  <2>3. B!UpdatedKeys(valUpdates) = UpdatedKeys(valUpdates)
    BY DEF B!UpdatedKeys, UpdatedKeys
  <2> QED
    BY <2>1, <2>2, <2>3 DEF B!removeDuplicateValidatorUpdates, removeDuplicateValidatorUpdates
<1>2. /\ TmEndBlock(kept) /\ B!TmEndBlock(keptB)
      /\ valUpdates' = SetToSeq({ValidatorUpdate(k, kept[k]) : k \in DOMAIN kept})
      /\ valUpdatesB' = B!SetToSeq({B!ValidatorUpdate(k, keptB[k]) : k \in DOMAIN keptB})
      /\ UNCHANGED <<validatorTree, totalFees, validatorTreeB, totalFeesB>>
  BY DEF EndBlockValidators, B!EndBlockValidators
<1> HIDE DEF kept, keptB
<1>3. valUpdatesB' = valUpdates'
  <2>1. \A k, p : B!ValidatorUpdate(k, p) = ValidatorUpdate(k, p)
    BY DEF B!ValidatorUpdate, ValidatorUpdate
  <2>2. \A S : B!SetToSeq(S) = SetToSeq(S)
    BY SecondRecords DEF B!SetToSeq, SetToSeq, B!IsInjective, IsInjective
  <2>3. {B!ValidatorUpdate(k, kept[k]) : k \in DOMAIN kept}
          = {ValidatorUpdate(k, kept[k]) : k \in DOMAIN kept}
    BY <2>1
  <2> QED
    BY <1>1, <1>2, <2>2, <2>3
<1>4. /\ phaseB' = phase' /\ lastSetB' = lastSet' /\ curSetB' = curSet'
      /\ nextSetB' = nextSet' /\ everSetB' = everSet'
  <2>1. /\ B!Accepted(kept) <=> Accepted(kept)
        /\ B!WithUpdates(kept) = WithUpdates(kept)
    BY DEF ChainAgrees, B!Accepted, Accepted, B!WithUpdates, WithUpdates
  <2>2. CASE Accepted(kept)
    BY <1>1, <1>2, <2>1, <2>2 DEF ChainAgrees, TmEndBlock, B!TmEndBlock
  <2>3. CASE ~Accepted(kept)
    BY <1>1, <1>2, <2>1, <2>3 DEF ChainAgrees, TmEndBlock, B!TmEndBlock,
       validatorSets, B!validatorSets
  <2> QED
    BY <2>2, <2>3
<1> QED
  BY <1>2, <1>3, <1>4 DEF ChainAgrees

\* The beginning of the chain, the commit, and the end of the consensus routine.
LEMMA ChainInStep ==
    ASSUME ChainAgrees
    PROVE  /\ InitChainValidators /\ B!InitChainValidators => ChainAgrees'
           /\ CommitValidators /\ B!CommitValidators => ChainAgrees'
           /\ TmFail /\ B!TmFail /\ UNCHANGED <<validatorsVars, B!validatorsVars>> => ChainAgrees'
           /\ UNCHANGED <<chainVars, B!chainVars>> => ChainAgrees'
<1>1. ASSUME InitChainValidators, B!InitChainValidators PROVE ChainAgrees'
  BY <1>1 DEF ChainAgrees, InitChainValidators, B!InitChainValidators, TmInitChain, B!TmInitChain,
              validatorSets, B!validatorSets
<1>2. ASSUME CommitValidators, B!CommitValidators PROVE ChainAgrees'
  BY <1>2 DEF ChainAgrees, CommitValidators, B!CommitValidators, TmCommit, B!TmCommit,
              validatorSets, B!validatorSets, validatorsVars, B!validatorsVars
<1>3. ASSUME TmFail, B!TmFail, UNCHANGED <<validatorsVars, B!validatorsVars>> PROVE ChainAgrees'
  BY <1>3 DEF ChainAgrees, TmFail, B!TmFail, validatorSets, B!validatorSets,
              validatorsVars, B!validatorsVars
<1>4. ASSUME UNCHANGED <<chainVars, B!chainVars>> PROVE ChainAgrees'
  BY <1>4 DEF ChainAgrees, chainVars, B!chainVars, tendermintVars, B!tendermintVars,
              validatorSets, B!validatorSets, validatorsVars, B!validatorsVars
<1> QED
  BY <1>1, <1>2, <1>3, <1>4

\* Contracts, when a transaction calls one.
LEMMA ContractInStep ==
    ASSUME ContractsAgree, NEW d, ExecContracts(d), B!ExecContracts(d)
    PROVE  /\ ContractsAgree'
           /\ B!ContractAddress(d.target) = ContractAddress(d.target)
<1>1. /\ B!selectTxType(d) = selectTxType(d)
      /\ B!NextContract = NextContract
      /\ \A c : B!CounterOf(c) = CounterOf(c)
      /\ \A f, k, v : B!With(f, k, v) = With(f, k, v)
  BY SecondTransactions, SecondRecords
     DEF ContractsAgree, B!NextContract, NextContract, B!CounterOf, CounterOf, B!With, With
<1>2. B!ContractAddress(d.target) = ContractAddress(d.target)
  BY <1>1 DEF ContractsAgree, B!ContractAddress, ContractAddress
<1>3. CASE selectTxType(d) = "contract"
  <2>1. ExecContract(d.target, d.payload) /\ B!ExecContract(d.target, d.payload)
    BY <1>1, <1>3 DEF ExecContracts, B!ExecContracts
  <2> QED
    BY <1>1, <1>2, <2>1 DEF ContractsAgree, ExecContract, B!ExecContract
<1>4. CASE selectTxType(d) # "contract"
  BY <1>1, <1>2, <1>4 DEF ContractsAgree, ExecContracts, B!ExecContracts,
     contractsVars, B!contractsVars
<1> QED
  BY <1>3, <1>4, <1>2

\* And at a commit; the index of payloads is not compared.
LEMMA ContractsCommitInStep ==
    ASSUME ContractsAgree, NEW watch, NEW watchB, NEW swap,
           CommitContracts(watch, swap), B!CommitContracts(watchB, swap)
    PROVE  ContractsAgree'
<1>1. contractTreeB' = contractTree'
  BY DEF ContractsAgree, CommitContracts, B!CommitContracts
<1>2. B!StoredPayloads = StoredPayloads
  BY DEF ContractsAgree, B!StoredPayloads, StoredPayloads
<1>3. contractStorageDbB' = contractStorageDb' /\ contractStorageDb2B' = contractStorageDb2'
  BY <1>2 DEF ContractsAgree, CommitContracts, B!CommitContracts, SwapContractDb,
              B!SwapContractDb, EmptyMap, B!EmptyMap
<1>4. contractNumOnDbB' = contractNumOnDb'
  BY <1>1, SecondRecords DEF CommitContracts, B!CommitContracts
<1> QED
  BY <1>1, <1>3, <1>4 DEF ContractsAgree, CommitContracts, B!CommitContracts, EmptyMap, B!EmptyMap

\* The counter and the hash a transaction is queued with: the first node may
\* have them from the check, but a fresh check has found what the second finds.
LEMMA EnqueueInStep ==
    ASSUME AccountsInv, InStep, NEW raw, Fresh(raw), NEW d, d = raw.data,
           accountsCode(d) = 0, B!ContractAddress(d.target) = ContractAddress(d.target),
           EnqueueTx(<<SourceAfter(d), CounterOfTx(d)>>, HashAfter(d)),
           B!EnqueueTx(<<B!SourceAfter(d), B!CounterOfTx(d)>>, B!HashAfter(d))
    PROVE  TxsAgree'
<1>1. /\ AccountsAgree /\ TxsAgree /\ ~B!inCache(d)
      /\ B!selectTxType(d) = selectTxType(d) /\ B!Digest(d) = Digest(d)
      /\ B!Members(d) = Members(d)
      /\ \A h, c : B!Extended(h, c) = Extended(h, c)
  BY SecondTransactions DEF InStep, B!inCache, EmptyMap
<1>2. B!CounterOfTx(d) = CounterOfTx(d) /\ B!HashOfTx(d) = HashOfTx(d)
  <2>1. B!fetchAccount(d.source).counter = fetchAccount(d.source).counter
    BY <1>1, AccountsFound, SecondReads
  <2>2. inCache(d) => /\ txMap[d].counter = fetchAccount(d.source).counter
                      /\ txMap[d].hash = Digest(d)
    BY DEF Fresh, Checked
  <2> QED
    BY <1>1, <2>1, <2>2 DEF CounterOfTx, B!CounterOfTx, HashOfTx, B!HashOfTx
<1>3. B!SourceAfter(d) = SourceAfter(d)
  BY <1>1 DEF B!SourceAfter, SourceAfter, B!Last, Last
<1>4. B!HashAfter(d) = HashAfter(d)
  BY <1>1, <1>2 DEF B!HashAfter, HashAfter
<1>5. \A key, hash : B!Queued(key, hash) = Queued(key, hash)
  BY DEF B!Queued, Queued
<1> QED
  BY <1>1, <1>2, <1>3, <1>4, <1>5 DEF TxsAgree, EnqueueTx, B!EnqueueTx

\* The roots filed for the height are one by BothCommit, and so are the trees.
LEMMA TxsCommitInStep ==
    ASSUME TxsAgree, CommitTxs, B!CommitTxs,
           blockHashTree'[blockHeight] = blockHashTreeB'[blockHeight]
    PROVE  TxsAgree'
<1>1. PICK tree : /\ blockHashTree' = [h \in DOMAIN blockHashTree \cup {blockHeight} |->
                                         IF h = blockHeight THEN tree ELSE blockHashTree[h]]
                  /\ IF SwapDue
                     THEN txStorageTree' = EmptyMap /\ txStorageTree2' = tree
                     ELSE txStorageTree' = tree /\ UNCHANGED txStorageTree2
  BY DEF CommitTxs
<1>2. PICK treeB : /\ blockHashTreeB' = [h \in DOMAIN blockHashTreeB \cup {blockHeightB} |->
                                         IF h = blockHeightB THEN treeB ELSE blockHashTreeB[h]]
                   /\ IF B!SwapDue
                      THEN txStorageTreeB' = B!EmptyMap /\ txStorageTree2B' = treeB
                      ELSE txStorageTreeB' = treeB /\ UNCHANGED txStorageTree2B
  BY DEF B!CommitTxs
<1>3. blockHeightB = blockHeight /\ blockHashTreeB = blockHashTree
  BY DEF TxsAgree
<1>4. treeB = tree
  <2>1. blockHashTree'[blockHeight] = tree
    BY <1>1
  <2>2. blockHashTreeB'[blockHeight] = treeB
    BY <1>2, <1>3
  <2> QED
    BY <2>1, <2>2
<1>5. (B!SwapDue <=> SwapDue) /\ B!EmptyMap = EmptyMap
  BY <1>3 DEF B!SwapDue, SwapDue, B!EmptyMap, EmptyMap
<1>6. /\ blockHashTreeB' = blockHashTree'
      /\ txStorageTreeB' = txStorageTree' /\ txStorageTree2B' = txStorageTree2'
  BY <1>1, <1>2, <1>3, <1>4, <1>5 DEF TxsAgree
<1> QED
  BY <1>3, <1>6 DEF TxsAgree, CommitTxs, B!CommitTxs

\* Both commit the accounts as they are: entries nobody wrote are the tree's.
LEMMA AccountsCommitInStep ==
    ASSUME AccountsInv, AccountsAgree, CommitAccounts, B!CommitAccounts
    PROVE  AccountsAgree'
<1>1. B!CommittedTree = CommittedTree
  <2>1. /\ accountTreeB = accountTree /\ tempNewAccountMapB = tempNewAccountMap
        /\ DOMAIN tempAccountMap \subseteq DOMAIN accountTree
        /\ DOMAIN tempAccountMapB \subseteq DOMAIN accountTree
    BY DEF AccountsAgree, AccountsInv, CacheCoherent, Backed, IsMap
  <2> DEFINE tree == [a \in DOMAIN accountTree \cup DOMAIN tempNewAccountMap |->
                        IF a \in DOMAIN accountTree THEN Live[a] ELSE tempNewAccountMap[a]]
  <2>2. CommittedTree = tree
    <3>1. \A a \in DOMAIN accountTree :
            Live[a] = IF a \in DOMAIN tempAccountMap /\ tempAccountMap[a].Modified
                      THEN tempAccountMap[a].now ELSE accountTree[a]
      BY DEF Live, fetchAccount, FromTree, AccountsInv, CacheCoherent
    <3> QED
      BY <2>1, <3>1 DEF CommittedTree
  <2>3. B!CommittedTree = tree
    <3>1. \A a \in DOMAIN accountTree :
            LiveIn(accountTree, tempAccountMapB)[a]
              = IF a \in DOMAIN tempAccountMapB /\ tempAccountMapB[a].Modified
                THEN tempAccountMapB[a].now ELSE accountTree[a]
      BY DEF LiveIn, Entry, FromTree, AccountsAgree, Backed
    <3>2. LiveIn(accountTree, tempAccountMapB) = Live
      BY DEF AccountsAgree
    <3> HIDE DEF LiveIn
    <3> QED
      BY <2>1, <3>1, <3>2 DEF B!CommittedTree
  <2> QED
    BY <2>2, <2>3
<1>2. /\ accountTreeB' = accountTree' /\ tempNewAccountMapB' = tempNewAccountMap'
      /\ accountNumOnDbB' = accountNumOnDb'
  BY <1>1, SecondRecords DEF CommitAccounts, B!CommitAccounts, EmptyMap, B!EmptyMap
<1>3. tempAccountMap' = EmptyMap /\ tempAccountMapB' = EmptyMap
  BY DEF CommitAccounts, B!CommitAccounts, EmptyMap, B!EmptyMap
<1>4. Backed(accountTree', tempAccountMapB')
  BY <1>3 DEF Backed, IsMap, EmptyMap
<1>5. LiveIn(accountTree', tempAccountMapB') = Live'
  BY <1>3 DEF LiveIn, Entry, Live, fetchAccount, EmptyMap
<1> QED
  BY <1>2, <1>4, <1>5 DEF AccountsAgree

-----------------------------------------------------------------------------
(***************************************************************************)
(* The calls.                                                              *)
(***************************************************************************)
\* What the node's invariant says of its accounts and of txMap, genesis or not.
LEMMA AppInvParts == AppInv => AccountsInv /\ CheckedTxs /\ ValidatorsTypeOK
<1>1. AppInit => AccountsInv
  BY InitInv DEF AppInit
<1> QED
  BY <1>1, AppInvTypes DEF AppInv, NodeInv, AppTypeOK

LEMMA UntouchedInStep ==
    /\ AccountsAgree /\ UNCHANGED <<accountsVars, B!accountsVars>> => AccountsAgree'
    /\ ContractsAgree /\ UNCHANGED <<contractsVars, B!contractsVars>> => ContractsAgree'
    /\ TxsAgree /\ UNCHANGED <<txStoreVars, B!txStoreVars>> => TxsAgree'
<1>1. ASSUME AccountsAgree, UNCHANGED <<accountsVars, B!accountsVars>> PROVE AccountsAgree'
  <2>1. UNCHANGED <<accountTree, tempAccountMap, tempNewAccountMap, accountNumOnDb,
                    accountTreeB, tempAccountMapB, tempNewAccountMapB, accountNumOnDbB>>
    BY <1>1 DEF accountsVars, B!accountsVars
  <2>2. Live' = Live
    BY <2>1 DEF Live, fetchAccount
  <2> QED
    BY <1>1, <2>1, <2>2 DEF AccountsAgree
<1>2. ASSUME ContractsAgree, UNCHANGED <<contractsVars, B!contractsVars>> PROVE ContractsAgree'
  BY <1>2 DEF ContractsAgree, contractsVars, B!contractsVars
<1>3. ASSUME TxsAgree, UNCHANGED <<txStoreVars, B!txStoreVars>> PROVE TxsAgree'
  BY <1>3 DEF TxsAgree, txStoreVars, B!txStoreVars
<1> QED
  BY <1>1, <1>2, <1>3

\* A check or a query of the first node shows in its caches only.
LEMMA LocalInStep ==
    ASSUME AccountsInv, InStep, UNCHANGED varsB,
           Query \/ \E raw \in RawTxs : CheckTx(raw)
    PROVE  InStep'
<1>1. /\ UNCHANGED <<chainVars, contractsVars, txStoreVars>>
      /\ (\E A : Fetch(A)) \/ ToggleAccountWatch
  BY DEF Query, CheckTx, FindAccountByPubKey
<1>2. /\ UNCHANGED <<B!chainVars, B!contractsVars, B!txStoreVars, B!accountsVars, txMapB>>
      /\ UNCHANGED <<accountTreeB, tempAccountMapB, tempNewAccountMapB, accountNumOnDbB>>
  BY DEF varsB, B!chainVars, B!contractsVars, B!txStoreVars, B!accountsVars, B!tendermintVars,
         B!validatorSets, B!validatorsVars
<1>3. AccountsAgree'
  <2>1. UNCHANGED <<accountTree, tempNewAccountMap, accountNumOnDb>>
    BY <1>1 DEF Fetch, ToggleAccountWatch
  <2>2. Live' = Live
    <3>1. CASE \E A : Fetch(A)
      BY <3>1, FetchRefines
    <3>2. CASE ToggleAccountWatch
      BY <3>2 DEF ToggleAccountWatch, Live, fetchAccount
    <3> QED
      BY <1>1, <3>1, <3>2
  <2> QED
    BY <1>2, <2>1, <2>2 DEF InStep, AccountsAgree
<1>4. ChainAgrees' /\ ContractsAgree' /\ TxsAgree'
  BY <1>1, <1>2, ChainInStep, UntouchedInStep DEF InStep
<1> QED
  BY <1>2, <1>3, <1>4 DEF InStep, EmptyMap

\* A transaction whose check is fresh, or that was never checked.
LEMMA DeliverInStep ==
    ASSUME AppInv, InStep, NEW raw \in RawTxs, Fresh(raw), DeliverTx(raw), B!DeliverTx(raw)
    PROVE  InStep'
<1> DEFINE d == raw.data
           code == DeliverTxCode(raw)
<1>1. /\ AccountsInv /\ CheckedTxs /\ ValidatorsTypeOK /\ d \in TxData
      /\ AccountsAgree /\ ChainAgrees /\ ContractsAgree /\ TxsAgree
      /\ txMapB = EmptyMap /\ validatorTreeB = validatorTree
  BY AppInvParts DEF InStep, ChainAgrees, TxData
<1>2. B!DeliverTxCode(raw) = code /\ B!Panic = Panic /\ Panic # 0
  BY <1>1, SecondAnswers, SecondTransactions DEF Panic
<1>3. \/ code = 0 /\ Accept(raw) /\ B!Accept(raw)
      \/ Reject(raw) /\ B!Reject(raw)
      \/ DeliverTxPanics(raw) /\ B!DeliverTxPanics(raw)
  BY <1>2 DEF DeliverTx, B!DeliverTx, Accept, B!Accept, Reject, B!Reject,
              DeliverTxPanics, B!DeliverTxPanics
<1> HIDE DEF code
<1>4. ASSUME code = 0, Accept(raw), B!Accept(raw) PROVE InStep'
  <2>1. accountsCode(d) = 0 /\ selectTxType(d) # "none"
    BY <1>1, <1>4, DeliveredCode DEF code
  <2>2. /\ ExecAccounts(d) /\ ExecValidators(d) /\ ExecContracts(d)
        /\ EnqueueTx(<<SourceAfter(d), CounterOfTx(d)>>, HashAfter(d))
        /\ B!ExecAccounts(d) /\ B!ExecValidators(d) /\ B!ExecContracts(d)
        /\ B!EnqueueTx(<<B!SourceAfter(d), B!CounterOfTx(d)>>, B!HashAfter(d))
        /\ txMapB' = B!txMapAfter(d)
    BY <1>4 DEF Accept, B!Accept
  <2> HIDE DEF d
  <2>3. AccountsAgree'
    BY <1>1, <2>1, <2>2, AccountsInStep
  <2>4. ChainAgrees'
    BY <1>1, <2>1, <2>2, ValidatorsInStep
  <2>5. ContractsAgree' /\ B!ContractAddress(d.target) = ContractAddress(d.target)
    BY <1>1, <2>2, ContractInStep
  <2>6. TxsAgree'
    BY <1>1, <2>1, <2>2, <2>5, EnqueueInStep DEF d
  <2>7. txMapB' = EmptyMap
    BY <1>1, <2>2 DEF B!txMapAfter, B!inCache, EmptyMap
  <2> QED
    BY <2>3, <2>4, <2>5, <2>6, <2>7 DEF InStep
<1>5. ASSUME \/ Reject(raw) /\ B!Reject(raw)
             \/ DeliverTxPanics(raw) /\ B!DeliverTxPanics(raw)
      PROVE  InStep'
  <2>1. /\ (\E A : Fetch(A)) /\ (\E A : B!Fetch(A))
        /\ UNCHANGED <<contractsVars, txStoreVars, B!contractsVars, B!txStoreVars, txMapB>>
        /\ \/ UNCHANGED <<chainVars, B!chainVars>>
           \/ TmFail /\ B!TmFail /\ UNCHANGED <<validatorsVars, B!validatorsVars>>
    BY <1>5 DEF Reject, B!Reject, DeliverTxPanics, B!DeliverTxPanics
  <2>2. AccountsAgree'
    BY <1>1, <2>1, FetchInStep
  <2>3. ChainAgrees' /\ ContractsAgree' /\ TxsAgree'
    BY <1>1, <2>1, ChainInStep, UntouchedInStep
  <2> QED
    BY <1>1, <2>1, <2>2, <2>3 DEF InStep
<1> QED
  BY <1>3, <1>4, <1>5

\* The calls of a block around its transactions.
LEMMA BlockInStep ==
    ASSUME AppInv, InStep,
           \/ BothInitChain
           \/ \E signed, proposer, byzantine : BothBeginBlock(signed, proposer, byzantine)
           \/ BothEndBlock
           \/ BothCommit
    PROVE  InStep'
<1>1. /\ AccountsInv /\ AccountsAgree /\ ChainAgrees /\ ContractsAgree /\ TxsAgree
      /\ txMapB = EmptyMap
  BY AppInvParts DEF InStep
<1>2. CASE BothInitChain
  <2>1. /\ InitChainValidators /\ B!InitChainValidators
        /\ UNCHANGED <<accountsVars, contractsVars, txStoreVars>>
        /\ UNCHANGED <<B!accountsVars, B!contractsVars, B!txStoreVars, txMapB>>
    BY <1>2 DEF BothInitChain, InitChain, B!InitChain
  <2> QED
    BY <1>1, <2>1, ChainInStep, UntouchedInStep DEF InStep
<1>3. ASSUME NEW signed, NEW proposer, NEW byzantine, BothBeginBlock(signed, proposer, byzantine)
      PROVE  InStep'
  <2>1. /\ BeginBlockValidators(signed, proposer, byzantine)
        /\ B!BeginBlockValidators(signed, proposer, byzantine)
        /\ UNCHANGED <<accountsVars, contractsVars, txStoreVars>>
        /\ UNCHANGED <<B!accountsVars, B!contractsVars, B!txStoreVars, txMapB>>
    BY <1>3 DEF BothBeginBlock, BeginBlock, B!BeginBlock
  <2> QED
    BY <1>1, <2>1, BeginInStep, UntouchedInStep DEF InStep
<1>4. CASE BothEndBlock
  <2>1. /\ EndBlockValidators /\ B!EndBlockValidators
        /\ EndBlockTxs /\ B!EndBlockTxs
        /\ UNCHANGED <<accountsVars, contractsVars>>
        /\ UNCHANGED <<B!accountsVars, B!contractsVars, txMapB>>
    BY <1>4 DEF BothEndBlock, EndBlock, B!EndBlock
  <2>2. TxsAgree'
    BY <1>1, <2>1 DEF TxsAgree, EndBlockTxs, B!EndBlockTxs
  <2> QED
    BY <1>1, <2>1, <2>2, EndInStep, UntouchedInStep DEF InStep
<1>5. CASE BothCommit
  <2>1. /\ CommitValidators /\ B!CommitValidators
        /\ CommitAccounts /\ B!CommitAccounts
        /\ CommitTxs /\ B!CommitTxs
        /\ CommitContracts(accountWatch, SwapDue) /\ B!CommitContracts(accountWatchB, B!SwapDue)
        /\ UNCHANGED txMapB
    BY <1>5 DEF BothCommit, CommitBlock, B!CommitBlock
  <2>2. blockHashTree'[blockHeight] = blockHashTreeB'[blockHeight]
    BY <1>1, <1>5 DEF BothCommit, TxsAgree
  <2>3. ContractsAgree'
    <3>1. B!SwapDue = SwapDue
      BY <1>1 DEF TxsAgree, B!SwapDue, SwapDue
    <3> QED
      BY <1>1, <2>1, <3>1, ContractsCommitInStep
  <2> QED
    BY <1>1, <2>1, <2>2, <2>3, ChainInStep, AccountsCommitInStep, TxsCommitInStep DEF InStep
<1> QED
  BY <1>2, <1>3, <1>4, <1>5

-----------------------------------------------------------------------------
(***************************************************************************)
(* The invariant, and what it says of the two nodes.                       *)
(***************************************************************************)
LEMMA ReplicasStart == ReplicasInit => ReplicasInv
<1> SUFFICES ASSUME ReplicasInit PROVE ReplicasInv
  OBVIOUS
<1>1. AppInv
  BY DEF ReplicasInit, AppInit, AppInv, ValidatorsInit, TendermintInit
<1>2. AppInit /\ B!AppInit
  BY DEF ReplicasInit
<1>3. ChainAgrees
  BY <1>2 DEF AppInit, B!AppInit, ValidatorsInit, B!ValidatorsInit, TendermintInit,
     B!TendermintInit, ChainAgrees, EmptyMap, B!EmptyMap
<1>4. AccountsAgree
  <2>1. /\ accountTree = Genesis /\ accountTreeB = Genesis
        /\ tempAccountMap = EmptyMap /\ tempAccountMapB = EmptyMap
        /\ tempNewAccountMapB = tempNewAccountMap /\ accountNumOnDbB = accountNumOnDb
    BY <1>2, SecondRecords DEF AppInit, B!AppInit, AccountsInit, B!AccountsInit, EmptyMap, B!EmptyMap
  <2>2. Backed(accountTree, tempAccountMapB)
    BY <2>1 DEF Backed, IsMap, EmptyMap
  <2>3. LiveIn(accountTree, tempAccountMapB) = Live
    BY <2>1 DEF LiveIn, Entry, Live, fetchAccount, EmptyMap
  <2> QED
    BY <2>1, <2>2, <2>3 DEF AccountsAgree
<1>5. ContractsAgree /\ TxsAgree /\ txMapB = EmptyMap
  BY <1>2 DEF AppInit, B!AppInit, ContractsInit, B!ContractsInit, TxStoreInit, B!TxStoreInit,
     ContractsAgree, TxsAgree, EmptyMap, B!EmptyMap
<1> QED
  BY <1>1, <1>3, <1>4, <1>5 DEF ReplicasInv, InStep

\* Every step keeps the nodes in step, or is the delivery of a stale check.
LEMMA ReplicasStep == RoomForTxs /\ ReplicasInv /\ [ReplicasNext]_replicasVars => ReplicasInv'
<1> SUFFICES ASSUME RoomForTxs, ReplicasInv, [ReplicasNext]_replicasVars PROVE ReplicasInv'
  OBVIOUS
<1>1. AppInv /\ (~staleDelivered => InStep)
  BY DEF ReplicasInv
<1>2. AccountsInv
  BY <1>1, AppInvParts
<1>3. AppInv'
  <2>1. [AppNext]_appVars
    BY DEF ReplicasNext, replicasVars, AppNext, LocalCheckTx, LocalQuery, BothInitChain,
           BothBeginBlock, BothDeliverTx, BothEndBlock, BothCommit
  <2> QED
    BY <1>1, <2>1, AppStep
<1>4. ASSUME NEW raw \in RawTxs, LocalCheckTx(raw), ~staleDelivered' PROVE InStep'
  BY <1>1, <1>2, <1>4, LocalInStep DEF LocalCheckTx
<1>5. ASSUME LocalQuery, ~staleDelivered' PROVE InStep'
  BY <1>1, <1>2, <1>5, LocalInStep DEF LocalQuery
<1>6. ASSUME NEW raw \in RawTxs, BothDeliverTx(raw), ~staleDelivered' PROVE InStep'
  BY <1>1, <1>6, DeliverInStep DEF BothDeliverTx
<1>7. ASSUME BothInitChain \/ (\E signed, proposer, byzantine :
                                 BothBeginBlock(signed, proposer, byzantine))
             \/ BothEndBlock \/ BothCommit,
             ~staleDelivered'
      PROVE  InStep'
  <2>1. UNCHANGED staleDelivered
    BY <1>7 DEF BothInitChain, BothBeginBlock, BothEndBlock, BothCommit
  <2> QED
    BY <1>1, <1>7, <2>1, BlockInStep
<1>8. ASSUME UNCHANGED replicasVars, ~staleDelivered' PROVE InStep'
  <2>1. UNCHANGED <<accountsVars, chainVars, contractsVars, txStoreVars, staleDelivered>>
    BY <1>8 DEF replicasVars, appVars
  <2>2. UNCHANGED <<B!accountsVars, B!chainVars, B!contractsVars, B!txStoreVars, txMapB>>
    BY <1>8 DEF replicasVars, varsB, B!chainVars, B!contractsVars, B!txStoreVars, B!accountsVars,
                B!tendermintVars, B!validatorSets, B!validatorsVars
  <2> QED
    BY <1>1, <1>8, <2>1, <2>2, ChainInStep, UntouchedInStep DEF InStep
<1> QED
  BY <1>3, <1>4, <1>5, <1>6, <1>7, <1>8 DEF ReplicasInv, ReplicasNext

LEMMA InStepAgree == ReplicasInv => Agreement
<1> SUFFICES ASSUME AppInv, InStep PROVE Replicated = B!Replicated
                    /\ \A raw \in RawTxs : Fresh(raw) => DeliverTxCode(raw) = B!DeliverTxCode(raw)
  BY DEF ReplicasInv, Agreement
<1>1. Replicated = B!Replicated
  <2>1. B!Live = LiveIn(accountTreeB, tempAccountMapB)
    BY SecondRecords DEF B!Live, LiveIn, B!fetchAccount, Entry
  <2>2. B!Live = Live
    BY <2>1 DEF InStep, AccountsAgree
  <2>3. /\ B!tendermintVars = tendermintVars
        /\ B!validatorsVars = validatorsVars
        /\ B!txStoreVars = txStoreVars
    BY DEF InStep, ChainAgrees, TxsAgree, B!tendermintVars, tendermintVars, B!validatorSets,
           validatorSets, B!validatorsVars, validatorsVars, B!txStoreVars, txStoreVars
  <2> QED
    BY <2>2, <2>3 DEF Replicated, B!Replicated, InStep, AccountsAgree, ContractsAgree
<1>2. ASSUME NEW raw \in RawTxs, Fresh(raw) PROVE DeliverTxCode(raw) = B!DeliverTxCode(raw)
  BY <1>2, AppInvParts, SecondAnswers
<1> QED
  BY <1>1, <1>2

\* Two nodes given the same blocks are in step until a block has a transaction
\* with a stale check: the caches that CheckTx and Query fill (accounts.go,
\* fetchAccount; app.go, isValid) are invisible in what blocks do.
THEOREM ReplicasStayInStep == RoomForTxs => (ReplicasSpec => []ReplicasInv)
<1> SUFFICES ASSUME RoomForTxs PROVE ReplicasSpec => []ReplicasInv
  OBVIOUS
<1>1. ReplicasInit => ReplicasInv
  BY ReplicasStart
<1>2. ReplicasInv /\ [ReplicasNext]_replicasVars => ReplicasInv'
  BY ReplicasStep
<1> QED
  BY <1>1, <1>2, PTL DEF ReplicasSpec

\* So they have the same trees, validators and hashes, and DeliverTx (app.go)
\* answers with the same codes and panics.
THEOREM ReplicasAgree == RoomForTxs => (ReplicasSpec => []Agreement)
BY ReplicasStayInStep, InStepAgree, PTL

=============================================================================
