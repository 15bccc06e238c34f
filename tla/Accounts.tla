------------------------------ MODULE Accounts ------------------------------
(***************************************************************************)
(* The account store of the node (accounts.go, and the account side of     *)
(* exectx.go): the authenticated tree of accounts, the cache every handler *)
(* reads and writes through, the accounts opened by the running block, and *)
(* the optional index from BLS keys to addresses.                          *)
(*                                                                         *)
(* An ABCI call holds the application's only mutex, so one call is one     *)
(* step; CheckTx and Query calls fall between the calls of a block and     *)
(* share this cache with them.                                             *)
(***************************************************************************)
EXTENDS AccountRecords

CONSTANTS
    Genesis,     \* accountTree once NewApp has committed its template accounts
    TxAmounts,   \* the amounts transactions may name
    TxFees,      \* the fees of the transaction lengths, gas * length
    Batches      \* the address lists batches may carry

ASSUME GenesisAssumption ==
    /\ IsMap(Genesis, Addresses, Leaf)
    /\ \E n \in 0 .. MaxAccounts : DOMAIN Genesis = 0 .. n - 1

ASSUME InputsAssumption ==
    /\ TxAmounts \subseteq UInt32
    /\ TxFees \subseteq UInt32
    /\ Batches \subseteq Seq(Addresses)

VARIABLES
    accountTree,        \* address -> record; the durable, hashed state
    tempAccountMap,     \* address -> Account fetched since the last commit
    tempNewAccountMap,  \* address -> record opened since the last commit
    accountNumOnDb,     \* the next free address
    accountLedgerDb,    \* BLS key -> address
    accountWatch        \* whether new accounts are entered in that index

accountsVars == <<accountTree, tempAccountMap, tempNewAccountMap,
                  accountNumOnDb, accountLedgerDb, accountWatch>>

(***************************************************************************)
(* A cached Account.  now is the record the account would commit to.  The  *)
(* slices schnorrPubKey and counter point into the bytes read from the     *)
(* tree, and writeAccount moves the record to new bytes: signatures are    *)
(* checked against these two for as long as the Account is cached.         *)
(***************************************************************************)
CachedAccount == [ now           : Leaf,
                   schnorrPubKey : Keys,
                   counter       : UInt32,
                   Modified      : BOOLEAN ]

FromTree(leaf) == [ now           |-> leaf,
                    schnorrPubKey |-> leaf.schnorr,
                    counter       |-> leaf.Counter,
                    Modified      |-> FALSE ]

Found(a) == a \in DOMAIN tempAccountMap \cup DOMAIN accountTree

fetchAccount(a) == IF a \in DOMAIN tempAccountMap THEN tempAccountMap[a]
                   ELSE FromTree(accountTree[a])

\* Faulty variant: what is cached already is read from the tree again.
FetchedAfresh(A) == [a \in DOMAIN tempAccountMap \cup (A \cap DOMAIN accountTree) |->
                       IF a \in A THEN FromTree(accountTree[a]) ELSE tempAccountMap[a]]

\* The cache once the accounts of A have been fetched, those there are.
Fetched(A) == [a \in DOMAIN tempAccountMap \cup (A \cap DOMAIN accountTree) |->
                 fetchAccount(a)]

\* Faulty variants: Modified is not set; the slices follow the record.
writeUnmarked(acc, leaf) == [acc EXCEPT !.now = leaf]

writeFollowed(acc, leaf) ==
    [acc EXCEPT !.now = leaf, !.Modified = TRUE,
                !.schnorrPubKey = leaf.schnorr, !.counter = leaf.Counter]

writeAccount(acc, leaf) == [acc EXCEPT !.now = leaf, !.Modified = TRUE]

-----------------------------------------------------------------------------
(***************************************************************************)
(* Handlers.  verifyAccounts fetches the source and the target, and lets a *)
(* transaction through when the wrapped sum of amount and fee is covered.  *)
(***************************************************************************)
verifyAccounts(s, T, amount, fee) ==
    /\ Found(s)
    /\ \A t \in T : Found(t)
    /\ Plus(amount, fee) <= fetchAccount(s).now.Amount

\* fetchAccount on behalf of CheckTx, a rejected transaction or a Query.
Fetch(A) ==
    /\ tempAccountMap' = Fetched(A)
    /\ UNCHANGED <<accountTree, tempNewAccountMap, accountNumOnDb,
                   accountLedgerDb, accountWatch>>

\* execUpdate as the whole of an update, and as the account side of a stake
\* (T = {}) and of a contract call (T is the target verifyAccounts fetched).
ExecUpdate(s, T, amount, fee, st) ==
    /\ verifyAccounts(s, T, amount, fee)
    /\ tempAccountMap' = [Fetched({s} \cup T) EXCEPT
         ![s] = writeAccount(@, Debited(@.now, amount, fee, st))]
    /\ UNCHANGED <<accountTree, tempNewAccountMap, accountNumOnDb,
                   accountLedgerDb, accountWatch>>

ExecTransfer(s, t, amount, fee, st) ==
    /\ verifyAccounts(s, {t}, amount, fee)
    /\ LET paid == [Fetched({s, t}) EXCEPT
                      ![s] = writeAccount(@, Debited(@.now, amount, fee, st))]
       IN  tempAccountMap' = [paid EXCEPT
                      ![t] = writeAccount(@, Credited(@.now, amount))]
    /\ UNCHANGED <<accountTree, tempNewAccountMap, accountNumOnDb,
                   accountLedgerDb, accountWatch>>

\* amount is uint32(stake); verifyAccounts saw a transaction of amount 0.
ExecRelease(s, amount, fee) ==
    /\ verifyAccounts(s, {}, 0, fee)
    /\ tempAccountMap' = [Fetched({s}) EXCEPT
         ![s] = writeAccount(@, Released(@.now, amount, fee))]
    /\ UNCHANGED <<accountTree, tempNewAccountMap, accountNumOnDb,
                   accountLedgerDb, accountWatch>>

ExecAccountKeyChanger(s, key, b, fee) ==
    /\ verifyAccounts(s, {}, 0, fee)
    /\ tempAccountMap' = [Fetched({s}) EXCEPT
         ![s] = writeAccount(@, Rekeyed(@.now, key, b, fee))]
    /\ UNCHANGED <<accountTree, tempNewAccountMap, accountNumOnDb,
                   accountLedgerDb, accountWatch>>

\* Faulty variant: accountNumOnDb is not advanced.
ExecCreateAccountInPlace(s, amount, fee, key, b) ==
    /\ verifyAccounts(s, {}, amount, fee)
    /\ accountNumOnDb \in Addresses
    /\ tempNewAccountMap' = [a \in DOMAIN tempNewAccountMap \cup {accountNumOnDb} |->
         IF a = accountNumOnDb THEN NewLeaf(amount, key, b) ELSE tempNewAccountMap[a]]
    /\ tempAccountMap' = [Fetched({s}) EXCEPT
         ![s] = writeAccount(@, Debited(@.now, amount, fee, NoState))]
    /\ UNCHANGED <<accountTree, accountNumOnDb, accountLedgerDb, accountWatch>>

ExecCreateAccount(s, amount, fee, key, b) ==
    /\ verifyAccounts(s, {}, amount, fee)
    /\ accountNumOnDb \in Addresses
    /\ tempNewAccountMap' = [a \in DOMAIN tempNewAccountMap \cup {accountNumOnDb} |->
         IF a = accountNumOnDb THEN NewLeaf(amount, key, b) ELSE tempNewAccountMap[a]]
    /\ accountNumOnDb' = accountNumOnDb + 1
    /\ tempAccountMap' = [Fetched({s}) EXCEPT
         ![s] = writeAccount(@, Debited(@.now, amount, fee, NoState))]
    /\ UNCHANGED <<accountTree, accountLedgerDb, accountWatch>>

\* Unknown participants are skipped by verifyBatch and by execUpdate alike.
\* The multisignature's verdict is taken from outside.
ExecBatch(s, p, tail, amount, fee, st) ==
    /\ verifyAccounts(s, {}, amount, fee)
    /\ LET members == BatchMembers(p, tail)
           cache   == Fetched({s} \cup {members[i] : i \in DOMAIN members})
           n(a)    == Occurrences(members, a)
           settled == [a \in DOMAIN cache |->
                IF n(a) = 0 THEN cache[a]
                ELSE writeAccount(cache[a], Settled(cache[a].now, n(a), amount, fee, st))]
       IN  tempAccountMap' = [settled EXCEPT
                ![s] = writeAccount(@, BatchCredited(@.now, p, amount, fee))]
    /\ UNCHANGED <<accountTree, tempNewAccountMap, accountNumOnDb,
                   accountLedgerDb, accountWatch>>

\* Faulty variant: the batch of new accounts is not committed.
CommittedTreeOld ==
    [a \in DOMAIN accountTree |->
       IF a \in DOMAIN tempAccountMap /\ tempAccountMap[a].Modified THEN tempAccountMap[a].now
       ELSE accountTree[a]]

(***************************************************************************)
(* commitAccountsToDb, then the recount of the leaves that Commit does.    *)
(* AddWithTx refuses an address that is taken.  Several new accounts with  *)
(* one BLS key are entered in the index in the random order of a Go map.   *)
(***************************************************************************)
CommittedTree ==
    [a \in DOMAIN accountTree \cup DOMAIN tempNewAccountMap |->
       IF a \in DOMAIN tempAccountMap /\ tempAccountMap[a].Modified THEN tempAccountMap[a].now
       ELSE IF a \in DOMAIN accountTree THEN accountTree[a]
       ELSE tempNewAccountMap[a]]

NewIndexEntries ==
    IF accountWatch
    THEN {<<tempNewAccountMap[a].bls, a>> : a \in DOMAIN tempNewAccountMap}
    ELSE {}

CommitAccounts ==
    /\ accountTree' = CommittedTree
    /\ accountNumOnDb' = Cardinality(DOMAIN accountTree')
    /\ \E index \in [DOMAIN accountLedgerDb \cup {e[1] : e \in NewIndexEntries} -> Addresses] :
         /\ \A b \in DOMAIN index :
              IF \E e \in NewIndexEntries : e[1] = b
              THEN <<b, index[b]>> \in NewIndexEntries
              ELSE index[b] = accountLedgerDb[b]
         /\ accountLedgerDb' = index
    /\ tempAccountMap' = EmptyMap
    /\ tempNewAccountMap' = EmptyMap
    /\ UNCHANGED accountWatch

\* A Query of two bytes.
ToggleAccountWatch ==
    /\ accountWatch' = ~accountWatch
    /\ UNCHANGED <<accountTree, tempAccountMap, tempNewAccountMap,
                   accountNumOnDb, accountLedgerDb>>

\* A Query of 48 bytes: the index, then the account it names.
FindAccountByPubKey(b) ==
    /\ b \in DOMAIN accountLedgerDb
    /\ Fetch({accountLedgerDb[b]})

-----------------------------------------------------------------------------
AccountsInit ==
    /\ accountTree = Genesis
    /\ tempAccountMap = EmptyMap
    /\ tempNewAccountMap = EmptyMap
    /\ accountNumOnDb = Cardinality(DOMAIN Genesis)
    /\ accountLedgerDb \in [{Genesis[a].bls : a \in DOMAIN Genesis} -> DOMAIN Genesis]
    /\ \A b \in DOMAIN accountLedgerDb : Genesis[accountLedgerDb[b]].bls = b
    /\ accountWatch = TRUE

AccountsNext ==
    \/ \E A \in SUBSET Addresses : Fetch(A)
    \/ \E s \in Addresses, amount \in TxAmounts, fee \in TxFees, st \in States \cup {NoState} :
          \/ ExecUpdate(s, {}, amount, fee, st)
          \/ \E t \in Addresses : \/ ExecUpdate(s, {t}, amount, fee, st)
                                  \/ ExecTransfer(s, t, amount, fee, st)
    \/ \E s \in Addresses, amount \in TxAmounts, fee \in TxFees : ExecRelease(s, amount, fee)
    \/ \E s \in Addresses, fee \in TxFees, key \in Keys, b \in BlsKeys :
          \/ ExecAccountKeyChanger(s, key, b, fee)
          \/ \E amount \in TxAmounts : ExecCreateAccount(s, amount, fee, key, b)
    \/ \E s \in Addresses, p \in Batches, tail \in BOOLEAN,
          amount \in TxAmounts, fee \in TxFees, st \in States :
          ExecBatch(s, p, tail, amount, fee, st)
    \/ CommitAccounts
    \/ ToggleAccountWatch
    \/ \E b \in BlsKeys : FindAccountByPubKey(b)

AccountsSpec == AccountsInit /\ [][AccountsNext]_accountsVars

-----------------------------------------------------------------------------
(***************************************************************************)
(* Properties.                                                             *)
(***************************************************************************)
Live == [a \in DOMAIN accountTree |-> fetchAccount(a).now]

\* Every variable holds a value of the program's type: records with all their
\* fields, uint32 numbers, maps keyed by addresses and BLS keys.
AccountsTypeOK ==
    /\ IsMap(accountTree, Addresses, Leaf)
    /\ IsMap(tempAccountMap, Addresses, CachedAccount)
    /\ IsMap(tempNewAccountMap, Addresses, Leaf)
    /\ accountNumOnDb \in 0 .. MaxAccounts
    /\ IsMap(accountLedgerDb, BlsKeys, Addresses)
    /\ accountWatch \in BOOLEAN

\* Addresses are handed out without gaps and never twice: the committed ones
\* are 0 .. n-1, those of the running block follow up to accountNumOnDb, so
\* the recount of GetNLeafs at Commit continues where nextAccountAddr was and
\* AddWithTx never meets an address that is taken.
AddressesDense ==
    LET n == Cardinality(DOMAIN accountTree) IN
    /\ DOMAIN accountTree = 0 .. n - 1
    /\ DOMAIN tempNewAccountMap = n .. accountNumOnDb - 1
    /\ n <= accountNumOnDb

\* An account in the cache is one of the tree's, and unless a handler wrote it
\* (and so set Modified, and so will be committed) it equals the tree's record,
\* however many CheckTx and Query calls fetched it in between.
CacheCoherent ==
    /\ DOMAIN tempAccountMap \subseteq DOMAIN accountTree
    /\ \A a \in DOMAIN tempAccountMap :
          ~tempAccountMap[a].Modified => tempAccountMap[a].now = accountTree[a]

\* The key and the counter isSigned uses are those of the last commit for the
\* whole block, whatever the block's transactions did to the record: every
\* node checks a transaction against the same credentials, whichever of the
\* block's transactions it has executed.
CredentialsAreCommitted ==
    \A a \in DOMAIN tempAccountMap :
        /\ tempAccountMap[a].schnorrPubKey = accountTree[a].schnorr
        /\ tempAccountMap[a].counter = accountTree[a].Counter

\* Whatever findAccountByPubKey reads in the index is the address of an
\* account fetchAccount finds.
IndexTargetsExist ==
    \A b \in DOMAIN accountLedgerDb : accountLedgerDb[b] \in DOMAIN accountTree

\* Cache transparency: handlers that fetch, cache, write and commit do to the
\* accounts exactly what Ledger says, and CheckTx and Query do nothing.
Abstract == INSTANCE Ledger WITH
    committed <- accountTree, live <- Live, pending <- tempNewAccountMap

ImplementsLedger == Abstract!LedgerSpec

=============================================================================
