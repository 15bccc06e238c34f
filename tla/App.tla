-------------------------------- MODULE App ---------------------------------
(***************************************************************************)
(* The node (app.go): the ABCI calls Tendermint makes, composed of the     *)
(* account, validator, contract and transaction stores, and the map of     *)
(* transactions CheckTx has accepted, which DeliverTx reads.               *)
(*                                                                         *)
(* A call is one step: the local client holds one mutex for all of them.   *)
(* CheckTx and Query come at any time once the chain is running.           *)
(***************************************************************************)
EXTENDS Transactions, Accounts, Validators, Contracts, TxStore

\* What the fields of a transaction are read as.
ASSUME FieldsAssumption ==
    \A raw \in RawTxs : LET d == raw.data IN
        /\ d.amount \in UInt32
        /\ d.state \in States \cup {NoState}
        /\ d.schnorr \in Keys
        /\ d.bls \in BlsKeys
        /\ d.payload \in Payloads
        /\ d.addresses \in Seq(Addresses)
        /\ d.tail \in BOOLEAN

VARIABLE txMap   \* data of a transaction -> what CheckTx found out about it

appVars == <<accountsVars, chainVars, contractsVars, txStoreVars, txMap>>

\* A checked transaction: the counter it was signed for, and its hash.
Checked(counter, hash) == [counter |-> counter, hash |-> hash]

inCache(d) == d \in DOMAIN txMap

-----------------------------------------------------------------------------
(***************************************************************************)
(* Checking.  Cryptography is symbolic: what was signed is compared with   *)
(* what would have to be.                                                  *)
(***************************************************************************)
\* Faulty variant: the counter is not part of what is signed.
isSignedOnce(raw) ==
    /\ Found(raw.data.source)
    /\ raw.signer = fetchAccount(raw.data.source).schnorrPubKey

isSigned(raw) ==
    /\ Found(raw.data.source)
    /\ LET account == fetchAccount(raw.data.source) IN
         raw.signer = account.schnorrPubKey /\ raw.counter = account.counter

Members(d) == BatchMembers(d.addresses, d.tail)

KnownMembers(d) == SelectSeq(Members(d), Found)

\* How many participants execUpdate charges a fee.
Charged(d) == Cardinality({i \in DOMAIN Members(d) : Found(Members(d)[i])})

\* The participants' keys are those of their records as they are now.
verifyBatch(d) ==
    LET known == KnownMembers(d) IN
    /\ blockHeight <= d.maxheight
    /\ known # <<>>
    /\ d.multisig = [i \in DOMAIN known |-> fetchAccount(known[i]).now.bls]

verifyBlsTx(d) ==
    CASE selectTxType(d) \in {"create", "change"} -> d.pop = fetchAccount(d.source).counter
      [] selectTxType(d) = "batch"                -> verifyBatch(d)
      [] OTHER                                    -> TRUE

fetchTx(d) == IF d.length > MaxLength THEN 1 ELSE IF d.length < MinLength THEN 2 ELSE 0

\* In place of a code: the handler does not return.
Panic == -1

\* The amount of a delegation is two bytes, and four are read.
accountsCode(d) ==
    IF ~Found(d.source) THEN 17
    ELSE IF \E t \in TargetsOf(d) : ~Found(t) THEN 18
    ELSE IF selectTxType(d) = "delegate" THEN Panic
    ELSE IF ~verifyAccounts(d.source, TargetsOf(d), AmountOf(d), Fee(d)) THEN 23
    ELSE 0

\* Faulty variant: CheckTx leaves the accounts to DeliverTx.
isValidUnpaid(raw) ==
    LET d == raw.data IN
    IF inCache(d) THEN 33
    ELSE IF ~isSigned(raw) THEN 39
    ELSE IF selectTxType(d) = "none" THEN 44
    ELSE IF TooShort(d) THEN Panic
    ELSE IF ~verifyBlsTx(d) THEN 89
    ELSE 0

isValid(raw) ==
    LET d == raw.data IN
    IF inCache(d) THEN 33
    ELSE IF ~isSigned(raw) THEN 39
    ELSE IF selectTxType(d) = "none" THEN 44
    ELSE IF TooShort(d) THEN Panic
    ELSE IF ~verifyBlsTx(d) THEN 89
    ELSE accountsCode(d)

CheckTxCode(raw) == IF fetchTx(raw.data) # 0 THEN fetchTx(raw.data) ELSE isValid(raw)

\* Faulty variant: a cached transaction is not checked at all.
DeliverTxCodeTrusting(raw) ==
    IF fetchTx(raw.data) = 0 /\ inCache(raw.data) THEN 0 ELSE CheckTxCode(raw)

\* A cached transaction is asked for its accounts only.
DeliverTxCode(raw) ==
    IF fetchTx(raw.data) = 0 /\ inCache(raw.data) THEN accountsCode(raw.data)
    ELSE CheckTxCode(raw)

\* The accounts that have been fetched when a check ends with code.
FetchedBy(d, code) ==
    CASE code \in {1, 2, 33} -> {}
      [] code \in {39, 44, 17} -> {d.source}
      [] OTHER -> {d.source}
           \cup (IF code = 89 THEN {} ELSE TargetsOf(d))
           \cup (IF selectTxType(d) = "batch" /\ ~inCache(d) /\ blockHeight <= d.maxheight
                 THEN {Members(d)[i] : i \in DOMAIN Members(d)} ELSE {})

Running == phase \in {"idle", "block", "ended"}

\* Tendermint recovers from a panic of CheckTx: what was fetched stays.
CheckTx(raw) ==
    LET d    == raw.data
        code == CheckTxCode(raw)
    IN  /\ Running
        /\ Fetch(FetchedBy(d, code))
        /\ txMap' = IF code = 0
                    THEN With(txMap, d, Checked(fetchAccount(d.source).counter, Digest(d)))
                    ELSE txMap
        /\ UNCHANGED <<chainVars, contractsVars, txStoreVars>>

-----------------------------------------------------------------------------
(***************************************************************************)
(* DeliverTx: the handler of the kind, the queue of the transaction tree,  *)
(* and the removal from txMap - by a hash that execContract has changed.   *)
(***************************************************************************)
CounterOfTx(d) == IF inCache(d) THEN txMap[d].counter ELSE fetchAccount(d.source).counter

HashOfTx(d) == IF inCache(d) THEN txMap[d].hash ELSE Digest(d)

HashAfter(d) == IF selectTxType(d) = "contract"
                THEN Extended(HashOfTx(d), ContractAddress(d.target)) ELSE HashOfTx(d)

\* execBatch leaves its last participant in tx.source.
SourceAfter(d) == IF selectTxType(d) = "batch" /\ Members(d) # <<>>
                  THEN Last(Members(d)) ELSE d.source

txMapAfter(d) ==
    IF selectTxType(d) # "contract" THEN [e \in DOMAIN txMap \ {d} |-> txMap[e]]
    ELSE IF inCache(d) THEN [txMap EXCEPT ![d].hash = HashAfter(d)]
    ELSE txMap

ExecAccounts(d) ==
    LET s   == d.source
        fee == Fee(d)
        k   == fetchAccount(s).schnorrPubKey
    IN
    CASE selectTxType(d) = "update"   -> ExecUpdate(s, {}, 0, fee, d.state)
      [] selectTxType(d) = "transfer" -> ExecTransfer(s, d.target, d.amount, fee, d.state)
      [] selectTxType(d) = "stake"    -> ExecUpdate(s, {}, d.amount, fee, NoState)
      [] selectTxType(d) = "release"  -> IF k \in DOMAIN validatorTree
                                         THEN ExecRelease(s, Wrap(validatorTree[k]), fee)
                                         ELSE Fetch({s})
      [] selectTxType(d) = "contract" -> ExecUpdate(s, {d.target}, d.amount, fee, NoState)
      [] selectTxType(d) = "create"   -> ExecCreateAccount(s, d.amount, fee, d.schnorr, d.bls)
      [] selectTxType(d) = "change"   -> ExecAccountKeyChanger(s, d.schnorr, d.bls, fee)
      [] selectTxType(d) = "batch"    ->
           ExecBatch(s, d.addresses, d.tail, d.amount, fee, d.state)

ExecValidators(d) ==
    LET k == fetchAccount(d.source).schnorrPubKey IN
    CASE selectTxType(d) = "stake"   -> ExecStakeValidator(k, d.amount, Fee(d))
      [] selectTxType(d) = "release" -> ExecReleaseValidator(k, Fee(d))
      [] selectTxType(d) = "batch"   ->
           ExecOtherValidators(Wrap(Fee(d) * (Charged(d) + 1)))
      [] OTHER                       -> ExecOtherValidators(Fee(d))

ExecContracts(d) == IF selectTxType(d) = "contract" THEN ExecContract(d.target, d.payload)
                    ELSE UNCHANGED contractsVars

Accept(raw) ==
    LET d == raw.data IN
    /\ phase = "block"
    /\ DeliverTxCode(raw) = 0
    /\ ExecAccounts(d)
    /\ ExecValidators(d)
    /\ ExecContracts(d)
    /\ EnqueueTx(<<SourceAfter(d), CounterOfTx(d)>>, HashAfter(d))
    /\ txMap' = txMapAfter(d)

Reject(raw) ==
    /\ phase = "block"
    /\ DeliverTxCode(raw) \notin {0, Panic}
    /\ Fetch(FetchedBy(raw.data, DeliverTxCode(raw)))
    /\ UNCHANGED <<chainVars, contractsVars, txStoreVars, txMap>>

DeliverTxPanics(raw) ==
    /\ DeliverTxCode(raw) = Panic
    /\ TmFail
    /\ Fetch(FetchedBy(raw.data, Panic))
    /\ UNCHANGED <<validatorsVars, contractsVars, txStoreVars, txMap>>

DeliverTx(raw) == Accept(raw) \/ Reject(raw) \/ DeliverTxPanics(raw)

-----------------------------------------------------------------------------
(***************************************************************************)
(* The other calls.                                                        *)
(***************************************************************************)
InitChain ==
    /\ InitChainValidators
    /\ UNCHANGED <<accountsVars, contractsVars, txStoreVars, txMap>>

BeginBlock(signed, proposer, byzantine) ==
    /\ BeginBlockValidators(signed, proposer, byzantine)
    /\ UNCHANGED <<accountsVars, contractsVars, txStoreVars, txMap>>

EndBlock ==
    /\ EndBlockValidators
    /\ EndBlockTxs
    /\ UNCHANGED <<accountsVars, contractsVars, txMap>>

\* swapDb swaps the transaction and the contract databases together.
CommitBlock ==
    /\ CommitValidators
    /\ CommitAccounts
    /\ CommitTxs
    /\ CommitContracts(accountWatch, SwapDue)
    /\ UNCHANGED txMap

Query ==
    /\ Running
    /\ \/ \E a \in Addresses : Fetch({a})
       \/ \E b \in BlsKeys : FindAccountByPubKey(b)
       \/ ToggleAccountWatch
    /\ UNCHANGED <<chainVars, contractsVars, txStoreVars, txMap>>

AppInit ==
    /\ AccountsInit
    /\ ValidatorsInit
    /\ ContractsInit
    /\ TxStoreInit
    /\ txMap = EmptyMap

AppNext ==
    \/ InitChain
    \/ \E signed, byzantine \in SUBSET Keys, proposer \in Keys :
          BeginBlock(signed, proposer, byzantine)
    \/ \E raw \in RawTxs : CheckTx(raw) \/ DeliverTx(raw)
    \/ EndBlock
    \/ CommitBlock
    \/ Query

AppSpec == AppInit /\ [][AppNext]_appVars

-----------------------------------------------------------------------------
(***************************************************************************)
(* Properties.                                                             *)
(***************************************************************************)
\* The variables of the parts have their types, and txMap maps transactions
\* clients have sent to a counter and a hash.
AppTypeOK ==
    /\ AccountsTypeOK
    /\ ValidatorsTypeOK
    /\ ContractsTypeOK
    /\ TxStoreTypeOK
    /\ IsMap(txMap, {raw.data : raw \in RawTxs}, [counter : UInt32, hash : TxHashes])

\* A checked transaction that waits in txMap was signed for a counter its
\* account has had; and as long as the account still has that counter, the
\* signature would still be accepted, so that executing it unchecked is no
\* different from checking it again.
CachedWereSigned ==
    \A d \in DOMAIN txMap :
        LET account == accountTree[d.source] IN
        /\ txMap[d].counter <= account.Counter
        /\ txMap[d].counter = account.Counter =>
             \E raw \in RawTxs : /\ raw.data = d
                                 /\ raw.signer = account.schnorr
                                 /\ raw.counter = account.Counter

\* Once its block is committed, the counter a transaction was signed for is
\* spent: no node without the transaction in its txMap accepts it again.
\* (Not so for batches and for releases without a stake, see CounterOnEveryTx.)
StoredTxsAreSpent ==
    \A tree \in {txStorageTree, txStorageTree2} : \A key \in DOMAIN tree :
        selectTxType(tree[key].data) \notin {"batch", "release"} =>
            key[2] < accountTree[key[1]].Counter

\* DeliverTx returns whenever CheckTx has let the transaction into txMap, whatever
\* blocks have changed since.  (EndBlock may still return an update that stops
\* the chain, for a second release by one key, say: exectx.go:62.)
CheckedDoNotPanic == \A raw \in RawTxs : inCache(raw.data) => DeliverTxCode(raw) # Panic

\* What the blocks have made of a node: all but caches, and the two indexes,
\* which are for queries and depend on accountWatch.
Replicated ==
    <<tendermintVars, validatorsVars, Live, tempNewAccountMap, accountNumOnDb,
      contractTree, tempContractMap, tempNewContractMap, contractNumOnDb,
      contractStorageDb, contractStorageDb2, txStoreVars>>

Money(accounts) == LET amount == [a \in DOMAIN accounts |-> accounts[a].Amount]
                   IN  MapThenSumSet(LAMBDA a : amount[a], DOMAIN accounts)

Supply == Money(Live) + Money(tempNewAccountMap) + TotalPower(validatorTree) + totalFees

\* A contract call's amount goes nowhere; a batch pays out what it collects
\* only when there are bytes behind its last address and all its participants
\* are known.
Balanced(d) ==
    CASE selectTxType(d) = "contract" -> d.amount = 0
      [] selectTxType(d) = "batch"    -> d.tail /\ \A i \in DOMAIN Members(d) : Found(Members(d)[i])
      [] OTHER                        -> TRUE

\* What the handlers of a transaction compute, one after the other, before it is
\* cut to 32 bits: amounts, a released power, the fees.
Results(d) ==
    LET own       == Live[d.source].Amount
        fee       == Fee(d)
        listed(a) == Occurrences(Members(d), a)
        settled   == [a \in DOMAIN Live |-> Live[a].Amount - listed(a) * (d.amount + fee)]
        stake     == StakeOf(fetchAccount(d.source).schnorrPubKey)
        paid      == own - AmountOf(d) - fee
    IN
    CASE selectTxType(d) = "transfer" ->
           {totalFees + fee, paid,
            d.amount + IF d.target = d.source THEN paid ELSE Live[d.target].Amount}
      [] selectTxType(d) = "release"  -> {totalFees + fee, stake, own + stake - fee}
      [] selectTxType(d) = "batch"    ->
           {totalFees + fee * (Charged(d) + 1),
            settled[d.source] + d.amount * Len(d.addresses) - fee}
             \cup {settled[a] : a \in DOMAIN Live}
      [] OTHER                        -> {totalFees + fee, paid}

Fits(d) == Results(d) \subseteq UInt32

\* Money is neither made nor lost between accounts, accounts being opened, stakes
\* and uncollected fees, by transactions, checks, queries, EndBlock and Commit.
\* The exceptions: the genesis, the rewards and leaks of BeginBlock, the end of
\* the process; transactions that are not Balanced; and those with a result
\* that does not fit 32 bits, which nothing prevents - an amount that wraps
\* with its fee (checktx.go:207), a batch that charges an account more than it
\* has.  They make or lose multiples of Word, and nothing else.
SupplyConserved ==
    [][\/ phase \in {"genesis", "down"} \/ BlockBegins \/ phase' = "down"
       \/ Supply' = Supply
       \/ \E raw \in RawTxs :
            /\ Accept(raw)
            /\ Balanced(raw.data) => ~Fits(raw.data) /\ Wrap(Supply') = Wrap(Supply)]_appVars

\* A transfer past the last amount its target can have.
Overflows(d) == selectTxType(d) = "transfer" /\ Live[d.target].Amount + d.amount >= Word

\* Money leaves an account only when DeliverTx accepts a transaction that
\* names it as its source or a participant - whatever else is checked, queried,
\* rejected or committed, and however the block mixes the other accounts'
\* transfers, stakes and openings.  The exception is the target of a transfer
\* that overflows, which execTransfer does not look for (exectx.go:172).
\* (The end of the process takes a block back.)
OwnersPay ==
    [][phase # "down" /\ phase' # "down" => \A a \in DOMAIN Live :
         Live'[a].Amount < Live[a].Amount =>
           \E raw \in RawTxs :
             /\ Accept(raw)
             /\ \/ a = raw.data.source
                \/ \E i \in DOMAIN Members(raw.data) : Members(raw.data)[i] = a
                \/ a = raw.data.target /\ Overflows(raw.data)]_appVars

(***************************************************************************)
(* What the comments of the code say, and the code does not do.            *)
(***************************************************************************)

\* "Update counter on every tx" (exectx.go:142): whatever DeliverTx accepts
\* moves the counter of the account that signed it.
CounterOnEveryTx ==
    [][\A raw \in RawTxs :
         Accept(raw) => Live'[raw.data.source].Counter # Live[raw.data.source].Counter]_appVars

\* "Subtract amount and Fee from account" (exectx.go:137): what DeliverTx accepts
\* costs its source the amount it names and the fee.
AmountAndFeeSubtracted ==
    [][\A raw \in RawTxs : LET d == raw.data IN
         /\ Accept(raw)
         /\ selectTxType(d) \notin {"release", "batch"}
         /\ selectTxType(d) = "transfer" => d.target # d.source
         => Live'[d.source].Amount = Live[d.source].Amount - AmountOf(d) - Fee(d)]_appVars

\* "add tx to the queue to be included in the tx merkle tree" (app.go:464): at
\* Commit every transaction of the queue is in the tree whose root is filed.
QueuedTxsReachTheTree ==
    [][phase = "ended" /\ phase' = "idle" =>
         \A i \in DOMAIN txQueue :
             HasEntry(blockHashTree'[blockHeight], txQueue[i].key, txQueue[i].val)]_appVars

\* "release space on the map by deleting the processed tx" (app.go:472).
ProcessedTxsLeaveTheMap ==
    [][\A raw \in RawTxs : Accept(raw) => raw.data \notin DOMAIN txMap']_appVars

=============================================================================
