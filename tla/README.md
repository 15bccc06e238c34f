# A verification project for zkSpace-node

zkSpace-node is a Tendermint ABCI application: accounts with balances and user
state, validators that stake and release, and contracts that are nothing but an
address, a call counter and the payloads of the calls.  Execution of contracts is
left to clients; the node stores payloads and answers with Merkle proofs.  This
directory holds TLA+ modules translated from its Go source, TLC configurations
that check them on small instances, and TLAPS proofs for every instance.

Paths below are those of the repository (`app.go` is `src/app.go`).

## 1. Inventory

| Component | Code | State | Operations |
|---|---|---|---|
| Account store | `accounts.go`, `exectx.go` | `accountTree`, `tempAccountMap`, `tempNewAccountMap`, `accountNumOnDb`, `accountLedgerDb`, `accountWatch` | fetch, write, one handler per transaction kind, commit, index lookup, toggle |
| Validators, fees | `app.go` (InitChain, BeginBlock, EndBlock), `exectx.go` | `validatorTree`, `valUpdates`, `totalFees` | reward, leak, punish, stake, release, deduplicate |
| Contract store | `contract.go`, `exectx.go` | `contractTree`, two temp maps, two storage databases, payload index | create, call, commit, swap |
| Transaction store | `app.go` (DeliverTx tail, Commit), `db.go` | `txDbKeys`/`txDbVals`, two transaction trees, block hash tree, height | enqueue, commit, swap, prove |
| Transaction checking | `checktx.go`, `tx.go`, `bls.go` | none of its own; reads all stores and `txMap` | parse, `isSigned`, BLS checks, `verifyAccounts` |
| ABCI application | `app.go` | `txMap` and all of the above | InitChain, CheckTx, BeginBlock, DeliverTx, EndBlock, Commit, Query |
| Tendermint Core | external | validator sets, phase of the block | order of the calls, votes, evidence, updates |
| Merkle proofs | `app.go` (Query, CheckProofPrint), `tree.go` | none of their own | answer of a Query, unpacking and checking a proof |
| Poseidon hash | `poseidon/` | none | permutation over tables of constants, sponge; the node does not call it |
| Process start | `NewApp`, `main.go`, `run.sh` | which databases there are | open, number the template accounts, or remove everything first |
| BLS, trees, databases | libraries | - | - |
| Logger, bitmap | `logger.go`, `bitmap.go` | - | - |

**Interactions.** Tendermint's local client holds one mutex for every ABCI
connection, so one call is one atomic step.  The calls of a block come in order
(BeginBlock, DeliverTx..., EndBlock, Commit); CheckTx and Query calls fall anywhere
between them and share `tempAccountMap`, `txMap` and `accountWatch` with the block.
DeliverTx changes the account cache, `validatorTree` (at once), the contract caches
and the queue of the transaction tree.  Commit writes caches and queue to the trees;
`swapDb` swaps the transaction and the contract storage every 1024 heights.
Updates returned from EndBlock are in force two blocks later, and the votes
BeginBlock sees are one block old.

**What is hard.** (a) CheckTx and Query share the account cache with the block in
progress. (b) DeliverTx trusts `txMap`, written by CheckTx at another moment, under
another key or counter. (c) `validatorTree` is ahead of the sets whose votes
it is updated from, and one key may be rewarded, leak, stake, release and be punished in
one block. (d) Addresses of accounts and contracts continue counts that Commit
recomputes. (e) The tree key of a transaction is its source and its *committed* counter. (f)
All amounts are `uint32` and wrap. (g) Swaps forget. (h) Commit is a sequence of
writes to seven stores without a transaction around them, `validatorTree` is written before it,
and nothing is recovered on a start. (i) Two nodes have checked and been asked
different things and must commit the same. (j) The flat tables of Poseidon and the packed
siblings of a proof are all index arithmetic. PROJECT.json lists
each of these hazards at its line with the properties that watch it.

**What makes each component correct.**
Accounts: the cache is invisible, addresses are dense, credentials are those of
the last commit. Validators: the tree equals what Tendermint will have, minting is
bounded, nothing is paid to keys without stake, punishments win, the inactive
drain. Contracts: addresses dense, payloads never overwritten, nothing lost by one
swap, the index is truthful. Transaction store: a window of `SwapPeriod` blocks
stays stored and roots do not contradict one another. Application: a
transaction executed unchecked would also pass the check, counters are
spent, money is conserved where nothing wraps, only those who are named pay, nodes agree, and no chain runs
over what another one has left. Merkle proofs: the answer convinces, and nothing else does. Poseidon:
the optimised permutation is that of the paper, and the sponge reads every byte once.

## 2. Modules

| Module | Models |
|---|---|
| `Common` | keys, `uint32` arithmetic (`Word` = 2^32), finite maps |
| `AccountRecords` | a record of `accountTree` and the arithmetic of each handler on it |
| `Ledger` | **abstract**: what the account store promises - no cache, no batch, no flag |
| `Accounts` | the account store as coded |
| `AccountsProofs` | its inductive invariant, and that `Accounts` implements `Ledger` |
| `Tendermint` | external: call order, votes, evidence, validator sets, rejected updates |
| `Validators` | the validator side of InitChain, BeginBlock, DeliverTx, EndBlock |
| `Contracts`, `ContractsProofs` | the contract store and its invariant |
| `TxStore` | transaction queue, trees, block hashes, swap |
| `TxStoreProofs`, `ValidatorsProofs` | their inductive invariants |
| `TxProofs` | Merkle proofs over `TxStore`: what Query answers and how a client checks it |
| `Transactions` | the kinds of transactions, lengths and fees (constant level) |
| `App` | all of it composed: checking with its return codes, and the ABCI calls |
| `AppProofs` | the stores' invariants lifted to the composition |
| `Restart` | `App` with the end of the process anywhere and its start |
| `RestartProofs` | that a running node never builds on what another chain has left; money, spent counters and the databases across ends and starts |
| `Replicas` | two `App`s given the same blocks, one of which checks and is queried in between |
| `ReplicasProofs` | that the two agree |
| `Poseidon`, `PoseidonPaper` | the permutation as computed; **abstract**: the permutation of the paper, and how the tables derive from it |
| `Sponge` | HashBytesX and SpongeHashX, against the chain of the hashes of a message's frames |
| `HashProofs` | that Merkle proofs convince of what is in a tree and of nothing else; that the sponge is the chain |
| `MC*` | the instances for TLC |

`App` EXTENDS the four stores and conjoins one action of each, as the Go handlers
call into each file. The same operators (`ExecTransfer`, `CommitTxs`...) are the
actions of the components' own specifications, where their inputs are chosen
freely, so what is checked of a component alone covers every use `App` makes
of it as long as the amounts `App` passes are among the component's. `Restart` adds to `App`'s
next-state relation; `Replicas` joins `App` and `INSTANCE App` over a second
copy of every variable.

**Correspondence.** Variables have the names of the fields of
`KVStoreApplication`. `tempAccountMap[a]` is a record `now` (the bytes that will
be committed), `Modified`, and the two fields `schnorrPubKey` and `counter` that
`fetchAccount` slices once out of the committed bytes and `writeAccount` never
re-slices: `isSigned` reads those. `fetchAccount` on a miss is the tree's
record. `Fetched(A)` is the cache after the accounts of `A` were fetched.
`execUpdate` is `Updated`, called n times on a batch participant (`Settled`).
`execBatch`'s loop condition `i+4 < len` is `BatchMembers`. A leak is
`power/(256*votes)+1` (`LeakScale` = 256). `removeDuplicateValidatorUpdates`
keeps the rightmost update of a key; its result order is that of a Go map and
has no effect in Tendermint. Keys of the transaction trees are sequences of bits
in `TxProofs`, and any values elsewhere. `PROJECT.json` maps each definition to its lines.

**Panics.** A handler that panics has the code `Panic`: a delegation, whose two-byte amount is
read as four, and contracts under 77 and batches under 177 bytes, which are sliced
past their end. Tendermint's RPC server and its peer connections recover a panic of CheckTx, and what was fetched
stays in the cache; a panic of DeliverTx ends consensus (`phase = "halted"`).

**Restart.** `Crash` may come between any two calls, `CrashInCommit(n)` after the nth
durable write of Commit (`CommitOrder`), `InitChainEnds` between two validators of InitChain or
at its panic. `main` leaves by `os.Exit(0)`, which skips the deferred `Close`s, so a regular stop is
a crash too. The next process may get the old databases (`Start`) or none (`StartFresh`: `run.sh`
removes them first). `swapDb` exchanges the *names* of the databases in memory, so after an odd
number of swaps the front one is opened as the back one (`ReopenedTxs`). `Info` returns no
height: Tendermint calls InitChain again, and `validatorTree.Add` panics at the first
key that exists. There is no recovery to model; the property is that no block
is ever made over what a former chain has left (`NoBlockOnOldDatabases`).

**Two nodes.** The second node of `Replicas` executes blocks only, as one that replays the chain does.
The nodes may differ by what the first has in `txMap` and in its caches. Both
are given the same votes and transactions; where the code iterates over a Go map, each takes
its own order; only `AddBatch` of the library is taken to be a function of tree and queue. A delivered
transaction whose check in `txMap` is not `Fresh` is executed by the nodes that have it and possibly refused by
the others: agreement is stated, and true, up to there (`staleDelivered`). Not fresh is a check whose key has since
been changed or whose counter has been spent; one of a transaction that is now delivered with the same data and a
bad signature; and one of a contract call that was executed before, as that changed its hash in `txMap`.

**Proofs of transactions.** `TxProofs` builds a tree as the checking code undoes it: a key is the
sequence of bits its path takes (`getPath`), a leaf sits where its path is its own, siblings are packed as a
bitmap of whole bytes and those that are not empty. A tree is the recursive function `Nodes` from paths
to hashes, and `Climbed` the loop of the check. Hashes are terms that record what was hashed. Query asks the
back tree only if `GenProof` of the front one returns an error (app.go:594-599); a key without an entry is none, and
the flag that tells is dropped. So `ProvingTree` is the front tree: what the back tree keeps is stored and no Query
proves it, and a key the front tree does not have is answered with the leaf its path ends at (`LeavesAt`).

**Poseidon.** Tables are parameters. `PoseidonPaper` has the permutation of the
paper and derives from its constants the equivalent ones the code uses (constants moved behind
the S-boxes, the matrix of the partial rounds factored into sparse ones); TLC compares
both over a field of 7, in widths 2 to 4. `SourceTablesFit`
states that the tables of `constants.go`, whose lengths it gives for widths 2 to 17,
are exactly as long as the index arithmetic reaches. The values of the tables (24904 of the
repository's 27437 lines) are data; that S and P of widths 2, 3 and 4 are
what `PoseidonPaper`'s derivation gives over the real field was computed outside TLC.
In `Sponge`, the hash of a frame is a term, `<<"hash", frame>>`, and an input the term of its bytes: no
hash is taken for a number read from bytes.

**Abstractions.** Roots are the contents of their trees, digests the data they are
taken of (no collisions). A signature is what it was made with - key and counter
- compared with what it would have to be. Whether an aggregate BLS signature
verifies is decided by equality with the participants' current keys in `App`, and is left
open in `Accounts`. Iteration over Go maps, and which of two equal keys in
one `AddBatch` survives, are nondeterministic choices. `int64` powers and `uint64`
contract counters are unbounded; `uint32` values wrap at `Word`. No operation of a database fails
(section 7 lists what the code does with errors). The hashes queued for the transaction tree are values, where the
code appends slices of `tx.hash` (app.go:470), which change with it: that matters to a cached contract call delivered
twice in one block, whose first hash in the queue becomes the second. Both entries have one key, of which
`AddBatch` keeps either in the model, so that what the code makes of it is among the outcomes; and the second
delivery is not `Fresh`.

## 3. Runs

| Run | Question | Instance |
|---|---|---|
| `accounts` | Do the cached store's handlers, under any interleaving with CheckTx and Query fetches, keep the invariants and implement `Ledger`? | 2 accounts and room for one, Word 8, amounts 2 and 7 (7+fee wraps to 0; 2 is payable and not), a batch naming an account twice and one that may be missing |
| `validators` | Are the tree and Tendermint's sets in step; are minting, leaks, punishments right; do inactive validators drain? | 2 keys of which one, with power 3, is there and one has to stake, by 0 or 1 at a time; every combination of votes, proposer and evidence; powers to 5, 2 updates waiting |
| `contracts` | Are addresses, payloads, index right? | 2 contracts, targets 0..2, 2 payloads, up to 2 calls each, swaps at any commit |
| `txstore` | Are retention, roots and Merkle proofs right across swaps? | period 2, heights to 5 (two swaps and a block), 2 keys that part at the third level, 2 hashes (symmetric), 2 per block |
| `app_money` | Does the composed node conserve money, over databases of its own only? | a transfer and a stake of a common amount and of one that wraps with the fee (twice in a block, too), a release, an opening, a contract call, a delegation, which panics; 2 blocks, a swap in the second; the end of the process anywhere, starts over old and removed databases; only the opening is ever waiting in `txMap` (`CheckedKinds`) |
| `replicas` | Do nodes agree, and honour what they checked? | a contract call under two counters, an update, a key change that makes checks stale, a batch that overcharges a participant, two transactions that panic; a swap at the second height |
| `poseidon` | Is the optimised permutation the paper's, and is every byte hashed once? | widths 2 to 4 and a number of inputs there is no table for, four values of a field of 7 and one outside it; messages up to 9 bytes in chunks of 2, frames of 2 and 3 chunks |
| `contract_availability`, `app_amount`, `app_counter`, `app_tree`, `app_map` | Does the code do what a comment says? | one or two transactions; each ends in a counterexample (section 5) |

**Why the bounds are enough.** Every property relates at most two accounts, two keys or
two transactions and at most one swap period; each instance has one more of
each than the property mentions, or as many. `Word` is small so that
wraps happen with amounts one can enumerate; the proofs are for every `Word`. Bounds are
state constraints (`CounterBound`, `PowerBound`, `CallBound`, `QueueBound`,
`Bounds`) or guards (`MaxAccounts`, `MaxContracts`, `MaxHeight`); each is named
in its MC module. `accounts` explores one transaction fewer with `accountWatch` off,
the `app_*` runs and `replicas` none. Deadlock is off where a bound or a
halted chain stops the system. `app_*` and `replicas` allow one transaction waiting in `txMap` (in `app_money` an opening: no property of that run but
the type is about `txMap`, and `replicas` has every kind in it)
and two per block: the races between CheckTx and DeliverTx are about one transaction
and what the block does to its account in between. `CachedWereSigned` and
`StoredTxsAreSpent` are about counters that do not wrap: after 2^32 transactions
of one account the code accepts old signatures again, and no instance goes there (the
theorems say how far they reach, section 6). The longest
runs are `validators` (247 thousand states), `txstore` (78 thousand) and `app_money` (108 thousand), one to two
minutes each.

**What they show.** `CredentialsAreCommitted` explains the replay rule of this node: within
a block every transaction is checked against the counter of the last commit, so one
account may have several in a block, but (`StoredTxsAreSpent`) once the block
is committed the counter is used up. `CachedWereSigned` is why DeliverTx may skip
signatures: a cached transaction of a counter the account still has would be accepted
again. `TreeMatchesTendermint` holds although each validator may be in
several updates of one block, *because* EndBlock keeps the rightmost.
`SupplyConserved` is exact, and names what breaks conservation: the amount of a contract call goes
nowhere, and a batch whose address bytes end exactly at the last address (or that
names an unknown account) credits more than it collects (`Balanced` are the transactions
that do neither); and a transaction one of whose sums or differences does not fit 32 bits (`Fits`) makes or
loses money - a multiple of `Word`, and by no other kind of transaction. Both runs reach such ones: `app_money` by amounts that wrap
with the fee and by a release past a word, `replicas` by a batch that charges an account more than it has.
`OwnersPay` has the same exception where it concerns others: the target of a transfer past the last amount loses.
`CheckedDoNotPanic` is why the panics are not
reached by a proposer of its own mempool: CheckTx panics first. It does not say that checked transactions never
stop the chain: a second release by one key returns an update Tendermint refuses (exectx.go:62, `phase = "halted"`).
`LeakUpdatesAccepted` says when BeginBlock alone does: not before the leaks have taken the last power there is. `Agreement` separates
what a node has been asked (which may not matter) from what it has checked (which matters as soon as it is
stale). `OnDisk` shows the order of Commit's writes is one after which the stores are still
consistent with each other at every point, and `NoBlockOnOldDatabases` that nothing is ever built on
that; this is the panic of InitChain, not a design. `NothingElseConvinces` and
`AnswersConvince` are soundness and completeness of `CheckProofPrint`.

## 4. Fairness and liveness

`FairChain` is weak fairness of InitChain, of BeginBlock (with some votes of two
thirds), of EndBlock and of Commit: Tendermint keeps making blocks, as it does
while two thirds of the power are up. Nothing is assumed of transactions,
evidence, or of any one validator. `InactiveDrains` then says that a validator that
from some block on neither signs, nor proposes, nor stakes ends with no power for good. It is stated for
chains no update stops: Tendermint halts when told to remove a key it does
not have, which repeated releases and repeated evidence bring about, and when nobody has power left (`phase = "halted"`).
Stakes of others, releases, fees, rewards, leaks and evidence are in the run. Powers are cut at 5, where a
proposer's reward and leak are even, so that only stakes pass the bound, and a block is not followed once more than two updates wait in it.

## 5. Where the code differs from its comments

* `contract_availability`: "now write contract payloads to db for data
  availability" (contract.go:53) - of several calls of a contract in one
  block only the last payload is written; the counters between have none.
* `app_amount`: "Subtract amount and Fee from account" (exectx.go:137) - both are added as `uint32` there and
  where they are compared with the balance (checktx.go:207). An amount of 2^32 less the fee costs nothing. As a stake it
  gives its power for nothing (exectx.go:84); as a transfer it gives its target that much, or, if the target holds the
  fee, takes the fee from it, as the credit wraps (exectx.go:172).
* `app_counter`: "Update counter on every tx" (exectx.go:142) - a
  release without a validator record is accepted and changes no counter.
* `app_tree`: "add tx to the queue to be included in the tx merkle tree"
  (app.go:464) - two transactions of an account in one block have one key; one is dropped.
* `app_map`: "release space on the map by deleting the processed tx"
  (app.go:472) - `execContract` has changed the hash it is deleted by.

## 6. Proofs

All are checked by TLAPS for every value of the constants, from the
assumptions named in the modules: `WordAssumption`, `AccountsAssumption` (addresses
fit a word, nil is no state), `GenesisAssumption` (template accounts are records
at addresses 0..n-1), `InputsAssumption`, `ContractsAssumption`, `TxStoreAssumption` (the period is
positive), `GenesisPowersAssumption` (finitely many validators, at least one, with positive powers),
`ValidatorsAssumption` (the reward is a number, the leak positive), `RawTxsAssumption` and
`FieldsAssumption` (what the fields of a transaction are read as), `KeysAssumption` (keys of transaction
trees are bits, as many in each), `HeightBitsAssumption` (so are heights, and no two the same) and
`SpongeAssumption` (frames of 2 to 16 inputs, chunks that are not empty).

* **`AccountsProofs`** - `AccountsInv` is the conjunction of the five
  invariants of `accounts`, and is inductive as it stands: the cache's coherence
  needs the types, the commit needs density (so that no new address overwrites an
  old record) and both need `DOMAIN tempAccountMap \subseteq DOMAIN accountTree`.
  The argument goes through `GoodCache`: fetching gives a good cache
  (`FetchedGood`), writing one account keeps it good (`WriteGood`), and a handler is a
  fetch and one or two writes; the batch writes all its members at once. `CommitAccountsStep`
  is the counting argument of the addresses. `TypeCorrect`,
  `DenseAddresses`, `Coherence`, `Credentials`, `IndexTargets` follow.
* **The ledger** (in `AccountsProofs`) - `Refinement`: `Accounts` implements `Ledger` under `committed
  <- accountTree, live <- Live, pending <- tempNewAccountMap`, where `Live` is
  the tree seen through the cache. `LiveOfFetched` (fetching is
  invisible) and `LiveOfWrite` (writing changes one account) carry every handler; the
  next address agrees by density (`NextAddress`).
* **`ContractsProofs`** - `ContractsInv` strengthens `CallsAreNew`, which is not
  inductive: when the swap has cleared a contract's payloads nothing relates the
  cached counter to the tree's, so `CallsAhead` (the cached counter is past the
  tree's) and `StoredBelongs` (stored counters are not) replace it. From it `ContractsTypes`, `ContractAddressing`,
  `FreshCalls`, `IndexedCreators`, and the action property `PayloadSurvival`.

* **`TxStoreProofs`** - None of the three invariants of `txstore` is inductive; `TxStoreInv` says what the
  trees *are*: the heights filed are 1 to the last (`HeightsFiled`), roots only grow between
  swaps (`Growing`), the front tree is the last root or was just emptied (`FrontIsLast`), and
  the back tree is the root filed at the last swap (`BackIsSwapped`). The rest is arithmetic of
  periods: swaps are at least a period apart (`SwapsApart`), and a window of a period contains one
  (`NoSwapWithin`). `Retention`, `FrontProofs` and `RootAgreement` follow for every length
  of the period and any number of blocks, where TLC has a period of 2 and five blocks.
* **`ValidatorsProofs`** - `ValidatorsInv` is types, `TreeMatchesTendermint`, `VotersHaveStakes` and
  `AtGenesis` (before InitChain the sets are the genesis and the tree is empty). Its core is
  about sequences: every key of a list of updates has a last one (`Greatest`, from well-foundedness
  of `Nat`), appending or concatenating moves it as expected (`AppendLast`, `ConcatLast`), and what
  `removeDuplicateValidatorUpdates` keeps is exactly the last ones (`KeptUpdates`). `BeginBlockEffect` says what the three
  lists of BeginBlock make of a power. The action properties
  `NoUnearnedReward` and `Punished` follow from the same lemmas. So does `LeaksAccepted`: a removal is of a key that had
  power, which `TreeMatchesTendermint` says is in the next set, and a set without anyone is one whose powers sum up to 0 (`SumPositive`).
* **`AppProofs`** - `NodeInv` is the conjunction of the four stores' invariants with three facts
  only the composition has: what is in `txMap` has a kind that does not panic (`CheckedTxs`), a
  height waits to be filed exactly between EndBlock and Commit (`HeightInPhase`, so that
  each store's guard is met when `App` calls it), and the genesis validators are in `validatorTree`. The
  step lemmas of the stores are stated for any 32-bit amounts and any sequence of
  addresses, so each ABCI call is the conjunction of one lemma per store (`AcceptStep`, `CommitStep`...). What
  a store alone lets its environment choose, `App` computes: that these values have the types the lemmas
  ask for is `FieldTypes`, `FetchedTypes`, `QueuedTypes` and `AccountsFound`. Hypothesis `RoomForTxs`: the
  transaction tree has room for the keys and hashes the node makes. It is not an `ASSUME`
  because its instances are infinite sets; `RoomInInstances` proves it for the sets the instances take. `AppTypes`,
  `CheckedNeverPanic`, `NodeCredentials` and `NodePowers` follow.

  **Money** (`Conservation`): `Supply` is four sums, so the theory of sums of `ValidatorsProofs` comes first:
  a handler changes one or two terms, a batch one per member, and Commit moves what waits in
  `tempNewAccountMap` to the tree without changing either sum. Every step is stated once for a
  modulus `W` that is either `Word` or 0 (`Same(W, m, n)`: they differ by a multiple of `W`; `Exact(W, n)`: if that is 0, n has 32
  bits): with `Word` nothing is assumed and an addition that wraps loses a multiple of `Word`; with 0 each result
  of the handler has to fit (`Fits`) and the sums are equal. `Conserved` is both. A batch needs the counting argument that the leader is credited one
  share for each occurrence of a member, and each member pays one for each of its own.
* **Sums** (in `ValidatorsProofs`) - `MapThenSumSet` over a finite set, whose fold takes the elements in an order of its
  own: it is defined for every finite set and does not depend on that order (`SumsExist`, `SumsUnique`, by a smallest
  counterexample and `WFMin`, as no induction theorem can be cited), and changing or adding one term changes it by
  the difference (`SumChange`, `SumAdd`, `SumUnion`). `Minting` then adds up the four ways a
  BeginBlock changes powers: votes and the proposer get shares of the fees and of the
  reward that divide downwards, leaks and punishments only take.
* **`RestartProofs`** - `RestartInv`: while calls are answered, `NodeInv`; otherwise memory is empty
  (`NothingInMemory`) and databases without a genesis validator have had no block
  (`ValidatorsFirst`: validatorTree is the first database a chain writes to). The first half makes the
  second hold after any end: `NodeInv` has the genesis validators in the tree. The second gives back the
  first: `InitChain` gets past its panics only over such databases, and over those the state is `AppInit`
  (`GenesisAgain`). The types of databases half written are `CrashInCommitStep`. `OnlyOwnBlocks` is the result.

  **No signature twice** (`SignaturesAreSpent`: `StoredTxsAreSpent`; `ChecksWereSigned`: `CachedWereSigned`). `SpentInv` follows a
  transaction through its life: what is in `txMap` was signed for a counter at or below its account's
  (`SignedFor`), what DeliverTx queues has a counter below the one its account will be committed with (`Spent`,
  about `Live`), and what Commit writes to a tree has one below the account's (`TreeSpent`). It rests on
  `Later`: an account's counter only grows, and a key never changes without it. Hypothesis
  `CountersLeft`: every counter is at least 1401 short of `Word`, the most one transaction can add (a
  batch counts once for each time a member is named, and a transaction has at most 1401 bytes). Without it the
  property is false: counters wrap silently (`execUpdate`), and an account of 2^32 transactions starts over.

  **Databases that agree** (`DatabasesAgree`: `OnDisk`). `OnDisk` must hold after *every* write of a Commit. While
  the node runs, its parts follow from `NodeInv` (contract counters from `StoredBelongs`, roots from
  `TxStoreInv`); `OrderOfWrites` shows that each prefix of `CommitOrder` keeps them, as accounts are
  written before the index that points at them, contracts before payloads, and the transaction tree before the
  root that is filed; and `DiskInv` carries them while no process runs, and through a start that opens the
  databases under each other's names. This part (`DiskInvariance`) needs no hypothesis on counters; the part of
  `OnDisk` that is `StoredTxsAreSpent` does.

  **Only owners pay** (`OnlyOwnersPay`: `OwnersPay`). Each handler writes its source, its target or the members, and credits
  are additions - that wrap. Nothing bounds what a transfer adds: `verifyFee` compares
  the wrapped sum of amount and fee with the balance. So the exception of `OwnersPay` is the case itself, a transfer its target
  has no room for (`Overflows`), and the theorem has no hypothesis on amounts.
* **`ReplicasProofs`** - `Replicas` uses the variables of the second node through `INSTANCE App`, about which nothing
  is proved yet; `SecondRecords` and `SecondTransactions` equate its operators with those of the first. The second cache
  is then looked at as a *value*: `Backed(tree, c)` says that unwritten entries and all credentials
  of `c` are the tree's, `LiveIn(tree, c)` what it shows, and `FetchInBacked`, `WriteInBacked` and `SettleInBacked` what the
  three ways of changing it do. `InStep` is that both nodes have the same trees, validators, hashes and queues, that the
  second cache is backed by the common tree and shows what the first shows. What one has fetched and the
  other has not is invisible in it, which is why checks and queries do no harm. It is kept by every step
  until a stale check is delivered, with `NodeInv` of the first node as the rest of the invariant; `ReplicasAgree` follows.

* **`HashProofs`** - what a recursive function computes cannot be proved by a library theorem of induction, so
  each one is used through two lemmas: that it exists (`NodesExist`, `ClimbExists`, `RoundsExist`, `HashesExist`:
  the part up to n exists for every n, by a first number for which it does not, `CountingUp`) and what
  one step of it is (`NodeAtPath`, `Climbing`, `Rounding`, `Hashing`).

  **Merkle proofs.** A key asked for need not be in the tree: `KeyFits` is what the lemmas need of it, that no key of the tree is longer.
  *Soundness* (`NoOtherConvincing`) goes from the root down (`OnlyEntriesLead`): if the loop ends in the root of a tree,
  what it had made with i siblings left is the node of that tree at the first i bits of the key, as
  a hash says what it was made of; the leaf it began with is then a leaf of the tree (`NodeKinds` tells leaves, inner nodes and
  the empty node apart). It holds for any list of siblings no longer than the key. *Completeness* (`Convincing`) goes from the
  leaf up (`EntriesLead`), if the siblings are those of the path; a key without an entry shares the path up to the leaf it
  is answered with (`SamePath`), so it is that leaf's own proof; that unpacking gives back what was packed is
  `Unpacked`: `Used` grows at the bits that are set and only there (`UsedGrows`), so that given siblings and set
  bits are in step, and it stops at the right level because the last sibling of a path is never empty (`LastSibling`, or the path
  would be longer than the leaf needs) - the bits that fill the last byte are not taken for levels.

  **Sponge.** `HashingBytes`: after n inputs the state is known (`Filled`, `AfterRounds`): which frame is begun, what is in front of
  it, how far it is filled. What is left is arithmetic of the last input (`LastInput`): it completes a
  frame, or the frame is padded (`SpongeIsFrames`). `HashCollisions` reads that chain backwards: equal hashes have equal frames, equal
  frames begin with equal hashes (`FramesHold`), and a chain that ends sooner would have bytes where the other has
  a hash; so both messages have the same chunks, and the same bytes with zeros behind (`SameBytes`, `HashesApart`).

**Model-checked only**, and why:
* `InactiveDrains`: liveness under fairness is out of reach of the provers.
* `HashIsPoseidon`: it compares products of matrices over a field, one side of which `PoseidonPaper` derives by
  folds (factored matrices, inverses). The statement is about an instance of the field and has a proof on paper; to repeat it,
  the provers would have to be taught linear algebra from its beginnings.

## 7. Not modelled

* **Inside NewApp**: a process killed while it writes the template accounts.
* **A database that fails and a process that goes on.** Some errors make the code panic, which is a crash between the same two
  writes; these do not. A `Delete` that fails ends the iteration of `clearDb`, which commits what it has
  deleted and returns no error (db.go:41-44): the database that becomes the front one is not empty. Errors of `AddBatch` (app.go:485), of
  the account batches (accounts.go:102-104, 127-130) and of the validator tree's `Update` and `Add` (exectx.go:74, 108, 112) are ignored, and the
  block goes on without what was to be written. Any other error of `clearDb` returns with `txDbMutex` held (db.go:71); Commit panics, Tendermint's consensus
  routine recovers that and stops, and the process lives: a later Query of eight bytes waits for the mutex for ever.
* **Tendermint** beyond the order of its calls: network, consensus rounds, order and rechecks of the mempool.
* **Configuration and wiring** in `main.go`, the encoding of answers in Query, gob files.
* **Values of the Poseidon tables**, and slices of Go sharing memory, except for those of an `Account`,
  which matter and are modelled.
* **Logger** (text only), **bitmap** (commented out), `destroyDb` (never called).

The lines of `constants.go` are a table of numbers, 91 of every 100 lines of the repository. The map
covers most of the others.

## 8. Plan

Done: every component of the inventory as far as section 7 does not except it; proofs of
the four stores, of their composition, of the restarts, of the two nodes, of the Merkle proofs and of the
sponge. Every safety invariant and action property that a run checks and that holds is a theorem - those about spent
counters under the hypothesis on wrapping that section 6 explains - except `HashIsPoseidon`.

Left: a theory of matrices over a field, from which `HashIsPoseidon` would follow for every field and
width whose matrices can be factored; liveness, should a prover for it become available.
