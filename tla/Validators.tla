----------------------------- MODULE Validators -----------------------------
(***************************************************************************)
(* The validators of the node: validatorTree, the validator side of        *)
(* BeginBlock (rewards, leaks, punishments), of DeliverTx (stake, release, *)
(* fees) and of EndBlock (the updates returned to Tendermint).             *)
(*                                                                         *)
(* Powers are written to validatorTree when the handler runs, not at       *)
(* Commit.  They are int64 in the program and unbounded here.              *)
(***************************************************************************)
EXTENDS Tendermint, Sequences, SequencesExt

CONSTANTS
    blockReward,     \* paid to the proposer of a block
    emptyVoteLeak,   \* leak numerator, 1 in the program
    LeakScale,       \* 256 in the program: a leak is power / (256 * votes) + 1
    StakeAmounts,    \* the amounts stakes may name
    StakeFees        \* the fees of stake, release and other transactions

ASSUME ValidatorsAssumption ==
    /\ blockReward \in Nat
    /\ emptyVoteLeak \in Nat
    /\ LeakScale \in Nat \ {0}
    /\ StakeAmounts \subseteq UInt32
    /\ StakeFees \subseteq UInt32

VARIABLES
    validatorTree,   \* key -> power, for every key that ever staked
    valUpdates,      \* the updates of the block, in the order they were made
    totalFees        \* fees of the last block with a BeginBlock behind it

validatorsVars == <<validatorTree, valUpdates, totalFees>>

ValidatorUpdate(k, p) == [PubKey |-> k, Power |-> p]

TypeOfUpdate == [PubKey : Keys, Power : Nat]

-----------------------------------------------------------------------------
\* Faulty variant: a key there is already is no error.
InitChainAgain ==
    /\ TmInitChain
    /\ validatorTree' = [k \in DOMAIN validatorTree \cup DOMAIN GenesisPowers |->
         IF k \in DOMAIN validatorTree THEN validatorTree[k] ELSE GenesisPowers[k]]
    /\ UNCHANGED <<valUpdates, totalFees>>

\* Add refuses a key there is, and InitChain panics.
InitChainValidators ==
    /\ TmInitChain
    /\ DOMAIN validatorTree \cap DOMAIN GenesisPowers = {}
    /\ validatorTree' = [k \in DOMAIN validatorTree \cup DOMAIN GenesisPowers |->
         IF k \in DOMAIN GenesisPowers THEN GenesisPowers[k] ELSE validatorTree[k]]
    /\ UNCHANGED <<valUpdates, totalFees>>

(***************************************************************************)
(* BeginBlock.  A validator without power is passed over, and so is one    *)
(* that signed and does not propose.  The proposer is paid, and then       *)
(* everyone who is left - the proposer too - leaks.                        *)
(***************************************************************************)
\* Faulty variant: the reward is paid twice.
RewardedTwice(k, proposer) ==
    IF k = proposer THEN validatorTree[k] + 2 * (blockReward + totalFees) ELSE validatorTree[k]

Rewarded(k, proposer) ==
    IF k = proposer THEN validatorTree[k] + blockReward + totalFees ELSE validatorTree[k]

Leak(power, votes) == (emptyVoteLeak * power) \div (votes * LeakScale) + 1

\* Faulty variant: validators without power are not passed over.
RevaluedAll(signed, proposer) ==
    {k \in DOMAIN lastSet :
        /\ k = proposer \/ k \notin signed
        /\ Rewarded(k, proposer) >= Leak(Rewarded(k, proposer), Cardinality(DOMAIN lastSet))}

\* Faulty variant: the leak has to leave something.
RevaluedStrictly(signed, proposer) ==
    {k \in DOMAIN lastSet :
        /\ validatorTree[k] # 0
        /\ k = proposer \/ k \notin signed
        /\ Rewarded(k, proposer) > Leak(Rewarded(k, proposer), Cardinality(DOMAIN lastSet))}

Revalued(signed, proposer) ==
    {k \in DOMAIN lastSet :
        /\ validatorTree[k] # 0
        /\ k = proposer \/ k \notin signed
        /\ Rewarded(k, proposer) >= Leak(Rewarded(k, proposer), Cardinality(DOMAIN lastSet))}

PowerAfter(k, proposer) ==
    Rewarded(k, proposer) - Leak(Rewarded(k, proposer), Cardinality(DOMAIN lastSet))

VoteUpdates(moved, proposer) ==
    SetToSeq({ValidatorUpdate(k, PowerAfter(k, proposer)) : k \in moved})

Punishments(byzantine) == SetToSeq({ValidatorUpdate(k, 0) : k \in byzantine})

\* Faulty variant: punishments come first.
UpdatesPunishedFirst(moved, proposer, byzantine) ==
    Punishments(byzantine) \o VoteUpdates(moved, proposer)

UpdatesAtBegin(moved, proposer, byzantine) ==
    VoteUpdates(moved, proposer) \o Punishments(byzantine)

BeginBlockValidators(signed, proposer, byzantine) ==
    LET moved == Revalued(signed, proposer) IN
    /\ TmBeginBlock(signed, proposer, byzantine)
    /\ DOMAIN lastSet \cup byzantine \subseteq DOMAIN validatorTree
    /\ validatorTree' = [k \in DOMAIN validatorTree |->
         IF k \in byzantine THEN 0
         ELSE IF k \in moved THEN PowerAfter(k, proposer)
         ELSE validatorTree[k]]
    /\ valUpdates' = UpdatesAtBegin(moved, proposer, byzantine)
    /\ totalFees' = 0

-----------------------------------------------------------------------------
(***************************************************************************)
(* DeliverTx.  k is the cached schnorrPubKey of the source account.        *)
(***************************************************************************)
StakeOf(k) == IF k \in DOMAIN validatorTree THEN validatorTree[k] ELSE 0

\* Faulty variant: fees are summed without a width.
CollectFeeUnbounded(fee) == totalFees' = totalFees + fee

CollectFee(fee) == totalFees' = Plus(totalFees, fee)

\* Faulty variant: a first stake is not entered in the tree.
ExecStakeUnrecorded(k, amount, fee) ==
    /\ TmDeliverTx
    /\ CollectFee(fee)
    /\ validatorTree' = [j \in DOMAIN validatorTree |->
         IF j = k THEN StakeOf(k) + amount ELSE validatorTree[j]]
    /\ valUpdates' = Append(valUpdates, ValidatorUpdate(k, StakeOf(k) + amount))

ExecStakeValidator(k, amount, fee) ==
    /\ TmDeliverTx
    /\ CollectFee(fee)
    /\ validatorTree' = [j \in DOMAIN validatorTree \cup {k} |->
         IF j = k THEN StakeOf(k) + amount ELSE validatorTree[j]]
    /\ valUpdates' = Append(valUpdates, ValidatorUpdate(k, StakeOf(k) + amount))

\* Faulty variant: the tree keeps the power that is paid out.
ExecReleaseKept(k, fee) ==
    /\ TmDeliverTx
    /\ IF k \in DOMAIN validatorTree
       THEN /\ CollectFee(fee)
            /\ valUpdates' = Append(valUpdates, ValidatorUpdate(k, 0))
            /\ UNCHANGED validatorTree
       ELSE UNCHANGED validatorsVars

\* A source that is no validator: the handler returns before it charges.
ExecReleaseValidator(k, fee) ==
    /\ TmDeliverTx
    /\ IF k \in DOMAIN validatorTree
       THEN /\ CollectFee(fee)
            /\ validatorTree' = [validatorTree EXCEPT ![k] = 0]
            /\ valUpdates' = Append(valUpdates, ValidatorUpdate(k, 0))
       ELSE UNCHANGED validatorsVars

\* Every other transaction.
ExecOtherValidators(fee) ==
    /\ TmDeliverTx
    /\ CollectFee(fee)
    /\ UNCHANGED <<validatorTree, valUpdates>>

-----------------------------------------------------------------------------
(***************************************************************************)
(* EndBlock keeps the rightmost update of every key.                       *)
(***************************************************************************)
Rightmost(updates, k) ==
    CHOOSE i \in DOMAIN updates :
        /\ updates[i].PubKey = k
        /\ \A j \in DOMAIN updates : j > i => updates[j].PubKey # k

UpdatedKeys(updates) == {updates[i].PubKey : i \in DOMAIN updates}

\* Faulty variant: the first update is kept.
keepFirstUpdates(updates) ==
    [k \in UpdatedKeys(updates) |->
       updates[CHOOSE i \in DOMAIN updates :
                 /\ updates[i].PubKey = k
                 /\ \A j \in DOMAIN updates : j < i => updates[j].PubKey # k].Power]

removeDuplicateValidatorUpdates(updates) ==
    [k \in UpdatedKeys(updates) |-> updates[Rightmost(updates, k)].Power]

EndBlockValidators ==
    LET kept == removeDuplicateValidatorUpdates(valUpdates) IN
    /\ TmEndBlock(kept)
    /\ valUpdates' = SetToSeq({ValidatorUpdate(k, kept[k]) : k \in DOMAIN kept})
    /\ UNCHANGED <<validatorTree, totalFees>>

CommitValidators == TmCommit /\ UNCHANGED validatorsVars

-----------------------------------------------------------------------------
ValidatorsInit ==
    /\ TendermintInit
    /\ validatorTree = EmptyMap
    /\ valUpdates = <<>>
    /\ totalFees = 0

ValidatorsNext ==
    \/ InitChainValidators
    \/ \E signed \in SUBSET Keys, proposer \in Keys, byzantine \in SUBSET everSet :
          BeginBlockValidators(signed, proposer, byzantine)
    \/ \E k \in Keys, fee \in StakeFees :
          \/ \E amount \in StakeAmounts : ExecStakeValidator(k, amount, fee)
          \/ ExecReleaseValidator(k, fee)
    \/ \E fee \in StakeFees : ExecOtherValidators(fee)
    \/ EndBlockValidators
    \/ CommitValidators

chainVars == <<tendermintVars, validatorsVars>>

ValidatorsSpec == ValidatorsInit /\ [][ValidatorsNext]_chainVars

-----------------------------------------------------------------------------
(***************************************************************************)
(* Properties.                                                             *)
(***************************************************************************)

\* Every variable holds a value of the program's type.
ValidatorsTypeOK ==
    /\ phase \in Phases
    /\ \A set \in {lastSet, curSet, nextSet} : IsMap(set, Keys, Nat \ {0})
    /\ everSet \subseteq Keys
    /\ IsMap(validatorTree, Keys, Nat)
    /\ valUpdates \in Seq(TypeOfUpdate)
    /\ totalFees \in UInt32

\* The power k will have in Tendermint if the block in hand ends as it stands.
PendingPower(k) ==
    CASE phase = "block" /\ k \in UpdatedKeys(valUpdates) ->
           valUpdates[Rightmost(valUpdates, k)].Power
      [] ~(phase = "block" /\ k \in UpdatedKeys(valUpdates)) ->
           IF k \in DOMAIN nextSet THEN nextSet[k] ELSE 0

\* The powers of validatorTree, which rewards and leaks are computed from and
\* which stakes are released from, are the powers Tendermint has or will have
\* from the updates returned so far - although votes are two blocks behind
\* them, and one validator may be rewarded, leak, stake, release and be
\* punished in one block.
TreeMatchesTendermint ==
    phase \notin {"genesis", "halted"} =>
        \A k \in Keys : PendingPower(k) = StakeOf(k)

\* Whoever is in a validator set, and whoever evidence may name, has an entry
\* in validatorTree: Get in BeginBlock never fails and never panics.
VotersHaveStakes ==
    phase # "genesis" =>
        /\ DOMAIN lastSet \cup DOMAIN curSet \cup DOMAIN nextSet \cup everSet
             \subseteq DOMAIN validatorTree
        /\ UpdatedKeys(valUpdates) \subseteq DOMAIN validatorTree

TotalPower(tree) == MapThenSumSet(LAMBDA k : tree[k], DOMAIN tree)

BlockBegins == phase = "idle" /\ phase' = "block"

\* Whatever the votes and the evidence, a block mints at most one reward and
\* the fees of the block before.
MintBounded ==
    [][BlockBegins =>
         TotalPower(validatorTree') <= TotalPower(validatorTree) + blockReward + totalFees]_chainVars

\* A validator that has released its stake, leaked it or lost it as a
\* punishment gets nothing more for being in the sets Tendermint has not
\* updated yet, not even as the proposer.
NoRewardWithoutStake ==
    [][BlockBegins =>
         \A k \in DOMAIN validatorTree : validatorTree[k] = 0 => validatorTree'[k] = 0]_chainVars

\* A punished validator ends BeginBlock without power, and its last update
\* says so, also when the same call has rewarded it.
PunishmentIsLast ==
    [][\A signed, byzantine \in SUBSET Keys, proposer \in Keys :
         BeginBlockValidators(signed, proposer, byzantine) =>
           \A k \in byzantine :
             /\ validatorTree'[k] = 0
             /\ valUpdates'[Rightmost(valUpdates', k)].Power = 0]_chainVars

\* Unless there is evidence, Tendermint can apply what BeginBlock returns as long
\* as anybody has power left: every removal names a validator it still has,
\* although votes lag behind the sets.  It cannot once the leaks have taken
\* the last power: that stops the chain (as later updates of the block may).
LeakUpdatesAccepted ==
    [][\A signed \in SUBSET Keys, proposer \in Keys :
         BeginBlockValidators(signed, proposer, {}) =>
           (Accepted(removeDuplicateValidatorUpdates(valUpdates'))
              <=> TotalPower(validatorTree') > 0)]_chainVars

\* The step is one k has no part in: it neither signs, nor proposes, nor stakes.
Absent(k) ==
    /\ BlockBegins => \E signed \in SUBSET (Keys \ {k}), proposer \in Keys \ {k}, byzantine \in SUBSET Keys :
                        BeginBlockValidators(signed, proposer, byzantine)
    /\ \A amount \in StakeAmounts, fee \in StakeFees : ~ExecStakeValidator(k, amount, fee)

\* "inactive validators leak power (and money)" (app.go:351): one that from
\* some block on neither signs, nor proposes, nor stakes ends with nothing and
\* stays so, whoever else stakes, releases, leaks or is punished, as long as
\* no update stops the chain.
InactiveDrains ==
    [](phase # "halted") =>
        \A k \in Keys : <>[][Absent(k)]_chainVars => <>[](StakeOf(k) = 0)

\* Tendermint keeps making blocks: it calls EndBlock and Commit after the
\* transactions of a block, and begins the next block with some commit.
FairChain ==
    /\ WF_chainVars(\E signed \in SUBSET Keys, proposer \in Keys :
                      BeginBlockValidators(signed, proposer, {}))
    /\ WF_chainVars(EndBlockValidators)
    /\ WF_chainVars(CommitValidators)
    /\ WF_chainVars(InitChainValidators)

FairValidatorsSpec == ValidatorsSpec /\ FairChain

=============================================================================
