----------------------------- MODULE Tendermint -----------------------------
(***************************************************************************)
(* What the node's ABCI server is driven by: the order in which Tendermint *)
(* Core makes the calls of a block, and the validator sets it keeps.       *)
(* Nothing here is the node's code; it is what src/app.go relies on.       *)
(*                                                                         *)
(* The updates a block H returns from EndBlock enter the set of H+2, and   *)
(* the votes BeginBlock is given at H are those of the set of H-1.  Hence  *)
(* three sets: of the last block, of the block in hand, and of the next.   *)
(***************************************************************************)
EXTENDS Common, FiniteSets, FiniteSetsExt

CONSTANT GenesisPowers   \* the validators of the genesis file: key -> power

ASSUME GenesisPowersAssumption ==
    /\ IsFiniteSet(Keys)
    /\ IsMap(GenesisPowers, Keys, Nat \ {0})
    /\ DOMAIN GenesisPowers # {}

VARIABLES
    phase,     \* where Tendermint stands in the sequence of ABCI calls
    lastSet,   \* validators of the previous block: key -> power
    curSet,    \* of the current block
    nextSet,   \* of the next one; updates are applied to a copy of this one
    everSet    \* every key that has been in a set: evidence may come late

validatorSets == <<lastSet, curSet, nextSet, everSet>>

tendermintVars == <<phase, validatorSets>>

\* halted: Tendermint makes no more calls; down: the process has ended.
Phases == {"genesis", "idle", "block", "ended", "halted", "down"}

TendermintInit ==
    /\ phase = "genesis"
    /\ lastSet = EmptyMap
    /\ curSet = GenesisPowers
    /\ nextSet = GenesisPowers
    /\ everSet = DOMAIN GenesisPowers

\* InitChain, before the first block.
TmInitChain == phase = "genesis" /\ phase' = "idle" /\ UNCHANGED validatorSets

PowerOf(set, S) == MapThenSumSet(LAMBDA k : set[k], S \cap DOMAIN set)

\* A block carries a commit of the previous one: more than two thirds of the
\* power has signed.  Its proposer is a validator of the block.  Evidence names
\* validators, of whatever block.
TmBeginBlock(signed, proposer, byzantine) ==
    /\ phase = "idle"
    /\ byzantine \subseteq everSet
    /\ signed \subseteq DOMAIN lastSet
    /\ \/ lastSet = EmptyMap
       \/ 3 * PowerOf(lastSet, signed) > 2 * PowerOf(lastSet, DOMAIN lastSet)
    /\ proposer \in DOMAIN curSet
    /\ phase' = "block"
    /\ UNCHANGED validatorSets

TmDeliverTx == phase = "block" /\ UNCHANGED tendermintVars

\* A panic of DeliverTx ends the consensus routine, and with it the chain.
TmFail == phase = "block" /\ phase' = "halted" /\ UNCHANGED validatorSets

\* updates: key -> power.  A power of zero removes a validator, and must name
\* one there is; the set may not be left empty.
Accepted(updates) ==
    /\ \A k \in DOMAIN updates : updates[k] = 0 => k \in DOMAIN nextSet
    /\ \/ \E k \in DOMAIN updates : updates[k] > 0
       \/ \E k \in DOMAIN nextSet : k \notin DOMAIN updates

WithUpdates(updates) ==
    [k \in {j \in DOMAIN nextSet \cup DOMAIN updates :
              j \in DOMAIN updates => updates[j] > 0} |->
       IF k \in DOMAIN updates THEN updates[k] ELSE nextSet[k]]

\* Updates Tendermint cannot apply stop the chain before Commit is called.
TmEndBlock(updates) ==
    /\ phase = "block"
    /\ IF Accepted(updates)
       THEN /\ phase' = "ended"
            /\ lastSet' = curSet
            /\ curSet' = nextSet
            /\ nextSet' = WithUpdates(updates)
            /\ everSet' = everSet \cup DOMAIN nextSet'
       ELSE phase' = "halted" /\ UNCHANGED validatorSets

TmCommit == phase = "ended" /\ phase' = "idle" /\ UNCHANGED validatorSets

TmCrash == phase # "down" /\ phase' = "down" /\ UNCHANGED validatorSets

\* An application that reports no height is told of the chain from its genesis.
TmStart ==
    /\ phase = "down"
    /\ phase' = "genesis"
    /\ lastSet' = EmptyMap
    /\ curSet' = GenesisPowers
    /\ nextSet' = GenesisPowers
    /\ everSet' = DOMAIN GenesisPowers

=============================================================================
