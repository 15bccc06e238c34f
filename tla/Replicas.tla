------------------------------ MODULE Replicas ------------------------------
(***************************************************************************)
(* Two nodes that are given the same blocks.  The first is asked to check  *)
(* transactions and queried between the calls of a block; the other one    *)
(* executes only, as a node does that replays the chain.  Consensus needs  *)
(* their verdicts and their trees to agree.                                *)
(*                                                                         *)
(* Each node has its own copy of everything in App, of Tendermint's sets,  *)
(* too; what is common is the blocks.  Names of the second node end in B.  *)
(***************************************************************************)
EXTENDS App

VARIABLES
    phaseB, lastSetB, curSetB, nextSetB, everSetB,
    validatorTreeB, valUpdatesB, totalFeesB,
    accountTreeB, tempAccountMapB, tempNewAccountMapB, accountNumOnDbB,
    accountLedgerDbB, accountWatchB,
    contractTreeB, tempContractMapB, tempNewContractMapB, contractNumOnDbB,
    contractStorageDbB, contractStorageDb2B, contractLedgerDbB,
    txQueueB, txStorageTreeB, txStorageTree2B, blockHashTreeB, blockHeightB,
    txMapB,
    staleDelivered   \* whether a block has had a transaction with a stale check

B == INSTANCE App WITH
    phase <- phaseB, lastSet <- lastSetB, curSet <- curSetB, nextSet <- nextSetB,
    everSet <- everSetB,
    validatorTree <- validatorTreeB, valUpdates <- valUpdatesB, totalFees <- totalFeesB,
    accountTree <- accountTreeB, tempAccountMap <- tempAccountMapB,
    tempNewAccountMap <- tempNewAccountMapB, accountNumOnDb <- accountNumOnDbB,
    accountLedgerDb <- accountLedgerDbB, accountWatch <- accountWatchB,
    contractTree <- contractTreeB, tempContractMap <- tempContractMapB,
    tempNewContractMap <- tempNewContractMapB, contractNumOnDb <- contractNumOnDbB,
    contractStorageDb <- contractStorageDbB, contractStorageDb2 <- contractStorageDb2B,
    contractLedgerDb <- contractLedgerDbB,
    txQueue <- txQueueB, txStorageTree <- txStorageTreeB,
    txStorageTree2 <- txStorageTree2B, blockHashTree <- blockHashTreeB,
    blockHeight <- blockHeightB, txMap <- txMapB

varsB ==
    <<phaseB, lastSetB, curSetB, nextSetB, everSetB, validatorTreeB, valUpdatesB, totalFeesB,
      accountTreeB, tempAccountMapB, tempNewAccountMapB, accountNumOnDbB,
      accountLedgerDbB, accountWatchB,
      contractTreeB, tempContractMapB, tempNewContractMapB, contractNumOnDbB,
      contractStorageDbB, contractStorageDb2B, contractLedgerDbB,
      txQueueB, txStorageTreeB, txStorageTree2B, blockHashTreeB, blockHeightB, txMapB>>

replicasVars == <<appVars, varsB, staleDelivered>>

-----------------------------------------------------------------------------
(***************************************************************************)
(* What the first node has found out about a transaction is fresh if it    *)
(* would find out the same now: the signature delivered is good, so is the *)
(* proof or the multisignature, and counter and hash are those of today.   *)
(* So the first node's check is not fresh once a block has changed the key *)
(* or the counter; when the transaction delivered has the same data and a  *)
(* bad signature; and when it is a contract call executed before, as that  *)
(* changed its hash in txMap.                                              *)
(***************************************************************************)
Fresh(raw) ==
    LET d == raw.data IN
    inCache(d) =>
        /\ isSigned(raw)
        /\ verifyBlsTx(d)
        /\ txMap[d] = Checked(fetchAccount(d.source).counter, Digest(d))

LocalCheckTx(raw) == CheckTx(raw) /\ UNCHANGED <<varsB, staleDelivered>>

LocalQuery == Query /\ UNCHANGED <<varsB, staleDelivered>>

BothInitChain == InitChain /\ B!InitChain /\ UNCHANGED staleDelivered

BothBeginBlock(signed, proposer, byzantine) ==
    /\ BeginBlock(signed, proposer, byzantine)
    /\ B!BeginBlock(signed, proposer, byzantine)
    /\ UNCHANGED staleDelivered

BothDeliverTx(raw) ==
    /\ DeliverTx(raw)
    /\ B!DeliverTx(raw)
    /\ staleDelivered' = (staleDelivered \/ ~Fresh(raw))

BothEndBlock == EndBlock /\ B!EndBlock /\ UNCHANGED staleDelivered

\* AddBatch is a function: of entries with one key, either node keeps the same
\* one if it has the same tree and the same queue.
BothCommit ==
    /\ CommitBlock
    /\ B!CommitBlock
    /\ <<txStorageTree, txQueue>> = <<txStorageTreeB, txQueueB>> =>
           blockHashTree'[blockHeight] = blockHashTreeB'[blockHeight]
    /\ UNCHANGED staleDelivered

ReplicasInit == AppInit /\ B!AppInit /\ staleDelivered = FALSE

ReplicasNext ==
    \/ \E raw \in RawTxs : LocalCheckTx(raw) \/ BothDeliverTx(raw)
    \/ LocalQuery
    \/ BothInitChain
    \/ \E signed, byzantine \in SUBSET Keys, proposer \in Keys :
          BothBeginBlock(signed, proposer, byzantine)
    \/ BothEndBlock
    \/ BothCommit

ReplicasSpec == ReplicasInit /\ [][ReplicasNext]_replicasVars

-----------------------------------------------------------------------------
(***************************************************************************)
(* Properties.                                                             *)
(***************************************************************************)
\* Nodes given the same blocks have the same trees and answer DeliverTx alike,
\* codes and panics, whatever clients have had one of them check and query
\* in between - as long as no block contains a transaction whose check in
\* txMap is not Fresh; those are executed unchecked by the nodes that have them,
\* and checked by the others.
Agreement ==
    ~staleDelivered =>
        /\ Replicated = B!Replicated
        /\ \A raw \in RawTxs : Fresh(raw) => DeliverTxCode(raw) = B!DeliverTxCode(raw)

=============================================================================
