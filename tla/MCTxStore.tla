----------------------------- MODULE MCTxStore ------------------------------
(***************************************************************************)
(* A small instance of TxStore and of its proofs: two keys that part at    *)
(* the third level, two hashes, swaps at every second height, and heights  *)
(* through two swaps and a block beyond.  A height is one byte of three    *)
(* bits behind one of zeros.                                               *)
(***************************************************************************)
EXTENDS TxProofs, TLC

CONSTANTS MaxQueue   \* bound on the transactions of a block

MCKeys == {<<1, 0, 0, 1>>, <<1, 0, 1, 1>>}

MCHeightBits == [h \in 1 .. MaxHeight |-> <<0, 0, 0, h % 2, (h \div 2) % 2, (h \div 4) % 2>>]

\* No hash is told from another.
HashSymmetry == Permutations(TxHashes)

QueueBound == Len(txQueue) <= MaxQueue

=============================================================================
