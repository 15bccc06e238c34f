------------------------------- MODULE MCApp --------------------------------
(***************************************************************************)
(* Small instances of App: two accounts, one of which belongs to the only  *)
(* genesis validator, and a handful of transactions of real lengths, with  *)
(* one unit of gas per byte.                                               *)
(***************************************************************************)
EXTENDS Restart

CONSTANTS k1, k2, k3, b1, b2, st, MaxBlockTxs, MaxChecked, CheckedKinds

MCGenesis == 0 :> NewLeaf(900, k1, b1) @@ 1 :> NewLeaf(500, k2, b2)

MCGenesisPowers == k1 :> 4

MCTxKeys == Addresses \X UInt32

MCTxHashes == [data : {raw.data : raw \in RawTxs}, calls : Seq(Addressed)]

-----------------------------------------------------------------------------
\* The data of a transaction that uses none of the optional fields.
Blank(length, source) ==
    [length |-> length, source |-> source, target |-> NoTarget, amount |-> 0,
     state |-> NoState, schnorr |-> k1, bls |-> b1, pad |-> 0, pop |-> 0,
     payload |-> "code", addresses |-> <<>>, tail |-> FALSE, multisig |-> <<>>,
     maxheight |-> 0]

Signed(d, key, counter) == [data |-> d, signer |-> key, counter |-> counter]

SetState(a)         == [Blank(100, a) EXCEPT !.state = st]
Release(a)          == Blank(68, a)
Stake(a, m)         == [Blank(72, a) EXCEPT !.amount = m]
Transfer(a, t, m)   == [Blank(76, a) EXCEPT !.target = t, !.amount = m]
ChangeKeys(a, s, b, n) == [Blank(244, a) EXCEPT !.schnorr = s, !.bls = b, !.pop = n]
Delegate(a, t, m)   == [Blank(74, a) EXCEPT !.target = t, !.amount = m]
ShortCall(a)        == Blank(75, a)
Create(a, m, s, b, n)  == [Blank(248, a) EXCEPT !.amount = m, !.schnorr = s, !.bls = b, !.pop = n]
CallContract(a, c)  == [Blank(77, a) EXCEPT !.target = c]
Batch(a, m, p, tail, sigs, h) ==
    [Blank(177 + 4 * Len(p) + (IF tail THEN 1 ELSE 0), a) EXCEPT
        !.amount = m, !.pad = 2, !.state = st, !.addresses = p, !.tail = tail,
        !.multisig = sigs, !.maxheight = h]

-----------------------------------------------------------------------------
(***************************************************************************)
(* Money: a transfer, a stake and the release after it by an account that  *)
(* is not a validator yet, a third account, a contract call;               *)
(* a transfer and a stake that cost nothing, as amount and fee sum to Word;*)
(* a delegation, which DeliverTx does not return from.                     *)
(***************************************************************************)
MoneyTxs ==
    { Signed(Transfer(0, 1, 50), k1, 0),
      Signed(Transfer(0, 1, Word - 76), k1, 0),
      Signed(Stake(1, 20), k2, 0),
      Signed(Stake(1, Word - 72), k2, 0),
      Signed(Release(1), k2, 1),
      Signed(Create(0, 100, k3, b2, 0), k1, 0),
      Signed(CallContract(1, 0), k2, 0),
      Signed(Delegate(1, 0, 10), k2, 0) }

(***************************************************************************)
(* Code: contract calls in one block and in the next, a batch that charges *)
(* account 1 twice (and a second time more than it has), a key change that *)
(* makes cached checks stale, and calls DeliverTx does not return from.    *)
(***************************************************************************)
CodeTxs ==
    { Signed(CallContract(0, 0), k1, 0),
      Signed(CallContract(0, 0), k1, 1),
      Signed(SetState(1), k2, 0),
      Signed(ChangeKeys(1, k3, b1, 0), k2, 0),
      Signed(Batch(0, 10, <<1, 1>>, TRUE, <<b2, b2>>, 1), k1, 0),
      Signed(Delegate(1, 0, 10), k2, 0),
      Signed(ShortCall(0), k1, 0) }

\* One transaction, or two of one account, for the runs with a counterexample.
CallOnly == { Signed(CallContract(0, 0), k1, 0) }

WrapOnly == { Signed(Transfer(0, 1, Word - 76), k1, 0) }

ReleaseOnly == { Signed(Release(1), k2, 0) }

PairTxs == { Signed(SetState(0), k1, 0), Signed(Transfer(0, 1, 50), k1, 0) }

\* Bounds: transactions per block, transactions waiting in txMap and their kinds,
\* and nothing is explored behind a switched off accountWatch (MCAccounts does
\* that).
Bounds ==
    /\ Len(txQueue) <= MaxBlockTxs
    /\ Cardinality(DOMAIN txMap) <= MaxChecked
    /\ \A d \in DOMAIN txMap : selectTxType(d) \in CheckedKinds
    /\ accountWatch

=============================================================================
