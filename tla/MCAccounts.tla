----------------------------- MODULE MCAccounts -----------------------------
(***************************************************************************)
(* A small instance of Accounts: two template accounts and room for one    *)
(* more; amounts that are covered, that are not, and that wrap; a batch    *)
(* that lists one account twice and one that may not exist.                *)
(***************************************************************************)
EXTENDS Accounts, TLC

CONSTANTS k1, k2, b1, st, MaxCounter

MCGenesis == (0 :> NewLeaf(5, k1, b1)) @@ (1 :> NewLeaf(1, k2, b1))

MCBatches == {<<1, 1, 2>>}

\* Transactions of the genesis accounts are bounded by their counters; one
\* fewer is looked at while accountWatch is off.
Spent(a) == IF a \in DOMAIN Live THEN Live[a].Counter ELSE 0
CounterBound ==
    Spent(0) + Spent(1) + Spent(2) <= IF accountWatch THEN MaxCounter ELSE MaxCounter - 1

=============================================================================
