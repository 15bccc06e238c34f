------------------------------- MODULE Ledger -------------------------------
(***************************************************************************)
(* What the account store promises, with no cache, no write batch and no   *)
(* Modified flag: the accounts of the last block, the same accounts as the *)
(* current block has changed them, and the accounts the block has opened.  *)
(* Module Accounts implements this specification.                          *)
(***************************************************************************)
EXTENDS AccountRecords

CONSTANTS Genesis, TxAmounts, TxFees, Batches

VARIABLES
    committed,  \* address -> record, as of the last commit
    live,       \* the same addresses, as the running block has left them
    pending     \* address -> record, accounts opened by the running block

ledgerVars == <<committed, live, pending>>

LedgerInit == committed = Genesis /\ live = Genesis /\ pending = EmptyMap

\* The balance test every transaction passes, in the program's arithmetic.
CanPay(s, amount, fee) ==
    s \in DOMAIN live /\ Plus(amount, fee) <= live[s].Amount

Update(s, amount, fee, st) ==
    /\ CanPay(s, amount, fee)
    /\ live' = [live EXCEPT ![s] = Debited(@, amount, fee, st)]
    /\ UNCHANGED <<committed, pending>>

Transfer(s, t, amount, fee, st) ==
    /\ CanPay(s, amount, fee)
    /\ t \in DOMAIN live
    /\ LET paid == [live EXCEPT ![s] = Debited(@, amount, fee, st)]
       IN  live' = [paid EXCEPT ![t] = Credited(@, amount)]
    /\ UNCHANGED <<committed, pending>>

Release(s, amount, fee) ==
    /\ CanPay(s, 0, fee)
    /\ live' = [live EXCEPT ![s] = Released(@, amount, fee)]
    /\ UNCHANGED <<committed, pending>>

ChangeKeys(s, key, b, fee) ==
    /\ CanPay(s, 0, fee)
    /\ live' = [live EXCEPT ![s] = Rekeyed(@, key, b, fee)]
    /\ UNCHANGED <<committed, pending>>

\* A new account gets the address after all committed and pending ones, and
\* cannot be used before the commit.
Open(s, amount, fee, key, b) ==
    LET next == Cardinality(DOMAIN committed \cup DOMAIN pending) IN
    /\ CanPay(s, amount, fee)
    /\ next \in Addresses
    /\ live' = [live EXCEPT ![s] = Debited(@, amount, fee, NoState)]
    /\ pending' = [a \in DOMAIN pending \cup {next} |->
                     IF a = next THEN NewLeaf(amount, key, b) ELSE pending[a]]
    /\ UNCHANGED committed

Settle(s, p, tail, amount, fee, st) ==
    /\ CanPay(s, amount, fee)
    /\ LET settled == [a \in DOMAIN live |->
              Settled(live[a], Occurrences(BatchMembers(p, tail), a), amount, fee, st)]
       IN  live' = [settled EXCEPT ![s] = BatchCredited(@, p, amount, fee)]
    /\ UNCHANGED <<committed, pending>>

Commit ==
    /\ committed' = [a \in DOMAIN live \cup DOMAIN pending |->
                       IF a \in DOMAIN live THEN live[a] ELSE pending[a]]
    /\ live' = committed'
    /\ pending' = EmptyMap

LedgerNext ==
    \/ \E s \in Addresses, amount \in TxAmounts, fee \in TxFees, st \in States \cup {NoState} :
          \/ Update(s, amount, fee, st)
          \/ \E t \in Addresses : Transfer(s, t, amount, fee, st)
    \/ \E s \in Addresses, amount \in TxAmounts, fee \in TxFees : Release(s, amount, fee)
    \/ \E s \in Addresses, fee \in TxFees, key \in Keys, b \in BlsKeys :
          \/ ChangeKeys(s, key, b, fee)
          \/ \E amount \in TxAmounts : Open(s, amount, fee, key, b)
    \/ \E s \in Addresses, p \in Batches, tail \in BOOLEAN,
          amount \in TxAmounts, fee \in TxFees, st \in States :
          Settle(s, p, tail, amount, fee, st)
    \/ Commit

LedgerSpec == LedgerInit /\ [][LedgerNext]_ledgerVars

=============================================================================
