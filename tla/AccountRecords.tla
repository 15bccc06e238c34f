--------------------------- MODULE AccountRecords ---------------------------
(***************************************************************************)
(* An account record and what one transaction does to it (accounts.go,     *)
(* exectx.go).  These operators are the arithmetic of the handlers; where  *)
(* the records live - trees, caches - is the business of Accounts.         *)
(***************************************************************************)
EXTENDS Common, Sequences, FiniteSets

CONSTANTS
    BlsKeys,      \* BLS public keys
    States,       \* 32-byte user states
    NoState,      \* the nil state of an 88-byte record
    MaxAccounts   \* bound on the number of accounts; addresses are 4 bytes

ASSUME AccountsAssumption ==
    /\ NoState \notin States
    /\ MaxAccounts \in Nat
    /\ MaxAccounts <= Word

Addresses == 0 .. MaxAccounts - 1

\* The bytes of an accountTree value: amount, keys, counter, optional state.
Leaf == [ Amount  : UInt32,
          schnorr : Keys,
          bls     : BlsKeys,
          Counter : UInt32,
          State   : States \cup {NoState} ]

NewLeaf(amount, s, b) ==
    [Amount |-> amount, schnorr |-> s, bls |-> b, Counter |-> 0, State |-> NoState]

\* Faulty variants: "account.Counter++" is lost; the counter is written where the
\* state belongs.
UpdatedNoCount(leaf, m, n, st) == [leaf EXCEPT !.Amount = m, !.State = st]

UpdatedAskew(leaf, m, n, st) == [leaf EXCEPT !.Amount = m, !.State = Plus(leaf.Counter, n)]

\* The three assignments of execUpdate, made n times.
Updated(leaf, m, n, st) ==
    [leaf EXCEPT !.Amount = m, !.Counter = Plus(@, n), !.State = st]

\* The source's side of every transaction but a release or a key change.
Debited(leaf, amount, fee, st) ==
    Updated(leaf, Minus(leaf.Amount, amount + fee), 1, st)

\* A release pays the stake back less the fee; its tx.state is nil.
Released(leaf, amount, fee) ==
    Updated(leaf, Wrap(leaf.Amount + amount - fee), 1, NoState)

\* Faulty variant: the target of a transfer is charged.
CreditedNegative(leaf, amount) == [leaf EXCEPT !.Amount = Minus(@, amount)]

Credited(leaf, amount) == [leaf EXCEPT !.Amount = Plus(@, amount)]

\* Faulty variants: the keys are written in the wrong order; the counter stays.
RekeyedSwapped(leaf, s, b, fee) ==
    [leaf EXCEPT !.Amount = Minus(@, fee), !.schnorr = b, !.bls = s, !.Counter = Plus(@, 1)]

RekeyedNoCount(leaf, s, b, fee) ==
    [leaf EXCEPT !.Amount = Minus(@, fee), !.schnorr = s, !.bls = b]

\* A key change keeps the state and writes both keys of the transaction.
Rekeyed(leaf, s, b, fee) ==
    [leaf EXCEPT !.Amount  = Minus(@, fee),
                 !.schnorr = s,
                 !.bls     = b,
                 !.Counter = Plus(@, 1)]

(***************************************************************************)
(* A batch.  p is the sequence of whole 4-byte addresses in tx.addresses,  *)
(* and tail says whether bytes are left after the last one.  The loop of   *)
(* execBatch runs while i+4 < len(tx.addresses), so it stops before the    *)
(* last address exactly when no bytes are left over.                       *)
(***************************************************************************)
BatchMembers(p, tail) == IF tail \/ p = <<>> THEN p ELSE SubSeq(p, 1, Len(p) - 1)

Occurrences(p, a) == Cardinality({i \in DOMAIN p : p[i] = a})

\* n runs of execUpdate on one participant, each for the amount and the fee.
Settled(leaf, n, amount, fee, st) ==
    IF n = 0 THEN leaf
    ELSE Updated(leaf, Wrap(leaf.Amount - n * (amount + fee)), n, st)

\* Faulty variant: the batcher is not charged the fee.
BatchCreditedNoFee(leaf, p, amount, fee) ==
    [leaf EXCEPT !.Amount = Wrap(@ + amount * Len(p))]

\* What the batcher is paid: the amount for every address listed, less a fee.
BatchCredited(leaf, p, amount, fee) ==
    [leaf EXCEPT !.Amount = Wrap(@ + amount * Len(p) - fee)]

=============================================================================
