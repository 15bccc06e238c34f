---------------------------- MODULE Transactions ----------------------------
(***************************************************************************)
(* Transactions as the node reads them (tx.go, checktx.go): the kind of a  *)
(* transaction is the length of its bytes, and so is its fee.              *)
(*                                                                         *)
(* A raw transaction is a 64-byte signature and data.  Cryptography is     *)
(* symbolic: a signature is the key that made it and the account counter   *)
(* it was made for, and data is its own digest.                            *)
(***************************************************************************)
EXTENDS Common, Sequences

CONSTANTS
    gas,      \* fee per byte, 100 in the program
    RawTxs    \* the raw transactions clients may send, see RawTx below

NoTarget == -1   \* nil

(***************************************************************************)
(* The fields of tx.data.  A kind uses some of them; length counts the     *)
(* signature in; pad tells batches from contracts; target is NoTarget, an  *)
(* account or (for a contract) a contract; pop and multisig are the proof  *)
(* of possession and the aggregate signature, as what they were made for.  *)
(***************************************************************************)
Fields == {"length", "source", "target", "amount", "state", "schnorr", "bls",
           "pad", "pop", "payload", "addresses", "tail", "multisig", "maxheight"}

RawTx(raw) ==
    /\ DOMAIN raw = {"data", "signer", "counter"}
    /\ DOMAIN raw.data = Fields

-----------------------------------------------------------------------------
MinLength == 68
MaxLength == 1401

\* selectTxType; "none" is its answer false, code 44.
selectTxType(d) ==
    CASE d.length = 100              -> "update"
      [] d.length = 68               -> "release"
      [] d.length = 72               -> "stake"
      [] d.length = 74               -> "delegate"
      [] d.length \in {76, 108}      -> "transfer"
      [] d.length = 244              -> "change"
      [] d.length = 248              -> "create"
      [] OTHER -> IF d.length < 73 THEN "none"
                  ELSE IF d.pad > 1 THEN "batch" ELSE "contract"

Kinds == {"update", "release", "stake", "delegate", "transfer", "change",
          "create", "none", "batch", "contract"}

Fee(d) == Wrap(gas * d.length)

\* tx.Amount when verifyFee runs: tx.amount, if the kind reads one.
AmountOf(d) == IF selectTxType(d) \in {"update", "release", "change"} THEN 0 ELSE d.amount

\* The accounts verifyAccounts fetches besides the source.
TargetsOf(d) == IF selectTxType(d) \in {"transfer", "contract", "delegate"} THEN {d.target}
                ELSE {}

\* Slices of data behind its end: selectTxType takes data[13:] of a contract,
\* verifyBlsTx and verifyBatch take data[113:] of a batch.
TooShort(d) == \/ selectTxType(d) = "contract" /\ d.length < 77
               \/ selectTxType(d) = "batch" /\ d.length < 177

\* The digest of a transaction, which execContract extends by the address of
\* the contract it has called.
Digest(d) == [data |-> d, calls |-> <<>>]

Extended(hash, c) == [hash EXCEPT !.calls = Append(@, c)]

\* The fields there is no room for are not read.
ASSUME RawTxsAssumption ==
    /\ gas \in Nat
    /\ \A raw \in RawTxs :
         LET d == raw.data IN
         /\ RawTx(raw) /\ d.length \in Nat
         /\ TooShort(d) => d.target = NoTarget /\ d.addresses = <<>>
         /\ selectTxType(d) = "batch" /\ ~TooShort(d) =>
              /\ Len(d.addresses) = (d.length - 177) \div 4
              /\ d.tail = ((d.length - 177) % 4 # 0)

=============================================================================
