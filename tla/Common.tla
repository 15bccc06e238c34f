------------------------------- MODULE Common -------------------------------
(***************************************************************************)
(* What every part of the node is written with: public keys, the unsigned  *)
(* 32-bit arithmetic of Go, and finite maps.                               *)
(*                                                                         *)
(* Amounts, fees, counters and addresses are Go uint32 values: +, - and *  *)
(* wrap silently.  Word is the number of values, 2^32 in the program and   *)
(* smaller in a model, so that a wrap is reached by a few small numbers.   *)
(***************************************************************************)
EXTENDS Integers

CONSTANTS
    Keys,  \* ed25519 public keys, of accounts and of validators alike
    Word   \* 2^32

ASSUME WordAssumption == Word \in Nat \ {0}

UInt32 == 0 .. Word - 1

Wrap(n) == n % Word

Plus(m, n) == Wrap(m + n)

Minus(m, n) == Wrap(m - n)

(***************************************************************************)
(* The finite maps of the program (Go maps, trees, key-value stores):      *)
(* functions from some of the keys in K to values in V.                    *)
(***************************************************************************)
IsMap(f, K, V) == DOMAIN f \subseteq K /\ f \in [DOMAIN f -> V]

EmptyMap == [k \in {} |-> k]

=============================================================================
