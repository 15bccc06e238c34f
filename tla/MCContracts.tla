---------------------------- MODULE MCContracts -----------------------------
(***************************************************************************)
(* A small instance of Contracts: up to two contracts, both creatable in   *)
(* one block, with calls of either and targets that do not exist yet.      *)
(***************************************************************************)
EXTENDS Contracts

CONSTANTS MaxCalls   \* bound on the counters, uint64 in the program

CallBound ==
    /\ \A c \in DOMAIN contractTree : contractTree[c] <= MaxCalls
    /\ \A c \in DOMAIN tempContractMap : tempContractMap[c].Counter <= MaxCalls

=============================================================================
