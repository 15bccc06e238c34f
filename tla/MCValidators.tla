---------------------------- MODULE MCValidators ----------------------------
(***************************************************************************)
(* A small instance of Validators: two keys, one of which has to stake     *)
(* before it signs and proposes, and may then be absent.  At MaxPower a    *)
(* proposer's reward and leak are even, so that only stakes are cut off.   *)
(***************************************************************************)
EXTENDS Validators

CONSTANTS v1, v2, MaxPower, MaxUpdates

MCGenesisPowers == v1 :> 3

PowerBound ==
    /\ \A k \in DOMAIN validatorTree : validatorTree[k] <= MaxPower
    /\ Len(valUpdates) <= MaxUpdates

=============================================================================
