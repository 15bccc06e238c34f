----------------------------- MODULE MCReplicas -----------------------------
(***************************************************************************)
(* Two nodes under transactions of MCApp, in blocks of up to two.          *)
(***************************************************************************)
EXTENDS Replicas, MCApp

\* Behind a stale delivery there is nothing to agree on.
ReplicaBounds == Bounds /\ ~staleDelivered

=============================================================================
