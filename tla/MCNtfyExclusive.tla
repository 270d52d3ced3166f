--------------------------- MODULE MCNtfyExclusive ---------------------------
(* Instances of NtfyExclusive for TLC. *)
EXTENDS NtfyExclusive

ReachableSpec == FairSpec /\ Reachable
=============================================================================
