------------------------------ MODULE MCSettings ------------------------------
(* Instances of Settings for TLC. *)
EXTENDS Settings

MCDefault == [k \in Keys |-> 0]
=============================================================================
