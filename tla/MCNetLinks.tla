----------------------------- MODULE MCNetLinks -----------------------------
(* Instances of NetLinks for TLC. *)
EXTENDS NetLinks
=============================================================================
