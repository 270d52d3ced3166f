----------------------------- MODULE MCMqttQueue -----------------------------
(* Instances of MqttQueue for TLC. *)
EXTENDS MqttQueue, TLC

MCSymmetry == Permutations(Messages)

\* After a race SafeUnlessRaced promises nothing, and nothing is looked for.
MCUnraced == raced = {}
=============================================================================
