--------------------------- MODULE MCMinuteAlerts ---------------------------
(* Instances of MinuteAlerts for TLC. *)
EXTENDS MinuteAlerts

MCMaxPerHour == [k \in Kinds |-> IF k = "one" THEN 2 ELSE 1]
MCCooldown ==
    [k \in Kinds |-> [r \in Rows |-> IF r = "slap" /\ k # "thirty" THEN 2 ELSE 1]]
MCNightCooldown == [r \in Rows |-> 2]
=============================================================================
