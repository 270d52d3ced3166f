----------------------------- MODULE MCPricePath -----------------------------
(* Instances of PricePath for TLC. *)
EXTENDS PricePath

MCHoursOf == [f \in {"four", "day", "week"} |-> IF f = "four" THEN 1 ELSE IF f = "day" THEN 2 ELSE 2]
MCAsked == [f \in {"minute", "weeks", "days", "hours", "fours", "halves", "twos"} |->
               IF f \in {"minute", "halves", "days"} THEN 3 ELSE 2]
MCRoom == [MCAsked EXCEPT !["minute"] = 2, !["halves"] = 2]

\* Until the tasks start, nothing but the warm start; after that, some outcomes of it go
\* on, and several trades only as long as the rings have not turned.
MCFocus ==
    /\ stage # "run" => trade = 1
    /\ stage = "warming" => known = Nothing
    /\ stage = "run" =>
          /\ warm \in {{}, {"two"}, {"half", "two", "four", "day", "week"}}
          /\ skip = {} \/ warm = {"two"}
          /\ trade = 1 \/ (warm = {} /\ mode = "disabled" /\ Available(five) <= 3
                          /\ Available(minute) <= 1)
=============================================================================
