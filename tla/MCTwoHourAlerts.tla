--------------------------- MODULE MCTwoHourAlerts ---------------------------
(* Instances of TwoHourAlerts for TLC. *)
EXTENDS TwoHourAlerts

MCFamilyCd == [f \in Families |-> 90]

\* Enough for a two-hour trend and a slow one that come and go.
MCRet2h == {100, 0}
MCRet30m == {-1, 1}
MCRet1d == {200, 1}
MCRet7d == {}
=============================================================================
