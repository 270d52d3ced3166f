------------------------------- MODULE MCAnchor -------------------------------
(* Instances of Anchor for TLC. *)
EXTENDS Anchor

\* Default thresholds, +5 and -3 percent, and a downtrend that the clamps bring
\* back to +2 and -6.
MCTakeProfit == [t \in Trends |-> IF t = "down" THEN 1 ELSE 5]
MCMaxLoss == [t \in Trends |-> IF t = "down" THEN -9 ELSE -3]
===============================================================================
