--------------------------- MODULE MCNtfyDelivery ---------------------------
(* Instances of NtfyDelivery for TLC. *)
EXTENDS NtfyDelivery, TLC

CONSTANTS up1, up2, anchor, touch, test1, test2, s1m

\* Two texts of the sequence btc-1m-up; two alerts whose body has no "1m:" line
\* and that have no sequence id; the messages of loop() have none either.
MCSeqOf == [m \in Msgs |-> IF m \in {up1, up2} THEN s1m ELSE NoSeq]

\* 0 / 500 / 2000 / 5000 / 30000 ms, shortened to ticks.
MCRetryDelay == <<1, 1, 2, 2>> @@ (0 :> 0)
MCRetryDelayLong == <<1, 1, 1, 2>> @@ (0 :> 0)

MCBackoff == [s \in 1 .. MaxStreak |-> s]
=============================================================================
