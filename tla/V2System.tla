------------------------------ MODULE V2System ------------------------------
(***************************************************************************)
(* Firmware V2 as app_core puts it together.  After the start the main     *)
(* task goes round: the feed's tick, the alert engine's tick, poll() and a *)
(* pause.  The server task, WiFi, the socket and the MQTT client go on     *)
(* meanwhile.  A restart takes with it all that V2Device does not keep.    *)
(*                                                                         *)
(* What the forms store reaches the alert engine as SaveTiming and         *)
(* SavePolicy, which may come at any time and bring any legal settings:    *)
(* more than the forms of V2Device do.  An alert tick falls into the pause *)
(* of the feed; that there may be two before the next tick of the feed     *)
(* only adds behaviours.                                                   *)
(***************************************************************************)
EXTENDS V2Alerts, V2Feed, V2Device

systemVars == <<vars, feedVars, deviceVars>>

SystemInit == Init /\ FeedInit /\ station = "off" /\ DeviceInit

\* What is in the memory of the engine and of service_outbound after a restart; the
\* settings come back, and SaveTiming and SavePolicy may follow at once.
AlertsReset ==
    /\ pc' = "tick"
    /\ UNCHANGED <<timing, policy>> /\ tm' = timing
    /\ warm' = {} /\ move' = Unread
    /\ since' = [a \in DOMAIN since |-> Old]
    /\ window' = 0 /\ windowUp' = TRUE
    /\ fired' = {} /\ blocked' = FALSE /\ steady' = TRUE
    /\ queue' = <<>> /\ dropped' = FALSE /\ taken' = 0

\* lifecycle_startup: a station that does not start is only logged.
SystemBoot ==
    /\ Boot
    /\ IF phase' = "run" THEN StartStation ELSE station' = "off"
    /\ UNCHANGED <<vars, feedPc, nextRest, snap, sock, hasIp, backoff, timer>>

SystemRestart == Restarts /\ AlertsReset /\ FeedReset /\ station' = "off"

\* Requests and the broker come over the network; that they do not wait for it here only
\* adds behaviours.
SystemServer == Server /\ UNCHANGED <<vars, feedVars>>

SystemMqtt == Mqtt /\ UNCHANGED <<vars, feedVars>>

InLoop == phase = "run" /\ at["main"] = "loop"

SystemFeed ==
    /\ \/ InLoop /\ pc = "tick" /\ Main
       \/ phase = "run" /\ (Socket \/ Station)
    /\ UNCHANGED <<vars, deviceVars>>

SystemAlerts ==
    /\ InLoop
    /\ Next
    /\ pc = "tick" /\ pc' # "tick" => feedPc = "pause"
    /\ UNCHANGED <<feedVars, deviceVars>>

SystemNext ==
    \/ SystemBoot \/ SystemRestart \/ SystemServer \/ SystemMqtt
    \/ SystemFeed \/ SystemAlerts

SystemSpec == SystemInit /\ [][SystemNext]_systemVars
=============================================================================
