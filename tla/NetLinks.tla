------------------------------ MODULE NetLinks ------------------------------
(***************************************************************************)
(* The two links loop() looks after: the WiFi station, whose automatic     *)
(* reconnection by the library is switched off, and the MQTT client with   *)
(* the health gate in front of it.  The station's events are handled in a  *)
(* task of their own, which writes the same flags as loop(), without a     *)
(* lock; setup() runs before loop() in the same task.                      *)
(*                                                                         *)
(* Intervals and back-offs are not counted: when an attempt is due is left *)
(* open, but it is due again and again.                                    *)
(***************************************************************************)
EXTENDS Naturals, Sequences

CONSTANTS
    ApAfter,            \* RECONNECT_ATTEMPTS_BEFORE_AP
    CountMod,           \* reconnectAttemptCount is a uint8_t
    RestNeeded,         \* REST fetches before MQTT may connect
    EventCap            \* bound: events of the station under way

ASSUME LinksAssumption ==
    /\ ApAfter \in Nat \ {0}
    /\ CountMod \in Nat /\ CountMod > ApAfter
    /\ RestNeeded \in Nat \ {0}
    /\ EventCap \in Nat \ {0}

VARIABLES
    assoc,          \* the station is connected and has an address
    begun,          \* WiFi.begin is looking for the network
    events,         \* events of the station that are not handled yet
    handler,        \* the event being handled
    up,             \* WiFi.status() == WL_CONNECTED, which the event task maintains
    initialized,    \* wifiInitialized
    wanted,         \* wifiReconnectEnabled
    attempts,       \* reconnectAttemptCount
    ap,             \* apStartedForReconnect
    slipped,        \* history: loop() has cleared wanted after the station was lost
    pc,             \* where setup() and then loop() is
    after,          \* where connectMQTT returns to
    mqtt,           \* mqttConnected
    pendingMqtt,    \* pendingMqttReconnect
    restOk,         \* s_postTaskApiSuccessCount, s_postTasksRestFetchOkCount
    restFailed,     \* s_mqttGateExternalRestFailSinceTasks
    settled         \* a WebSocket ticker has been seen and the first 20 s are over

stationVars == <<assoc, begun, events>>
flagVars == <<initialized, wanted, attempts, ap, slipped>>
gateVars == <<restOk, restFailed, settled>>
mqttVars == <<mqtt, pendingMqtt>>
linkVars == <<stationVars, handler, up, flagVars, pc, after, mqttVars, gateVars>>

\* setup() has just seen the connection; the handler of the address may still run.
LinksInit ==
    /\ assoc = TRUE /\ begun = FALSE /\ events = <<>> /\ handler = "ip" /\ up = TRUE
    /\ initialized = FALSE /\ wanted = FALSE /\ attempts = 0 /\ ap = FALSE /\ slipped = FALSE
    /\ pc = "setup" /\ after = "top"
    /\ mqtt = FALSE /\ pendingMqtt = FALSE
    /\ restOk = 0 /\ restFailed = FALSE /\ settled = FALSE

-----------------------------------------------------------------------------
(* The station and its events *)

Drop ==
    /\ assoc /\ Len(events) < EventCap
    /\ assoc' = FALSE
    /\ events' = Append(events, "lost")
    /\ UNCHANGED <<begun, handler, up, flagVars, pc, after, mqttVars, gateVars>>

Join ==
    /\ begun /\ Len(events) < EventCap
    /\ begun' = FALSE
    /\ assoc' = TRUE
    /\ events' = Append(events, "ip")
    /\ UNCHANGED <<handler, up, flagVars, pc, after, mqttVars, gateVars>>

\* A failed attempt may be reported as a lost connection.
JoinFails ==
    /\ begun /\ Len(events) < EventCap
    /\ begun' = FALSE
    /\ events' \in {events, Append(events, "lost")}
    /\ UNCHANGED <<assoc, handler, up, flagVars, pc, after, mqttVars, gateVars>>

EventBegin ==
    /\ handler = "none" /\ events # <<>>
    /\ handler' = Head(events)
    /\ events' = Tail(events)
    /\ up' = (Head(events) = "ip")
    /\ UNCHANGED <<assoc, begun, flagVars, pc, after, mqttVars, gateVars>>

HandleLost ==
    /\ handler = "lost"
    /\ handler' = "none"
    /\ IF initialized THEN wanted' = TRUE /\ attempts' = 0 ELSE UNCHANGED <<wanted, attempts>>
    /\ UNCHANGED <<stationVars, up, initialized, ap, slipped, pc, after, mqttVars, gateVars>>

HandleIp ==
    /\ handler = "ip"
    /\ handler' = "none"
    /\ wanted' = FALSE
    /\ initialized' = TRUE
    /\ attempts' = 0
    /\ ap' = FALSE
    /\ pendingMqtt' = (pendingMqtt \/ ~mqtt)
    /\ UNCHANGED <<stationVars, up, slipped, pc, after, mqtt, gateVars>>

\* The station is lost and no handler will say so any more.
Unreported == ~assoc /\ handler # "lost" /\ \A i \in DOMAIN events : events[i] # "lost"

-----------------------------------------------------------------------------
(* setup() and the MQTT half of loop() *)

SetupDone ==
    /\ pc = "setup"
    /\ wanted' = FALSE
    /\ initialized' = TRUE
    /\ slipped' = (slipped \/ Unreported)
    /\ pc' = "top"
    /\ UNCHANGED <<stationVars, handler, up, attempts, ap, after, mqttVars, gateVars>>

\* The exclusive mode of NtfyExclusive keeps loop() away from MQTT.
LoopExclusive ==
    /\ pc = "top"
    /\ pc' = "wifi"
    /\ UNCHANGED <<stationVars, handler, up, flagVars, after, mqttVars, gateVars>>

\* applyPendingMqttReconnect
LoopApplyPending ==
    /\ pc = "top"
    /\ pendingMqtt' = FALSE
    /\ mqtt' = (mqtt /\ ~pendingMqtt)
    /\ pc' = "mqtt"
    /\ UNCHANGED <<stationVars, handler, up, flagVars, after, gateVars>>

\* mqttClient.loop() keeps or loses the connection.
LoopMqtt ==
    /\ pc = "mqtt" /\ mqtt
    /\ mqtt' \in BOOLEAN
    /\ pc' = "wifi"
    /\ UNCHANGED <<stationVars, handler, up, flagVars, after, pendingMqtt, gateVars>>

\* No WiFi, or no attempt is due, or too few prices were fetched.
LoopMqttWait ==
    /\ pc = "mqtt" /\ ~mqtt
    /\ pc' = "wifi"
    /\ UNCHANGED <<stationVars, handler, up, flagVars, after, mqttVars, gateVars>>

\* Faulty: one price too many is asked for.
LoopMqttTryOneMore ==
    /\ pc = "mqtt" /\ ~mqtt /\ up /\ restOk > RestNeeded
    /\ pc' = "connect"
    /\ after' = "wifi"
    /\ UNCHANGED <<stationVars, handler, up, flagVars, mqttVars, gateVars>>

LoopMqttTry ==
    /\ pc = "mqtt" /\ ~mqtt /\ up /\ restOk = RestNeeded
    /\ pc' = "connect"
    /\ after' = "wifi"
    /\ UNCHANGED <<stationVars, handler, up, flagVars, mqttVars, gateVars>>

\* The health gate of connectMQTT: every connection passes it, not only the first.
GateOpen == settled /\ restOk = RestNeeded /\ ~restFailed

ConnectRefused ==
    /\ pc = "connect" /\ ~GateOpen
    /\ pc' = after
    /\ UNCHANGED <<stationVars, handler, up, flagVars, after, mqttVars, gateVars>>

ConnectBegin ==
    /\ pc = "connect" /\ GateOpen
    /\ pc' = "connecting"
    /\ UNCHANGED <<stationVars, handler, up, flagVars, after, mqttVars, gateVars>>

\* The broker answers.  Subscriptions and publications follow (see MqttQueue).
ConnectOk ==
    /\ pc = "connecting" /\ up
    /\ mqtt' = TRUE
    /\ pc' = after
    /\ UNCHANGED <<stationVars, handler, up, flagVars, after, pendingMqtt, gateVars>>

ConnectFails ==
    /\ pc = "connecting"
    /\ pc' = after
    /\ UNCHANGED <<stationVars, handler, up, flagVars, after, mqttVars, gateVars>>

-----------------------------------------------------------------------------
(* The WiFi half of loop() *)

\* Nothing is wanted, or no attempt is due.
LoopWifiWait ==
    /\ pc = "wifi"
    /\ pc' = "top"
    /\ UNCHANGED <<stationVars, handler, up, flagVars, after, mqttVars, gateVars>>

LoopWifiTry ==
    /\ pc = "wifi" /\ initialized /\ wanted /\ ~up
    /\ attempts' = (attempts + 1) % CountMod
    /\ pc' = "begin"
    /\ UNCHANGED <<stationVars, handler, up, initialized, wanted, ap, slipped, after, mqttVars, gateVars>>

\* WiFi.disconnect and WiFi.begin: the station may have come back in the meantime.
LoopBegin ==
    /\ pc = "begin"
    /\ assoc' = FALSE
    /\ events' = IF assoc THEN Append(events, "lost") ELSE events
    /\ begun' = TRUE
    /\ pc' = "joining"
    /\ UNCHANGED <<handler, up, flagVars, after, mqttVars, gateVars>>

\* loop() polls the status for ten seconds.
LoopSeesUp ==
    /\ pc = "joining" /\ up
    /\ pc' = "joined"
    /\ UNCHANGED <<stationVars, handler, up, flagVars, after, mqttVars, gateVars>>

LoopJoined ==
    /\ pc = "joined"
    /\ wanted' = FALSE
    /\ slipped' = (slipped \/ Unreported)
    /\ attempts' = 0
    /\ ap' = FALSE
    /\ after' = "top"
    /\ pc' = IF ~mqtt /\ restOk = RestNeeded THEN "connect" ELSE "top"
    /\ UNCHANGED <<stationVars, handler, up, initialized, mqttVars, gateVars>>

LoopTimeout ==
    /\ pc = "joining" /\ ~up
    /\ pc' = "timeout"
    /\ UNCHANGED <<stationVars, handler, up, flagVars, after, mqttVars, gateVars>>

\* Faulty: after the last attempt the portal is all that is left.
LoopPortalOnly ==
    /\ pc = "timeout"
    /\ ap' = (ap \/ attempts >= ApAfter)
    /\ wanted' = (wanted /\ attempts < ApAfter)
    /\ pc' = "top"
    /\ UNCHANGED <<stationVars, handler, up, initialized, attempts, slipped, after, mqttVars, gateVars>>

\* After many attempts the access point of the set-up portal is opened beside them,
\* also when the station has come back since the last look at it.
LoopPortal ==
    /\ pc = "timeout"
    /\ ap' = (ap \/ attempts >= ApAfter)
    /\ pc' = "top"
    /\ UNCHANGED <<stationVars, handler, up, initialized, wanted, attempts, slipped, after, mqttVars, gateVars>>

-----------------------------------------------------------------------------
(* The other tasks *)

\* apiTask fetches a price over REST; fetches from the WebSocket do not count.
RestOk ==
    /\ restOk < RestNeeded
    /\ restOk' = restOk + 1
    /\ UNCHANGED <<stationVars, handler, up, flagVars, pc, after, mqttVars, restFailed, settled>>

RestFails ==
    /\ ~restFailed
    /\ restFailed' = TRUE
    /\ UNCHANGED <<stationVars, handler, up, flagVars, pc, after, mqttVars, restOk, settled>>

Settle ==
    /\ ~settled
    /\ settled' = TRUE
    /\ UNCHANGED <<stationVars, handler, up, flagVars, pc, after, mqttVars, restOk, restFailed>>

\* Saving the settings in the web page asks for a new connection.
RequestReconnect ==
    /\ ~pendingMqtt
    /\ pendingMqtt' = TRUE
    /\ UNCHANGED <<stationVars, handler, up, flagVars, pc, after, mqtt, gateVars>>

Station == Drop \/ Join \/ JoinFails
Event == EventBegin \/ HandleLost \/ HandleIp
Loop ==
    \/ SetupDone \/ LoopExclusive \/ LoopApplyPending
    \/ LoopMqtt \/ LoopMqttWait \/ LoopMqttTry
    \/ ConnectRefused \/ ConnectBegin \/ ConnectOk \/ ConnectFails
    \/ LoopWifiWait \/ LoopWifiTry \/ LoopBegin \/ LoopSeesUp \/ LoopJoined \/ LoopTimeout \/ LoopPortal
Others == RestOk \/ RestFails \/ Settle \/ RequestReconnect

LinksNext == Station \/ Event \/ Loop \/ Others

\* Both tasks run; the exclusive mode ends; intervals end; a network that is looked for
\* again and again, and a broker, answer in the end.
LinksSpec ==
    /\ LinksInit /\ [][LinksNext]_linkVars
    /\ WF_linkVars(Event) /\ WF_linkVars(Loop)
    /\ SF_linkVars(LoopApplyPending) /\ SF_linkVars(LoopMqttTry) /\ SF_linkVars(LoopWifiTry)
    /\ SF_linkVars(Join) /\ SF_linkVars(ConnectOk)

-----------------------------------------------------------------------------
(* Properties *)

\* The type invariant.
LinksTypeOK ==
    /\ assoc \in BOOLEAN /\ begun \in BOOLEAN /\ up \in BOOLEAN
    /\ events \in Seq({"lost", "ip"}) /\ Len(events) <= EventCap + 1
    /\ handler \in {"none", "lost", "ip"}
    /\ initialized \in BOOLEAN /\ wanted \in BOOLEAN /\ ap \in BOOLEAN /\ slipped \in BOOLEAN
    /\ attempts \in 0 .. CountMod - 1
    /\ pc \in {"setup", "top", "mqtt", "connect", "connecting", "wifi", "begin", "joining", "joined", "timeout"}
    /\ after \in {"top", "wifi"}
    /\ mqtt \in BOOLEAN /\ pendingMqtt \in BOOLEAN
    /\ restOk \in 0 .. RestNeeded
    /\ restFailed \in BOOLEAN /\ settled \in BOOLEAN

\* A station that was lost is looked for: once its events are handled, it meets the test
\* of loop() for a new attempt, whichever of its losses and returns overtook loop(); it
\* slips only when loop() clears the flag over a loss that was already reported.
LossIsWorkedOn ==
    ~assoc /\ events = <<>> /\ handler = "none" /\ pc # "setup" =>
        (initialized /\ wanted /\ ~up) \/ slipped

\* The station comes back, however its events overtake loop() and whatever was lost in
\* between, unless loop() once cleared the flag over a loss already reported.
WifiReturns == ~up ~> up \/ slipped

\* With WiFi and an open gate the client comes back after every loss and every request
\* for a new connection.
MqttReturns == <>[](up /\ GateOpen) => []<>mqtt

\* "Automatic reconnection", without the exception.
WifiAlwaysReturns == ~up ~> up
=============================================================================
