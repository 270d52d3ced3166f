----------------------------- MODULE MCV2System -----------------------------
\* V2System with the instances of its parts.  One part at a time is explored to its
\* depths while the others are at the beginning of a run: the engine and the feed on a
\* device that keeps nothing but its network, the engine without prices of the feed,
\* the requests and the MQTT client with both still to start.
EXTENDS V2System

MCTimingValues == [one |-> {1}, five |-> {2}, conf |-> {2}, sup |-> {1, 3}]
Policy(on, same, both, loose) == [enabled |-> on, same |-> same, both |-> both, loose |-> loose]
MCPolicies == {Policy(TRUE, TRUE, TRUE, TRUE), Policy(TRUE, FALSE, FALSE, TRUE),
               Policy(TRUE, TRUE, FALSE, FALSE), Policy(FALSE, TRUE, TRUE, TRUE)}
MCVols == {2, 10, 30}
MCScaleOf == [calm |-> 700, normal |-> 1000, hot |-> 1500]
MCBases == [one |-> 16, five |-> 32]
MCMoves == {-30, -13, 0, 17, 30, 44}

MCKeysOf == [wifi |-> <<"ssid", "pass">>, service |-> <<"mqtt", "uri">>,
             runtime |-> <<"move", "hot">>, timing |-> <<"cool", "window">>,
             policy |-> <<"enabled", "loose">>]
MCValues == [ssid |-> {"", "home"}, pass |-> {"", "key"}, mqtt |-> {"off", "on"},
             uri |-> {"", "good", "odd"}, move |-> {"m1", "m2"}, hot |-> {"h1", "h2"},
             cool |-> {"c1", "c2"}, window |-> {"w1", "w2"},
             enabled |-> {"yes", "no"}, loose |-> {"yes", "no"}]
MCDefault == [ssid |-> "", pass |-> "", mqtt |-> "off", uri |-> "", move |-> "m1",
              hot |-> "h1", cool |-> "c1", window |-> "w1", enabled |-> "yes", loose |-> "yes"]

AlertsAtRest ==
    /\ pc = "tick" /\ warm = {} /\ \A a \in DOMAIN since : since[a] = Old
    /\ timing["sup"] = 1 /\ policy = Policy(TRUE, TRUE, TRUE, TRUE)
    /\ windowUp

FeedOff == station = "off" /\ feedPc = "pause" /\ conn = "Error"

\* The groups of settings that a form has touched, and the firmware.
Touched ==
    {g \in Groups \ {"wifi"} : OfGroup(flash, g) # <<Absent, Absent>>}
       \cup (IF boot = "ota_0" /\ image["ota_1"] = "torn" THEN {} ELSE {"firmware"})

DeviceAtRest ==
    /\ form = NoForm /\ upload = "none" /\ at = Idle /\ torn = {}
    /\ image["ota_1"] = "torn"
    /\ flash = [k \in Keys |-> CASE k = "ssid" -> "home" [] k = "pass" -> "key" [] OTHER -> Absent]

MCFocus == \A g, h \in Touched : g = h

MCNext ==
    \/ SystemBoot \/ SystemRestart
    \/ AlertsAtRest /\ station = "off" /\ feedPc = "tick" /\ (SystemServer \/ SystemMqtt)
    \/ AlertsAtRest /\ DeviceAtRest /\ SystemFeed
    \/ FeedOff /\ DeviceAtRest /\ SystemAlerts

MCSpec == SystemInit /\ [][MCNext]_systemVars
=============================================================================
