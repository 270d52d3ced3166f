--------------------------- MODULE V2SystemProofs ---------------------------
(***************************************************************************)
(* Theorems about V2System, for every depth of the queue of at least two   *)
(* events, every choice of settings, policies and thresholds, every set of *)
(* keys and values in flash.                                               *)
(***************************************************************************)
EXTENDS V2System, TLAPS

-----------------------------------------------------------------------------
(* The alert engine and the queue within one round of the main loop.        *)

Actors == Paths \cup {"conf"}

Elems(q) == {q[i] : i \in DOMAIN q}

\* The queue grows by one when an alert fires; by the time 1m is looked at, a queued
\* alert is the confluence and holds 1m back, so two are the most a round can queue.
RoundOK ==
    /\ timing \in Timings /\ tm \in Timings
    /\ queue \in Seq(Actors) /\ taken \in Nat /\ dropped = FALSE
    /\ pc \in {"tick", "confluence", "gate", "one", "five", "observe", "poll"}
    /\ pc # "poll" => taken = 0 /\ fired = Elems(queue)
    /\ pc = "poll" => fired = {} /\ Len(queue) + taken <= 2
    /\ pc \in {"tick", "confluence"} => queue = <<>>
    /\ pc \in {"gate", "one", "five"} => Len(queue) <= 1
    /\ pc = "observe" => Len(queue) <= 2
    /\ pc \in {"gate", "one"} /\ queue # <<>> => Suppressed("one")

\* An event that is put in is in afterwards.
LEMMA ElemsAppend ==
    ASSUME NEW q \in Seq(Actors), NEW e \in Actors
    PROVE  /\ Append(q, e) \in Seq(Actors) /\ Len(Append(q, e)) = Len(q) + 1
           /\ Elems(Append(q, e)) = Elems(q) \cup {e}
<1>1. /\ Append(q, e) \in Seq(Actors) /\ Len(Append(q, e)) = Len(q) + 1
      /\ DOMAIN Append(q, e) = 1 .. Len(q) + 1 /\ DOMAIN q = 1 .. Len(q)
      /\ Len(q) \in Nat
      /\ Append(q, e)[Len(q) + 1] = e
      /\ \A i \in 1 .. Len(q) : Append(q, e)[i] = q[i]
  OBVIOUS
<1>2. 1 .. Len(q) + 1 = 1 .. Len(q) \cup {Len(q) + 1}
  BY <1>1
<1> QED BY <1>1, <1>2 DEF Elems

\* With room for two, an event that comes to at most one is put in.
LEMMA EmitRoom ==
    ASSUME queue \in Seq(Actors), Len(queue) <= 1, NEW e \in Actors, Emit(e)
    PROVE  /\ queue' \in Seq(Actors) /\ Len(queue') = Len(queue) + 1
           /\ Elems(queue') = Elems(queue) \cup {e}
           /\ UNCHANGED dropped
<1>1. Len(queue) < Depth
  BY OutboundAssumption, RoundAssumption
<1>2. queue' = Append(queue, e) /\ UNCHANGED dropped
  BY <1>1 DEF Emit
<1> QED BY <1>2, ElemsAppend

\* A legal save keeps the timing settings legal.
LEMMA TimingsClosed ==
    ASSUME NEW t \in Timings, NEW s \in Settings, NEW v \in TimingValues[s]
    PROVE  [t EXCEPT ![s] = v] \in Timings
BY DEF Timings

\* One step per part of the round, and the two saves that may come at any time.
LEMMA RoundStep ==
    ASSUME RoundOK, Next \/ UNCHANGED vars \/ AlertsReset
    PROVE  RoundOK'
<1> USE DEF RoundOK
<1>1. CASE TickStart
  BY <1>1 DEF TickStart, outboundVars
<1>2. CASE Confluence
  <2>1. queue = <<>> /\ fired = {} /\ Elems(queue) = {} /\ Len(queue) = 0
    BY <1>2 DEF Confluence, Elems
  <2>2. CASE /\ ~ConfluenceFires
             /\ UNCHANGED <<since, window, windowUp, fired, queue, dropped>>
    BY <1>2, <2>1, <2>2 DEF Confluence
  <2>3. CASE /\ ConfluenceFires /\ window' = tm["sup"] /\ windowUp' = move["one"].up
             /\ fired' = fired \cup {"conf"} /\ Emit("conf")
    <3>1. /\ queue' \in Seq(Actors) /\ Len(queue') = 1 /\ UNCHANGED dropped
          /\ fired' = Elems(queue')
      BY <2>1, <2>3, EmitRoom DEF Actors
    <3>2. tm["sup"] > 0
      <4>1. "sup" \in Settings
        BY DEF Settings
      <4>2. tm["sup"] \in TimingValues["sup"]
        BY <4>1 DEF Timings
      <4> QED BY <4>1, <4>2, TimingAssumption
    <3>3. Suppressed("one")'
      BY <1>2, <2>3, <3>2 DEF Suppressed, Confluence
    <3> QED BY <1>2, <3>1, <3>3 DEF Confluence
  <2> QED BY <1>2, <2>2, <2>3 DEF Confluence
<1>3. CASE LooseGate
  BY <1>3 DEF LooseGate, outboundVars, Suppressed
<1>4. CASE Loose("one", "five")
  <2>1. CASE ~LooseFires("one") /\ UNCHANGED <<since, fired, queue, dropped>>
    BY <1>4, <2>1 DEF Loose
  <2>2. CASE LooseFires("one") /\ fired' = fired \cup {"one"} /\ Emit("one")
    <3>1. queue = <<>> /\ Len(queue) = 0
      BY <1>4, <2>2 DEF Loose, LooseFires
    <3>2. /\ queue' \in Seq(Actors) /\ Len(queue') = 1 /\ UNCHANGED dropped
          /\ Elems(queue') = Elems(queue) \cup {"one"}
      BY <2>2, <3>1, EmitRoom DEF Actors, Paths
    <3> QED BY <1>4, <2>2, <3>2 DEF Loose
  <2> QED BY <1>4, <2>1, <2>2 DEF Loose
<1>5. CASE Loose("five", "observe")
  <2>1. CASE ~LooseFires("five") /\ UNCHANGED <<since, fired, queue, dropped>>
    BY <1>5, <2>1 DEF Loose
  <2>2. CASE LooseFires("five") /\ fired' = fired \cup {"five"} /\ Emit("five")
    <3>1. Len(queue) <= 1 /\ Len(queue) \in Nat
      BY <1>5 DEF Loose
    <3>2. /\ queue' \in Seq(Actors) /\ Len(queue') <= 2 /\ UNCHANGED dropped
          /\ Elems(queue') = Elems(queue) \cup {"five"}
      BY <2>2, <3>1, EmitRoom DEF Actors, Paths
    <3> QED BY <1>5, <2>2, <3>2 DEF Loose
  <2> QED BY <1>5, <2>1, <2>2 DEF Loose
<1>6. CASE Observe
  BY <1>6 DEF Observe, outboundVars
<1>7. CASE Poll
  <2>1. Len(queue) \in Nat /\ (Len(queue) = 0 <=> queue = <<>>)
    OBVIOUS
  <2>2. CASE Dispatch /\ UNCHANGED pc
    <3>1. /\ queue' \in Seq(Actors) /\ Len(queue') = Len(queue) - 1
          /\ taken' = taken + 1
      BY <2>2 DEF Dispatch
    <3> QED BY <1>7, <2>1, <2>2, <3>1 DEF Poll, Dispatch, engineVars, Suppressed
  <2>3. CASE PollReturns /\ pc' = "tick"
    <3>1. queue = <<>>
      BY <1>7, <2>1, <2>3, OutboundAssumption, RoundAssumption DEF Poll, PollReturns
    <3> QED BY <1>7, <2>3, <3>1 DEF Poll, PollReturns, engineVars, Elems
  <2> QED BY <1>7, <2>2, <2>3 DEF Poll
<1>8. CASE SaveTiming
  <2>1. PICK s \in Settings : \E v \in TimingValues[s] : timing' = [timing EXCEPT ![s] = v]
    BY <1>8 DEF SaveTiming
  <2>2. timing' \in Timings
    <3>1. PICK v \in TimingValues[s] : timing' = [timing EXCEPT ![s] = v]
      BY <2>1
    <3> QED BY <3>1, TimingsClosed
  <2>3. tm' \in Timings
    BY <1>8, <2>2 DEF SaveTiming
  <2> QED BY <1>8, <2>2, <2>3 DEF SaveTiming, outboundVars, Suppressed
<1>9. CASE SavePolicy
  BY <1>9 DEF SavePolicy, outboundVars, Suppressed
<1>10. CASE UNCHANGED vars
  BY <1>10 DEF vars, engineVars, outboundVars, Suppressed
<1>11. CASE AlertsReset
  BY <1>11 DEF AlertsReset, Elems
<1> QED BY <1>1, <1>2, <1>3, <1>4, <1>5, <1>6, <1>7, <1>8, <1>9, <1>10, <1>11 DEF Next

-----------------------------------------------------------------------------
(* What the page says of a tick agrees with what the tick did.              *)

\* What a path has decided stays true until the page is told: an alert that fired was
\* ready and over its threshold, one that did not is still held back.
StatusOK ==
    /\ DOMAIN since = Actors
    /\ \A p \in Paths : p \in fired => move[p].ready /\ move[p].over
    /\ pc \in {"five", "observe"} /\ "one" \notin fired => ~LooseFires("one")
    /\ pc = "observe" /\ "five" \notin fired => ~LooseFires("five")
    /\ steady /\ pc \in {"gate", "one", "five", "observe"} =>
          IF "conf" \in fired
          THEN /\ policy.enabled /\ BothReady /\ ThresholdsPass(policy)
               /\ ~(policy.same /\ Apart)
          ELSE ~ConfluenceFires

\* Each decision is unchanged by the steps between it and the page.
LEMMA StatusStep ==
    ASSUME RoundOK, StatusOK, Next \/ UNCHANGED vars \/ AlertsReset
    PROVE  StatusOK'
<1> USE DEF StatusOK
<1>0. /\ "conf" \notin Paths /\ "one" \in Paths /\ "five" \in Paths
      /\ Paths \subseteq Actors /\ "conf" \in Actors
      /\ pc \in {"tick", "confluence"} => fired = {}
  BY DEF Paths, Actors, RoundOK, Elems
<1>1. CASE TickStart
  BY <1>0, <1>1 DEF TickStart
<1>2. CASE Confluence
  <2>1. CASE ConfluenceFires /\ fired' = fired \cup {"conf"}
             /\ since' = [since EXCEPT !["conf"] = 0]
    <3>1. /\ policy.enabled /\ BothReady /\ ThresholdsPass(policy)
          /\ ~(policy.same /\ Apart)
      BY <2>1 DEF ConfluenceFires
    <3>2. UNCHANGED <<policy, move>> /\ pc' = "gate" /\ fired' = {"conf"}
      BY <1>0, <1>2, <2>1 DEF Confluence
    <3>3. (policy.enabled /\ BothReady /\ ThresholdsPass(policy)
           /\ ~(policy.same /\ Apart))'
      BY <3>1, <3>2 DEF BothReady, ThresholdsPass, Apart
    <3> QED BY <1>0, <2>1, <3>2, <3>3
  <2>2. CASE ~ConfluenceFires /\ UNCHANGED <<since, fired>>
    <3>1. UNCHANGED <<policy, move, tm, since>> /\ pc' = "gate" /\ fired' = {}
      BY <1>0, <1>2, <2>2 DEF Confluence
    <3>2. ~ConfluenceFires'
      BY <2>2, <3>1 DEF ConfluenceFires, BothReady, ThresholdsPass, Apart, Cooling
    <3> QED BY <1>0, <2>2, <3>1, <3>2
  <2> QED BY <1>2, <2>1, <2>2 DEF Confluence
<1>3. CASE LooseGate
  <2>1. UNCHANGED <<policy, move, tm, since, fired, steady>> /\ pc = "gate" /\ pc' = "one"
    BY <1>3 DEF LooseGate
  <2> QED BY <2>1 DEF ConfluenceFires, BothReady, ThresholdsPass, Apart, Cooling
<1>4. ASSUME NEW p \in Paths, NEW next, Loose(p, next)
      PROVE  /\ UNCHANGED <<policy, move, tm, steady, blocked, window, windowUp>>
             /\ pc = p /\ pc' = next
             /\ DOMAIN since' = Actors
             /\ \A a \in Actors \ {p} : since'[a] = since[a]
             /\ \/ fired' = fired /\ since' = since /\ ~LooseFires(p)
                \/ fired' = fired \cup {p} /\ move[p].ready /\ move[p].over
  <2>1. /\ UNCHANGED <<policy, move, tm, steady, blocked, window, windowUp>>
        /\ pc = p /\ pc' = next
    BY <1>4 DEF Loose
  <2>2. CASE /\ LooseFires(p) /\ since' = [since EXCEPT ![p] = 0]
             /\ fired' = fired \cup {p}
    <3>1. move[p].ready /\ move[p].over
      BY <2>2 DEF LooseFires
    <3> QED BY <2>1, <2>2, <3>1
  <2>3. CASE ~LooseFires(p) /\ UNCHANGED <<since, fired>>
    BY <2>1, <2>3
  <2> QED BY <1>4, <2>2, <2>3 DEF Loose
<1>5. ASSUME NEW p \in Paths, NEW next, Loose(p, next), pc \in {"one", "five"}
      PROVE  /\ \A r \in Paths : r \in fired' => move'[r].ready /\ move'[r].over
             /\ p \notin fired' => ~LooseFires(p)'
             /\ steady' => IF "conf" \in fired'
                           THEN (policy.enabled /\ BothReady /\ ThresholdsPass(policy)
                                 /\ ~(policy.same /\ Apart))'
                           ELSE ~ConfluenceFires'
  <2>1. \A r \in Paths : r \in fired' => move'[r].ready /\ move'[r].over
    BY <1>4, <1>5
  <2>2. p \notin fired' => ~LooseFires(p)'
    BY <1>4, <1>5 DEF LooseFires, Suppressed, Cooling
  <2>3. since'["conf"] = since["conf"] /\ ("conf" \in fired' <=> "conf" \in fired)
    BY <1>0, <1>4, <1>5
  <2>4. UNCHANGED <<policy, move, tm, steady>>
    BY <1>4, <1>5
  <2>5. UNCHANGED <<ConfluenceFires, policy.enabled /\ BothReady /\ ThresholdsPass(policy)
                                     /\ ~(policy.same /\ Apart)>>
    BY <2>3, <2>4 DEF ConfluenceFires, BothReady, ThresholdsPass, Apart, Cooling
  <2> QED BY <1>5, <2>1, <2>2, <2>3, <2>4, <2>5
<1>6. CASE Loose("one", "five")
  BY <1>0, <1>4, <1>5, <1>6
<1>7. CASE Loose("five", "observe")
  <2>1. /\ UNCHANGED <<move, tm, blocked, window, windowUp>>
        /\ since'["one"] = since["one"] /\ ("one" \in fired' <=> "one" \in fired)
    BY <1>0, <1>4, <1>7
  <2>2. LooseFires("one")' <=> LooseFires("one")
    BY <2>1 DEF LooseFires, Suppressed, Cooling
  <2> QED BY <1>0, <1>4, <1>5, <1>7, <2>1, <2>2
<1>8. CASE Observe
  BY <1>8 DEF Observe
<1>9. CASE Poll
  BY <1>9 DEF Poll, engineVars, RoundOK
<1>10. CASE SaveTiming
  <2>1. /\ UNCHANGED <<pc, policy, move, since, window, windowUp, fired, blocked, steady>>
        /\ pc \notin {"tick", "poll"} => tm' = tm
    BY <1>10 DEF SaveTiming
  <2>2. CASE pc \in {"tick", "poll"}
    BY <2>1, <2>2
  <2>3. CASE tm' = tm
    BY <2>1, <2>3 DEF LooseFires, Suppressed, Cooling, ConfluenceFires, BothReady,
                      ThresholdsPass, Apart
  <2> QED BY <2>1, <2>2, <2>3
<1>11. CASE SavePolicy
  <2>1. /\ UNCHANGED <<pc, tm, move, since, window, windowUp, fired, blocked>>
        /\ steady' /\ pc \in {"gate", "one", "five", "observe"} => steady /\ policy' = policy
    BY <1>11 DEF SavePolicy
  <2> QED BY <2>1 DEF LooseFires, Suppressed, Cooling, ConfluenceFires, BothReady,
                      ThresholdsPass, Apart
<1>12. CASE UNCHANGED vars
  BY <1>12 DEF vars, engineVars, LooseFires, Suppressed, Cooling, ConfluenceFires,
               BothReady, ThresholdsPass, Apart
<1>13. CASE AlertsReset
  BY <1>13 DEF AlertsReset
<1> QED BY <1>1, <1>2, <1>3, <1>6, <1>7, <1>8, <1>9, <1>10, <1>11, <1>12, <1>13 DEF Next

\* A step of the system is a step of the engine, a restart of it, or none of its business.
LEMMA EngineSteps ==
    ASSUME [SystemNext]_systemVars
    PROVE  Next \/ UNCHANGED vars \/ AlertsReset
BY DEF SystemNext, SystemBoot, SystemRestart, SystemServer, SystemMqtt, SystemFeed,
       SystemAlerts, systemVars, vars

EngineInv == RoundOK /\ StatusOK

\* The engine's invariant holds in every reachable state of the system.
LEMMA EngineInvariance == SystemSpec => []EngineInv
<1>1. SystemInit => EngineInv
  <2> SUFFICES ASSUME SystemInit PROVE EngineInv
    OBVIOUS
  <2>1. RoundOK
    BY DEF SystemInit, Init, OutboundInit, RoundOK, Elems
  <2>2. StatusOK
    BY DEF SystemInit, Init, StatusOK, Actors
  <2> QED BY <2>1, <2>2 DEF EngineInv
<1>2. EngineInv /\ [SystemNext]_systemVars => EngineInv'
  BY EngineSteps, RoundStep, StatusStep DEF EngineInv
<1> QED BY <1>1, <1>2, PTL DEF SystemSpec

\* Every round of the main loop starts with an empty queue, and no event is dropped.
THEOREM EveryRoundDrains == SystemSpec => []RoundDrains
<1>1. EngineInv => RoundDrains
  BY DEF EngineInv, RoundOK, RoundDrains
<1> QED BY <1>1, EngineInvariance, PTL

\* The page says "fired" of exactly the alerts that the tick has queued, and is never
\* at a loss for a reason.
THEOREM PageMirrorsTick == SystemSpec => []StatusMirrors
<1>1. EngineInv => StatusMirrors
  <2>0. EngineInv /\ pc = "observe" => {queue[i] : i \in DOMAIN queue} = fired
    BY DEF EngineInv, RoundOK, Elems
  <2> SUFFICES ASSUME EngineInv, pc = "observe"
               PROVE  /\ \A p \in Paths : /\ LooseStatus(p) = "fired" <=> p \in fired
                                          /\ LooseStatus(p) # "internal"
                      /\ steady => /\ ConfluenceStatus = "fired" <=> "conf" \in fired
                                   /\ ConfluenceStatus # "internal"
    BY <2>0 DEF StatusMirrors
  <2>1. ASSUME NEW p \in Paths
        PROVE  /\ LooseStatus(p) = "fired" <=> p \in fired
               /\ LooseStatus(p) # "internal"
    <3>1. CASE p \in fired
      <4>1. move[p].ready /\ move[p].over
        BY <3>1 DEF EngineInv, StatusOK
      <4>2. LooseStatus(p) = "fired"
        BY <3>1, <4>1 DEF LooseStatus
      <4> QED BY <3>1, <4>2
    <3>2. CASE p \notin fired
      <4>1. ~LooseFires(p)
        BY <3>2 DEF EngineInv, StatusOK, Paths
      <4>2. LooseStatus(p) \in {"not_ready", "below_threshold", "cooldown", "suppressed"}
        BY <3>2, <4>1 DEF LooseStatus, LooseFires
      <4> QED BY <3>2, <4>2
    <3> QED BY <3>1, <3>2
  <2>2. ASSUME steady
        PROVE  /\ ConfluenceStatus = "fired" <=> "conf" \in fired
               /\ ConfluenceStatus # "internal"
    <3>1. CASE "conf" \in fired
      <4>1. /\ policy.enabled /\ BothReady /\ ThresholdsPass(policy)
            /\ ~(policy.same /\ Apart)
        BY <2>2, <3>1 DEF EngineInv, StatusOK
      <4>2. ConfluenceStatus = "fired"
        BY <3>1, <4>1 DEF ConfluenceStatus
      <4> QED BY <3>1, <4>2
    <3>2. CASE "conf" \notin fired
      <4>1. ~ConfluenceFires
        BY <2>2, <3>2 DEF EngineInv, StatusOK
      <4>2. ConfluenceStatus \in {"disabled", "not_ready", "below_threshold",
                                  "direction_mismatch", "cooldown"}
        BY <3>2, <4>1 DEF ConfluenceStatus, ConfluenceFires
      <4> QED BY <3>2, <4>2
    <3> QED BY <3>1, <3>2
  <2> QED BY <2>1, <2>2
<1> QED BY <1>1, EngineInvariance, PTL

-----------------------------------------------------------------------------
(* The firmware slots and the upload.                                       *)

\* A start needs the slot the bootloader takes, so the slot that is written is never it:
\* a running device runs from it until the very end of an upload.
SlotsOK ==
    /\ image \in [Slots -> {"whole", "torn"}] /\ boot \in Slots /\ slot \in Slots
    /\ image[boot] = "whole"
    /\ phase # "off" /\ upload # "restart" => boot = slot
    /\ phase = "off" => upload = "none" /\ form = NoForm
    /\ upload = "checked" => image[OtherThan(slot)] = "whole"

\* The other slot is one, and is another one.
LEMMA OtherSlot == \A s \in Slots : OtherThan(s) \in Slots /\ OtherThan(s) # s
<1>1. \A s \in Slots : \E o \in Slots : o # s
  BY DEF Slots
<1> QED BY <1>1 DEF OtherThan

\* The steps of the upload, the start, a restart; all else leaves the slots alone.
LEMMA SlotsStep ==
    ASSUME SlotsOK, DeviceNext \/ UNCHANGED deviceVars
    PROVE  SlotsOK'
<1> USE DEF SlotsOK
<1>1. CASE Boot
  BY <1>1 DEF Boot
<1>2. CASE UploadBegins
  BY <1>2, OtherSlot DEF UploadBegins, ServerFree
<1>3. CASE UploadFails
  BY <1>3 DEF UploadFails
<1>4. CASE UploadChecked
  BY <1>4, OtherSlot DEF UploadChecked
<1>5. CASE UploadBoots
  BY <1>5, OtherSlot DEF UploadBoots
<1>6. CASE Restarts
  BY <1>6 DEF Restarts, PowerCut, RestartByItself, UploadRestarts, Restart
<1>7. CASE \/ WifiForm \/ ServiceForm \/ RuntimeForm \/ TimingForm \/ PolicyForm
           \/ Mqtt \/ UNCHANGED deviceVars
  <2>1. UNCHANGED <<phase, otaVars>> /\ (phase = "off" => form' = form)
    BY <1>7 DEF WifiForm, ServiceForm, RuntimeForm, TimingForm, PolicyForm, WholeForm,
           Submit, Mqtt, Announce, Look, FlushBegins, Published, NotPublished,
           ClientConnects, ClientDisconnects, deviceVars, storeVars
  <2> QED BY <2>1 DEF otaVars
<1>8. CASE Write \/ WriteFails \/ Stored
  <2>1. UNCHANGED otaVars /\ phase # "off" /\ (phase' = phase \/ phase' = "saved")
    BY <1>8 DEF Write, WriteFails, Stored
  <2> QED BY <2>1 DEF otaVars
<1> QED BY <1>1, <1>2, <1>3, <1>4, <1>5, <1>6, <1>7, <1>8 DEF DeviceNext, Server

-----------------------------------------------------------------------------
(* The word for the MQTT broker.                                            *)

\* While the word waits on a connection that has refused nothing, one of the two tasks
\* is still on its way to it.
WordOK ==
    /\ DOMAIN at = {"main", "mqtt"}
    /\ phase = "off" => ~pending /\ ~connected
    /\ pending /\ connected /\ ~failed =>
          \/ at["main"] \in {"look", "flush", "publish"}
          \/ at["mqtt"] \in {"flush", "publish"}

\* Each task sees a flag that the other one has set before it looked.
LEMMA WordStep ==
    ASSUME WordOK, DeviceNext \/ UNCHANGED deviceVars
    PROVE  WordOK'
<1> USE DEF WordOK
<1>0. DOMAIN Idle = {"main", "mqtt"} /\ DOMAIN [Idle EXCEPT !.main = "announce"]
                                           = {"main", "mqtt"}
  BY DEF Idle
<1>1. CASE Boot
  BY <1>0, <1>1 DEF Boot
<1>2. CASE Restarts
  BY <1>0, <1>2 DEF Restarts, PowerCut, RestartByItself, UploadRestarts, Restart
<1>3. CASE Server \/ UNCHANGED deviceVars
  <2>1. UNCHANGED mqttVars /\ (phase' = phase \/ phase' = "saved")
    BY <1>3 DEF Server, WifiForm, ServiceForm, RuntimeForm, TimingForm, PolicyForm,
           WholeForm, Submit, Write, WriteFails, Stored, UploadBegins, UploadFails,
           UploadChecked, UploadBoots, deviceVars
  <2> QED BY <2>1 DEF mqttVars
<1>4. CASE Announce
  BY <1>4 DEF Announce, Goes
<1>5. CASE Look
  BY <1>5 DEF Look, Goes
<1>6. CASE ClientConnects
  BY <1>6 DEF ClientConnects, Goes
<1>7. CASE ClientDisconnects
  BY <1>7 DEF ClientDisconnects
<1>8. ASSUME NEW t \in {"main", "mqtt"}, FlushBegins(t) PROVE WordOK'
  BY <1>8 DEF FlushBegins, Goes, Resting
<1>9. ASSUME NEW t \in {"main", "mqtt"}, Published(t) PROVE WordOK'
  BY <1>9 DEF Published, Goes, Resting
<1>10. ASSUME NEW t \in {"main", "mqtt"}, NotPublished(t) PROVE WordOK'
  BY <1>10 DEF NotPublished, Goes, Resting
<1> QED
  BY <1>1, <1>2, <1>3, <1>4, <1>5, <1>6, <1>7, <1>8, <1>9, <1>10 DEF DeviceNext, Mqtt

-----------------------------------------------------------------------------
(* The settings: in use, in flash and as the forms made them.               *)

Same(a, b, g) == \A i \in {1, 2} : a[KeysOf[g][i]] = b[KeysOf[g][i]]

\* What the server task is storing is legal, and so much of it is in flash.
FormOK ==
    \/ form = NoForm
    \/ \E g \in Groups, n \in 0 .. 2 :
          \E v \in Values[KeysOf[g][1]], w \in Values[KeysOf[g][2]] :
             /\ form = [group |-> g, value |-> <<v, w>>, done |-> n]
             /\ n >= 1 => flash[KeysOf[g][1]] = v
             /\ n = 2 => flash[KeysOf[g][2]] = w

\* A restart would load what the last whole form said, except of a group that is torn
\* and of the one that is being stored; a started device already uses it.
StoreOK ==
    /\ DOMAIN flash = Keys /\ DOMAIN inUse = Keys /\ DOMAIN made = Keys
    /\ \A k \in Keys : inUse[k] \in Values[k] /\ made[k] \in Values[k]
    /\ FormOK
    /\ \A g \in Groups \ torn :
          ~(form.group = g /\ form.done > 0) => Same(Load(flash), made, g)
    /\ phase # "off" => \A g \in Groups \ torn : Same(inUse, made, g)

\* Two keys at different places are different keys.
LEMMA KeysApart ==
    /\ \A g \in Groups, i \in {1, 2} : KeysOf[g][i] \in Keys
    /\ \A g, h \in Groups, i, j \in {1, 2} :
          g # h \/ i # j => KeysOf[g][i] # KeysOf[h][j]
BY DeviceAssumption DEF Keys

\* Loading always ends within range, and key by key.
LEMMA LoadRange ==
    ASSUME NEW f
    PROVE  /\ DOMAIN Load(f) = Keys
           /\ \A k \in Keys : /\ Load(f)[k] \in Values[k]
                              /\ f[k] \in Values[k] => Load(f)[k] = f[k]
BY DeviceAssumption DEF Load

\* Taking a form into use changes the keys of its group and no others.
LEMMA WithKeys ==
    ASSUME NEW s, DOMAIN s = Keys, NEW g \in Groups, NEW v, NEW w
    PROVE  /\ DOMAIN With(s, g, <<v, w>>) = Keys
           /\ With(s, g, <<v, w>>)[KeysOf[g][1]] = v
           /\ With(s, g, <<v, w>>)[KeysOf[g][2]] = w
           /\ \A k \in Keys : k \notin {KeysOf[g][1], KeysOf[g][2]} =>
                 With(s, g, <<v, w>>)[k] = s[k]
BY KeysApart DEF With

\* A form begins: nothing of it is in flash yet.
LEMMA SubmitStep ==
    ASSUME StoreOK, NEW g \in Groups, NEW v \in Values[KeysOf[g][1]],
           NEW w \in Values[KeysOf[g][2]], Submit(g, <<v, w>>)
    PROVE  StoreOK'
<1>1. /\ UNCHANGED <<phase, flash, inUse, torn, made>>
      /\ form = NoForm /\ form' = [group |-> g, value |-> <<v, w>>, done |-> 0]
  BY DEF Submit, ServerFree
<1>2. FormOK'
  BY <1>1 DEF FormOK
<1>3. \A h \in Groups \ torn : Same(Load(flash), made, h)
  BY <1>1 DEF StoreOK, NoForm
<1> QED BY <1>1, <1>2, <1>3 DEF StoreOK, Same

\* What is being stored, apart from the trivial case.
LEMMA FormParts ==
    ASSUME StoreOK, form # NoForm
    PROVE  \E g \in Groups, n \in 0 .. 2 :
              \E v \in Values[KeysOf[g][1]], w \in Values[KeysOf[g][2]] :
                 /\ form = [group |-> g, value |-> <<v, w>>, done |-> n]
                 /\ n >= 1 => flash[KeysOf[g][1]] = v
                 /\ n = 2 => flash[KeysOf[g][2]] = w
BY DEF StoreOK, FormOK

\* A key is stored: only its own group is touched.
LEMMA WriteStep ==
    ASSUME StoreOK, Write
    PROVE  StoreOK'
<1>1. PICK g \in Groups, n \in 0 .. 2 :
         \E v \in Values[KeysOf[g][1]], w \in Values[KeysOf[g][2]] :
            /\ form = [group |-> g, value |-> <<v, w>>, done |-> n]
            /\ n >= 1 => flash[KeysOf[g][1]] = v
            /\ n = 2 => flash[KeysOf[g][2]] = w
  BY FormParts DEF Write
<1>2. PICK v \in Values[KeysOf[g][1]], w \in Values[KeysOf[g][2]] :
            /\ form = [group |-> g, value |-> <<v, w>>, done |-> n]
            /\ n >= 1 => flash[KeysOf[g][1]] = v
            /\ n = 2 => flash[KeysOf[g][2]] = w
  BY <1>1
<1>3. /\ n \in {0, 1} /\ UNCHANGED <<phase, inUse, torn, made>>
      /\ flash' = [flash EXCEPT ![KeysOf[g][n + 1]] = <<v, w>>[n + 1]]
      /\ form' = [group |-> g, value |-> <<v, w>>, done |-> n + 1]
  BY <1>2 DEF Write
<1>4. /\ DOMAIN flash' = Keys
      /\ n = 0 => flash'[KeysOf[g][1]] = v
      /\ n = 1 => flash'[KeysOf[g][2]] = w /\ flash'[KeysOf[g][1]] = v
      /\ \A h \in Groups \ {g}, i \in {1, 2} : flash'[KeysOf[h][i]] = flash[KeysOf[h][i]]
  BY <1>2, <1>3, KeysApart DEF StoreOK
<1>5. FormOK'
  <2>1. CASE n = 0
    BY <1>3, <1>4, <2>1 DEF FormOK
  <2>2. CASE n = 1
    <3>1. PICK m \in 0 .. 2 : m = n + 1
      BY <2>2
    <3>2. /\ form' = [group |-> g, value |-> <<v, w>>, done |-> m]
          /\ flash'[KeysOf[g][1]] = v /\ flash'[KeysOf[g][2]] = w
      BY <1>3, <1>4, <2>2, <3>1
    <3> QED BY <3>2 DEF FormOK
  <2> QED BY <1>3, <2>1, <2>2
<1>6. \A h \in Groups \ {g} : Same(Load(flash'), Load(flash), h)
  BY <1>4, KeysApart DEF Same, Load
<1>7. \A h \in Groups \ torn : h # g => Same(Load(flash'), made, h)
  BY <1>2, <1>6 DEF StoreOK, Same
<1>8. form'.group = g /\ form'.done > 0
  BY <1>3
<1>9. \A h \in Groups \ torn' :
         ~(form'.group = h /\ form'.done > 0) => Same(Load(flash'), made', h)
  BY <1>3, <1>7, <1>8
<1>10. phase' # "off" => \A h \in Groups \ torn' : Same(inUse', made', h)
  BY <1>3 DEF StoreOK
<1> QED BY <1>3, <1>4, <1>5, <1>9, <1>10 DEF StoreOK

\* A form that ends half stored, by an error or a cut, leaves its group torn.
LEMMA HalfStored ==
    ASSUME StoreOK,
           torn' = IF form.done > 0 THEN torn \cup {form.group} ELSE torn,
           form' = NoForm, UNCHANGED <<flash, inUse, made>>, phase' \in {phase, "off"}
    PROVE  StoreOK'
<1>1. FormOK'
  BY DEF FormOK
<1>2. \A h \in Groups \ torn' : h \in Groups \ torn /\ Same(Load(flash), made, h)
  BY DEF StoreOK
<1> QED BY <1>1, <1>2 DEF StoreOK, Same

\* All is stored: flash, cache and the history agree on the group.
LEMMA StoredStep ==
    ASSUME StoreOK, Stored, phase # "off"
    PROVE  StoreOK'
<1>1. PICK g \in Groups, n \in 0 .. 2 :
         \E v \in Values[KeysOf[g][1]], w \in Values[KeysOf[g][2]] :
            /\ form = [group |-> g, value |-> <<v, w>>, done |-> n]
            /\ n >= 1 => flash[KeysOf[g][1]] = v
            /\ n = 2 => flash[KeysOf[g][2]] = w
  BY FormParts DEF Stored
<1>2. PICK v \in Values[KeysOf[g][1]], w \in Values[KeysOf[g][2]] :
            /\ form = [group |-> g, value |-> <<v, w>>, done |-> n]
            /\ n >= 1 => flash[KeysOf[g][1]] = v
            /\ n = 2 => flash[KeysOf[g][2]] = w
  BY <1>1
<1>3. /\ form.group = g /\ flash[KeysOf[g][1]] = v /\ flash[KeysOf[g][2]] = w
      /\ made' = With(made, g, <<v, w>>) /\ inUse' = With(inUse, g, <<v, w>>)
      /\ torn' = torn \ {g} /\ form' = NoForm /\ flash' = flash
  BY <1>2 DEF Stored
<1>4. /\ DOMAIN made' = Keys /\ DOMAIN inUse' = Keys
      /\ \A k \in Keys : inUse'[k] \in Values[k] /\ made'[k] \in Values[k]
  BY <1>3, WithKeys DEF StoreOK
<1>5. Same(Load(flash), made', g) /\ Same(inUse', made', g)
  <2>1. KeysOf[g][1] \in Keys /\ KeysOf[g][2] \in Keys
    BY KeysApart
  <2>2. Load(flash)[KeysOf[g][1]] = v /\ Load(flash)[KeysOf[g][2]] = w
    BY <1>3, <2>1, LoadRange
  <2>3. /\ made'[KeysOf[g][1]] = v /\ made'[KeysOf[g][2]] = w
        /\ inUse'[KeysOf[g][1]] = v /\ inUse'[KeysOf[g][2]] = w
    BY <1>3, WithKeys DEF StoreOK
  <2> QED BY <2>2, <2>3 DEF Same
<1>6. \A h \in Groups \ {g} : Same(made', made, h) /\ Same(inUse', inUse, h)
  <2>1. ASSUME NEW h \in Groups \ {g}, NEW i \in {1, 2}
        PROVE  /\ made'[KeysOf[h][i]] = made[KeysOf[h][i]]
               /\ inUse'[KeysOf[h][i]] = inUse[KeysOf[h][i]]
    <3>1. KeysOf[h][i] \in Keys /\ KeysOf[h][i] \notin {KeysOf[g][1], KeysOf[g][2]}
      BY KeysApart
    <3> QED BY <1>3, <3>1, WithKeys DEF StoreOK
  <2> QED BY <2>1 DEF Same
<1>7. \A h \in Groups \ torn : h # g =>
         Same(Load(flash), made, h) /\ Same(inUse, made, h)
  BY <1>3 DEF StoreOK
<1>8. \A h \in Groups \ torn' : Same(Load(flash), made', h) /\ Same(inUse', made', h)
  BY <1>3, <1>5, <1>6, <1>7 DEF Same
<1>9. FormOK'
  BY <1>3 DEF FormOK
<1> QED BY <1>3, <1>4, <1>8, <1>9 DEF StoreOK

\* Every form brings legal values for the two keys of its group.
LEMMA FormsSubmit ==
    ASSUME WifiForm \/ ServiceForm \/ RuntimeForm \/ TimingForm \/ PolicyForm
    PROVE  \E g \in Groups :
              \E v \in Values[KeysOf[g][1]], w \in Values[KeysOf[g][2]] : Submit(g, <<v, w>>)
<1>1. /\ {"wifi", "service", "runtime", "timing", "policy"} = Groups
      /\ KeysOf["wifi"][1] = "ssid" /\ KeysOf["wifi"][2] = "pass"
      /\ KeysOf["service"][1] = "mqtt" /\ KeysOf["service"][2] = "uri"
  BY DeviceAssumption DEF Groups
<1>2. CASE WifiForm
  <2>1. \E v \in Values[KeysOf["wifi"][1]], w \in Values[KeysOf["wifi"][2]] :
           Submit("wifi", <<v, w>>)
    BY <1>1, <1>2 DEF WifiForm
  <2> QED BY <1>1, <2>1
<1>3. CASE ServiceForm
  <2>1. \E v \in Values[KeysOf["service"][1]], w \in Values[KeysOf["service"][2]] :
           Submit("service", <<v, w>>)
    BY <1>1, <1>3 DEF ServiceForm
  <2> QED BY <1>1, <2>1
<1>4. ASSUME NEW g \in Groups, WholeForm(g)
      PROVE  \E v \in Values[KeysOf[g][1]], w \in Values[KeysOf[g][2]] : Submit(g, <<v, w>>)
  BY <1>4 DEF WholeForm
<1> QED BY <1>1, <1>2, <1>3, <1>4 DEF RuntimeForm, TimingForm, PolicyForm

\* The forms, their ends, the start and a restart; all else leaves the settings alone.
LEMMA StoreStep ==
    ASSUME StoreOK, SlotsOK, DeviceNext \/ UNCHANGED deviceVars
    PROVE  StoreOK'
<1>1. CASE Boot
  <2>1. UNCHANGED <<flash, form, torn, made>> /\ inUse' = Load(flash) /\ form = NoForm
    BY <1>1 DEF Boot, SlotsOK
  <2>2. \A g \in Groups \ torn : Same(Load(flash), made, g)
    BY <2>1 DEF StoreOK, NoForm
  <2>3. FormOK'
    BY <2>1 DEF FormOK
  <2>4. DOMAIN inUse' = Keys /\ \A k \in Keys : inUse'[k] \in Values[k]
    BY <2>1, LoadRange
  <2> QED BY <2>1, <2>2, <2>3, <2>4 DEF StoreOK
<1>2. CASE WifiForm \/ ServiceForm \/ RuntimeForm \/ TimingForm \/ PolicyForm
  BY <1>2, FormsSubmit, SubmitStep
<1>3. CASE Write
  BY <1>3, WriteStep
<1>4. CASE WriteFails
  BY <1>4, HalfStored DEF WriteFails
<1>5. CASE Stored
  <2>1. phase # "off"
    BY <1>5 DEF Stored, SlotsOK
  <2> QED BY <1>5, <2>1, StoredStep
<1>6. CASE Restarts
  BY <1>6, HalfStored DEF Restarts, PowerCut, RestartByItself, UploadRestarts, Restart
<1>7. CASE \/ UploadBegins \/ UploadFails \/ UploadChecked \/ UploadBoots
           \/ Mqtt \/ UNCHANGED deviceVars
  <2>1. UNCHANGED <<phase, storeVars>>
    BY <1>7 DEF UploadBegins, UploadFails, UploadChecked, UploadBoots, Mqtt, Announce,
           Look, FlushBegins, Published, NotPublished, ClientConnects,
           ClientDisconnects, deviceVars
  <2>2. FormOK'
    BY <2>1 DEF storeVars, StoreOK, FormOK
  <2> QED BY <2>1, <2>2 DEF storeVars, StoreOK, Same
<1> QED BY <1>1, <1>2, <1>3, <1>4, <1>5, <1>6, <1>7 DEF DeviceNext, Server

\* A step of the system is one of the device or leaves it alone.
LEMMA DeviceSteps ==
    ASSUME [SystemNext]_systemVars
    PROVE  DeviceNext \/ UNCHANGED deviceVars
BY DEF SystemNext, SystemBoot, SystemRestart, SystemServer, SystemMqtt, SystemFeed,
       SystemAlerts, systemVars, DeviceNext

DeviceInv == SlotsOK /\ WordOK /\ StoreOK

\* The device's invariant holds in every reachable state of the system.
LEMMA DeviceInvariance == SystemSpec => []DeviceInv
<1>1. SystemInit => DeviceInv
  <2> SUFFICES ASSUME DeviceInit PROVE DeviceInv
    BY DEF SystemInit
  <2>1. SlotsOK
    BY DEF DeviceInit, SlotsOK, Slots
  <2>2. WordOK
    BY DEF DeviceInit, WordOK, Idle
  <2>3. DOMAIN flash = Keys /\ form = NoForm /\ inUse = Load(flash) /\ made = Load(flash)
        /\ phase = "off"
    BY DEF DeviceInit
  <2>4. StoreOK
    BY <2>3, LoadRange DEF StoreOK, FormOK, Same
  <2> QED BY <2>1, <2>2, <2>4 DEF DeviceInv
<1>2. DeviceInv /\ [SystemNext]_systemVars => DeviceInv'
  BY DeviceSteps, SlotsStep, WordStep, StoreStep DEF DeviceInv
<1> QED BY <1>1, <1>2, PTL DEF SystemSpec

\* A running device uses, and would load again, what the last whole form of each group
\* said, whatever failures and cuts lie between; only a torn group is excepted.
THEOREM SettingsStayWhole == SystemSpec => []SettingsWhole
<1>1. DeviceInv => SettingsWhole
  BY DEF DeviceInv, StoreOK, SettingsWhole, NoForm, Same, OfGroup
<1> QED BY <1>1, DeviceInvariance, PTL

\* The bootloader finds a whole image, wherever an upload or the power stops.
THEOREM DeviceBootsWhole == SystemSpec => []BootsWhole
<1>1. DeviceInv => BootsWhole
  BY DEF DeviceInv, SlotsOK, BootsWhole
<1> QED BY <1>1, DeviceInvariance, PTL

\* The word that the application is ready falls into no gap between the two tasks.
THEOREM WordNotForgotten == SystemSpec => []ReadyNotForgotten
<1>1. DeviceInv => ReadyNotForgotten
  BY DEF DeviceInv, WordOK, ReadyNotForgotten, Idle
<1> QED BY <1>1, DeviceInvariance, PTL
=============================================================================
