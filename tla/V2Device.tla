------------------------------ MODULE V2Device ------------------------------
(***************************************************************************)
(* What firmware V2 keeps over a restart, and how it starts.  The settings *)
(* are stored key by key: a form of the portal or of the page writes its   *)
(* keys one after the other and takes the values into use when all of them *)
(* are stored; the power may fail between two of them, and so may a write. *)
(* A firmware upload writes the slot that is not running.  One server task *)
(* handles the forms and the upload, one request after the other.          *)
(*                                                                         *)
(* The start also leaves a word for the MQTT broker, which the main task   *)
(* and the task of the MQTT client both try to send: neither locks.        *)
(*                                                                         *)
(* Each group of settings has two keys here, the first and the last of its *)
(* keys in flash: what tears a group falls between them.                   *)
(***************************************************************************)
EXTENDS Naturals, Sequences

CONSTANTS
    KeysOf,     \* per group, its keys in the order they are written
    Values,     \* per key, the values within its range
    Default,    \* per key, the value of Kconfig; for ssid, pass and uri ""
    Outside     \* a stored value out of range, left by a firmware with other ranges

Groups == {"wifi", "service", "runtime", "timing", "policy"}
Keys == {KeysOf[g][i] : g \in Groups, i \in {1, 2}}
Ranged == {k \in Keys : \E g \in {"runtime", "timing"}, i \in {1, 2} : k = KeysOf[g][i]}
Absent == "absent"

ASSUME DeviceAssumption ==
    /\ DOMAIN KeysOf = Groups
    /\ \A g \in Groups : KeysOf[g] \in Seq(Keys) /\ Len(KeysOf[g]) = 2
    /\ \A g, h \in Groups : \A i, j \in {1, 2} : KeysOf[g][i] = KeysOf[h][j] => g = h /\ i = j
    /\ DOMAIN Values = Keys
    /\ \A k \in Keys : Default[k] \in Values[k] /\ {Absent, Outside} \cap Values[k] = {}
    /\ KeysOf["wifi"] = <<"ssid", "pass">> /\ KeysOf["service"] = <<"mqtt", "uri">>

VARIABLES
    phase,      \* "off", "portal", "saved", "abort", "run"
    flash,      \* NVS: per key a value or Absent
    inUse,      \* the caches of config_store and the RuntimeConfig of app_core
    form,       \* what the server task is storing: [group, value, done]
    torn,       \* history: the groups whose keys in flash are not of one form
    made,       \* history: per key the value of the last form that was stored whole
    image,      \* per slot "whole" or "torn"
    boot,       \* the slot the bootloader takes
    slot,       \* the running slot
    upload,     \* where handle_firmware_upload is
    client,     \* mqtt_bridge has a client
    connected, pending,     \* s_connected, s_pending_ready
    at,         \* the main task and the task of the MQTT client
    failed      \* history: a publication has failed since the client connected

storeVars == <<flash, inUse, form, torn, made>>
otaVars == <<image, boot, slot, upload>>
mqttVars == <<client, connected, pending, at, failed>>
deviceVars == <<phase, storeVars, otaVars, mqttVars>>

NoForm == [group |-> "none", value |-> <<>>, done |-> 0]
Slots == {"ota_0", "ota_1"}
Idle == [main |-> "loop", mqtt |-> "idle"]

\* load_or_defaults
Load(f) == [k \in Keys |-> IF f[k] \in Values[k] THEN f[k] ELSE Default[k]]

DeviceInit ==
    /\ phase = "off"
    /\ \E old \in SUBSET Ranged :
          flash = [k \in Keys |-> IF k \in old THEN Outside ELSE Absent]
    /\ inUse = Load(flash) /\ made = Load(flash)
    /\ form = NoForm /\ torn = {}
    /\ image = [s \in Slots |-> IF s = "ota_0" THEN "whole" ELSE "torn"]
    /\ boot = "ota_0" /\ slot = "ota_0" /\ upload = "none"
    /\ client = FALSE /\ connected = FALSE /\ pending = FALSE
    /\ at = Idle /\ failed = FALSE

-----------------------------------------------------------------------------
(* The start. *)

\* esp_mqtt_client_init takes the address apart.
Accepted(uri) == uri # "odd"

WantsClient(s) == s["mqtt"] = "on" /\ s["uri"] # ""

\* lifecycle_startup: onboarding if no network is known, then the services.  One that
\* fails ends in abort(), before the page is there.
Boot ==
    /\ phase = "off"
    /\ inUse' = Load(flash)
    /\ slot' = boot
    /\ \/ /\ inUse'["ssid"] = ""
          /\ phase' = "portal"
          /\ UNCHANGED <<client, at>>
       \/ /\ inUse'["ssid"] # ""
          /\ WantsClient(inUse') => Accepted(inUse'["uri"])
          /\ phase' = "run"
          /\ client' = WantsClient(inUse')
          /\ at' = [Idle EXCEPT !.main = "announce"]
       \/ /\ inUse'["ssid"] # ""
          /\ WantsClient(inUse') /\ ~Accepted(inUse'["uri"])
          /\ phase' = "abort"
          /\ UNCHANGED <<client, at>>
    /\ UNCHANGED <<flash, form, torn, made, image, boot, upload, connected, pending, failed>>

\* Everything that is only in memory is gone.  A form whose first key is stored is torn.
Restart ==
    /\ phase' = "off"
    /\ torn' = IF form.done > 0 THEN torn \cup {form.group} ELSE torn
    /\ form' = NoForm
    /\ upload' = "none"
    /\ client' = FALSE /\ connected' = FALSE /\ pending' = FALSE
    /\ at' = Idle /\ failed' = FALSE
    /\ UNCHANGED <<flash, inUse, made, image, boot, slot>>

PowerCut == phase # "off" /\ Restart

\* abort() in app_main, or esp_restart() at the end of the onboarding.
RestartByItself == phase \in {"abort", "saved"} /\ Restart

-----------------------------------------------------------------------------
(* The forms.  A request that is refused changes nothing. *)

ServerFree == form = NoForm /\ upload = "none"

Submit(g, value) ==
    /\ ServerFree
    /\ form' = [group |-> g, value |-> value, done |-> 0]
    /\ UNCHANGED <<phase, flash, inUse, torn, made, otaVars, mqttVars>>

\* uri_post_save of the portal: a name for the network is required.
WifiForm ==
    /\ phase = "portal"
    /\ \E s \in Values["ssid"] \ {""}, p \in Values["pass"] : Submit("wifi", <<s, p>>)

\* handle_services_post: a field that is left out keeps the value in use;
\* persist_service_connectivity wants an address when MQTT is on, any address.
ServiceForm ==
    /\ phase = "run"
    /\ \E m \in Values["mqtt"], u \in Values["uri"] :
          /\ m = "on" => u # ""
          /\ Submit("service", <<m, u>>)

\* The other forms bring all keys of their group, and the persist_.. functions look at
\* the range of each number.
WholeForm(g) ==
    /\ phase = "run"
    /\ \E v \in Values[KeysOf[g][1]], w \in Values[KeysOf[g][2]] : Submit(g, <<v, w>>)

RuntimeForm == WholeForm("runtime")     \* handle_alert_runtime_post
TimingForm == WholeForm("timing")       \* handle_alert_policy_timing_post
PolicyForm == WholeForm("policy")       \* handle_alert_confluence_policy_post

\* The next key is stored, at once and for good.
Write ==
    /\ form # NoForm /\ form.done < 2
    /\ flash' = [flash EXCEPT ![KeysOf[form.group][form.done + 1]] = form.value[form.done + 1]]
    /\ form' = [form EXCEPT !.done = @ + 1]
    /\ UNCHANGED <<phase, inUse, torn, made, otaVars, mqttVars>>

\* nvs_set_.. or nvs_commit fails: the answer is an error and the values in use stay.
WriteFails ==
    /\ form # NoForm
    /\ torn' = IF form.done > 0 THEN torn \cup {form.group} ELSE torn
    /\ form' = NoForm
    /\ UNCHANGED <<phase, flash, inUse, made, otaVars, mqttVars>>

With(settings, g, value) ==
    [k \in Keys |-> IF k = KeysOf[g][1] THEN value[1]
                    ELSE IF k = KeysOf[g][2] THEN value[2] ELSE settings[k]]

\* Faulty: the values are stored and not taken into use.
StoredUnused ==
    /\ form # NoForm /\ form.done = 2
    /\ made' = With(made, form.group, form.value)
    /\ torn' = torn \ {form.group}
    /\ phase' = IF form.group = "wifi" THEN "saved" ELSE phase
    /\ form' = NoForm
    /\ UNCHANGED <<inUse, flash, otaVars, mqttVars>>

\* All is stored: the cache takes the values; the portal ends.
Stored ==
    /\ form # NoForm /\ form.done = 2
    /\ made' = With(made, form.group, form.value)
    /\ inUse' = With(inUse, form.group, form.value)
    /\ torn' = torn \ {form.group}
    /\ phase' = IF form.group = "wifi" THEN "saved" ELSE phase
    /\ form' = NoForm
    /\ UNCHANGED <<flash, otaVars, mqttVars>>

-----------------------------------------------------------------------------
(* handle_firmware_upload *)

OtherThan(s) == CHOOSE o \in Slots : o # s

\* esp_ota_begin erases the slot that is not running; the chunks follow.
UploadBegins ==
    /\ phase = "run" /\ ServerFree
    /\ upload' = "receiving"
    /\ image' = [image EXCEPT ![OtherThan(slot)] = "torn"]
    /\ UNCHANGED <<phase, storeVars, boot, slot, mqttVars>>

\* Chunks that do not come, a write that fails, an image that is none, a boot slot that
\* cannot be set.
UploadFails ==
    /\ upload \in {"receiving", "checked"}
    /\ upload' = "none"
    /\ UNCHANGED <<phase, storeVars, image, boot, slot, mqttVars>>

\* Faulty: the slot is chosen before the image is checked.
UploadChosen ==
    /\ upload = "receiving"
    /\ upload' = "checked"
    /\ boot' = OtherThan(slot)
    /\ UNCHANGED <<phase, storeVars, image, slot, mqttVars>>

\* esp_ota_end
UploadChecked ==
    /\ upload = "receiving"
    /\ upload' = "checked"
    /\ image' = [image EXCEPT ![OtherThan(slot)] = "whole"]
    /\ UNCHANGED <<phase, storeVars, boot, slot, mqttVars>>

\* esp_ota_set_boot_partition, the answer and the restart.
UploadBoots ==
    /\ upload = "checked"
    /\ upload' = "restart"
    /\ boot' = OtherThan(slot)
    /\ UNCHANGED <<phase, storeVars, image, slot, mqttVars>>

UploadRestarts == upload = "restart" /\ Restart

-----------------------------------------------------------------------------
(* mqtt_bridge: the word that the application is ready. *)

Goes(task, where) == at' = [at EXCEPT ![task] = where]

\* Faulty: the word is left for the next connection.
AnnounceOnly ==
    /\ phase = "run" /\ at["main"] = "announce"
    /\ pending' = (client /\ WantsClient(inUse))
    /\ Goes("main", "loop")
    /\ UNCHANGED <<phase, storeVars, otaVars, client, connected, failed>>

\* request_application_ready_publish, called by the first poll().
Announce ==
    /\ phase = "run" /\ at["main"] = "announce"
    /\ \/ client /\ WantsClient(inUse) /\ pending' = TRUE /\ Goes("main", "look")
       \/ ~(client /\ WantsClient(inUse)) /\ Goes("main", "loop") /\ UNCHANGED pending
    /\ UNCHANGED <<phase, storeVars, otaVars, client, connected, failed>>

Resting(task) == IF task = "main" THEN "loop" ELSE "idle"

Look ==
    /\ at["main"] = "look"
    /\ Goes("main", IF connected THEN "flush" ELSE "loop")
    /\ UNCHANGED <<phase, storeVars, otaVars, client, connected, pending, failed>>

\* try_flush_pending: the two flags are read, the word goes out, the flag is cleared.
FlushBegins(task) ==
    /\ at[task] = "flush"
    /\ Goes(task, IF pending /\ connected THEN "publish" ELSE Resting(task))
    /\ UNCHANGED <<phase, storeVars, otaVars, client, connected, pending, failed>>

Published(task) ==
    /\ at[task] = "publish"
    /\ pending' = FALSE
    /\ Goes(task, Resting(task))
    /\ UNCHANGED <<phase, storeVars, otaVars, client, connected, failed>>

\* Also when the connection is gone by now.
NotPublished(task) ==
    /\ at[task] = "publish"
    /\ failed' = TRUE
    /\ Goes(task, Resting(task))
    /\ UNCHANGED <<phase, storeVars, otaVars, client, connected, pending>>

\* mqtt_event_handler
ClientConnects ==
    /\ phase = "run" /\ client /\ ~connected /\ at["mqtt"] = "idle"
    /\ connected' = TRUE /\ failed' = FALSE
    /\ Goes("mqtt", "flush")
    /\ UNCHANGED <<phase, storeVars, otaVars, client, pending>>

ClientDisconnects ==
    /\ connected /\ at["mqtt"] = "idle"
    /\ connected' = FALSE
    /\ UNCHANGED <<phase, storeVars, otaVars, client, pending, at, failed>>

-----------------------------------------------------------------------------
Server ==
    \/ WifiForm \/ ServiceForm \/ RuntimeForm \/ TimingForm \/ PolicyForm
    \/ Write \/ WriteFails \/ Stored
    \/ UploadBegins \/ UploadFails \/ UploadChecked \/ UploadBoots

Mqtt ==
    \/ Announce \/ Look \/ ClientConnects \/ ClientDisconnects
    \/ \E t \in {"main", "mqtt"} : FlushBegins(t) \/ Published(t) \/ NotPublished(t)

Restarts == PowerCut \/ RestartByItself \/ UploadRestarts

DeviceNext == Boot \/ Server \/ Mqtt \/ Restarts

DeviceSpec == DeviceInit /\ [][DeviceNext]_deviceVars

-----------------------------------------------------------------------------
DeviceTypeOK ==
    /\ phase \in {"off", "portal", "saved", "abort", "run"}
    /\ \A k \in Keys : /\ flash[k] \in Values[k] \cup {Absent, Outside}
                       /\ inUse[k] \in Values[k] /\ made[k] \in Values[k]
    /\ form = NoForm \/ (form.group \in Groups /\ form.done \in 0 .. 2)
    /\ torn \subseteq Groups
    /\ image \in [Slots -> {"whole", "torn"}] /\ {boot, slot} \subseteq Slots
    /\ upload \in {"none", "receiving", "checked", "restart"}
    /\ {client, connected, pending, failed} \subseteq BOOLEAN
    /\ at["main"] \in {"announce", "look", "flush", "publish", "loop"}
    /\ at["mqtt"] \in {"idle", "flush", "publish"}

OfGroup(settings, g) == [i \in {1, 2} |-> settings[KeysOf[g][i]]]

\* Between requests a running device uses, for every group, exactly what its last whole
\* form said or, without one, what it started with, within range, and a restart would load
\* the same, however forms, failures, cuts and restarts followed each other; only a group
\* that a failure or a cut left half stored is excepted, until it is stored again.
SettingsWhole ==
    phase = "run" /\ form = NoForm =>
        /\ \A k \in Keys : inUse[k] \in Values[k]
        /\ \A g \in Groups \ torn :
              /\ OfGroup(inUse, g) = OfGroup(made, g)
              /\ OfGroup(Load(flash), g) = OfGroup(made, g)

\* The slot the bootloader takes holds a whole image, wherever the power fails during an
\* upload, one that failed, or the next one.
BootsWhole == image[boot] = "whole"

\* The word that the application is ready is not forgotten between the main task, which
\* leaves it and looks for a connection, and the client's task, which connects and looks
\* for a word: when both are at rest with a connection, it has gone out or was refused.
ReadyNotForgotten ==
    pending /\ connected /\ at = Idle => failed

\* The broker is "not leading in the boot path": the device starts whatever the settings
\* for MQTT are.
StartsAgain == phase # "abort"
=============================================================================
