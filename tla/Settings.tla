------------------------------- MODULE Settings -------------------------------
(***************************************************************************)
(* The settings: global variables that webTask and the MQTT callback in    *)
(* loop() write, and that saveSettings() copies and stores in flash, key   *)
(* by key.  webTask, loop() and apiTask all save, through the one          *)
(* Preferences object of SettingsStore, without a lock.  A reset or a      *)
(* power loss may come at any moment; each put is committed on its own.    *)
(*                                                                         *)
(* A setting is a number between 1 and NKeys, in the order in which they   *)
(* are copied, stored and loaded.  A setting whose key is longer than the  *)
(* 15 characters NVS takes is never stored: its put fails, which nobody    *)
(* looks at, and its get returns the default.  The store that fails for    *)
(* lack of space, the clamping of loaded values (values are set within the *)
(* same limits) and the migration of topics of older builds are left out.  *)
(***************************************************************************)
EXTENDS Naturals

CONSTANTS
    NKeys,       \* the number of settings
    Vals,        \* the values of a setting
    Default,     \* the value of each setting when nothing is stored
    AnchorKeys,  \* the settings of which AnchorSystem has its own copy
    TooLong      \* the settings whose key is too long for NVS: chartColorManual

Keys == 1 .. NKeys
Topic == 1       \* ntfyTopic

ASSUME SettingsAssumption ==
    /\ NKeys \in Nat \ {0}
    /\ Default \in [Keys -> Vals]
    /\ AnchorKeys \subseteq Keys
    /\ TooLong \subseteq Keys \ {Topic}

VARIABLES
    ram,        \* the globals
    nvs,        \* what a load finds: flash, and the default of what it cannot hold
    applied,    \* the copies in AnchorSystem
    phase,      \* setup(): before anchorSystem.begin(), before loadSettings(), after
    handle,     \* Preferences: not started, or started and how
    pc,         \* where each task is
    at,         \* the setting it comes to next
    snap,       \* its CryptoMonitorSettings
    disturbed,  \* history: did another task save during this save?
    clean       \* history: was the last save to end undisturbed?

store == <<ram, nvs, applied, phase>>
locals == <<pc, at, snap>>
history == <<disturbed, clean>>
vars == <<store, handle, locals, history>>

Tasks == {"web", "loop", "api"}

Saving == {"copy", "loadBegin", "get", "loadEnd", "resetBegin", "resetPut", "resetEnd",
           "begin", "put", "end"}

Settled == [t \in Tasks |-> "idle"]

Init ==
    /\ ram = Default
    /\ nvs \in {n \in [Keys -> Vals] : \A k \in TooLong : n[k] = Default[k]}
    /\ applied = Default
    /\ phase = "anchor"
    /\ handle = "closed"
    /\ pc = Settled
    /\ at = [t \in Tasks |-> 1]
    /\ snap = [t \in Tasks |-> Default]
    /\ disturbed = [t \in Tasks |-> FALSE]
    /\ clean = TRUE

-----------------------------------------------------------------------------
(* setup(), before the tasks exist *)

\* anchorSystem.begin() copies the globals ...
BootAnchor ==
    /\ phase = "anchor"
    /\ applied' = ram
    /\ phase' = "load"
    /\ UNCHANGED <<ram, nvs, handle, locals, history>>

\* ... and then loadSettings() fills them.
BootLoad ==
    /\ phase = "load"
    /\ ram' = nvs
    /\ phase' = "run"
    /\ UNCHANGED <<nvs, applied, handle, locals, history>>

-----------------------------------------------------------------------------
(* The tasks: what they change, and when they save *)

Goes(t, to, k) ==
    /\ pc' = [pc EXCEPT ![t] = to]
    /\ at' = [at EXCEPT ![t] = k]

\* A save begins: who else is saving, and who is disturbed by that?
StartsSaving(t, to) ==
    LET others == {u \in Tasks \ {t} : pc[u] \in Saving}
    IN  /\ Goes(t, to, 1)
        /\ disturbed' = [u \in Tasks |->
              IF u = t THEN others # {} ELSE disturbed[u] \/ u \in others]

Edit(t, k, v) ==
    /\ phase = "run"
    /\ pc[t] = "idle" \/ (pc[t] = "edit" /\ k >= at[t])
    /\ ram' = [ram EXCEPT ![k] = v]
    /\ Goes(t, "edit", k + 1)
    /\ UNCHANGED <<nvs, applied, phase, handle, snap, history>>

\* handleSave: any of the values of the form, one after the other ...
WebSet(k, v) == Edit("web", k, v)

\* ... and mqttCallback: one value, or the strategy and two that follow from it ...
MqttSet(k, v) == Edit("loop", k, v)

\* ... and then calls saveSettings.
EditDone(t) ==
    /\ pc[t] = "edit"
    /\ StartsSaving(t, "copy")
    /\ UNCHANGED <<store, handle, snap, clean>>

\* apiTask saves after it has set an anchor.
ApiSave ==
    /\ phase = "run"
    /\ pc["api"] = "idle"
    /\ StartsSaving("api", "copy")
    /\ UNCHANGED <<store, handle, snap, clean>>

\* handleNtfyReset: the default topic, into the globals and, by way of a load and
\* a save of everything, into flash.
ResetTopic ==
    /\ phase = "run"
    /\ pc["web"] = "idle"
    /\ ram' = [ram EXCEPT ![Topic] = Default[Topic]]
    /\ StartsSaving("web", "loadBegin")
    /\ UNCHANGED <<nvs, applied, phase, handle, snap, clean>>

-----------------------------------------------------------------------------
(* Preferences: begin() does nothing when it is started, put does nothing when  *)
(* it is not or is read-only or the key is too long, get returns the default    *)
(* when it is not.                                                              *)

Begun(how) == IF handle = "closed" THEN how ELSE handle

Put(k, v) == IF handle = "rw" /\ k \notin TooLong THEN [nvs EXCEPT ![k] = v] ELSE nvs

Got(k) == IF handle = "closed" THEN Default[k] ELSE nvs[k]

-----------------------------------------------------------------------------
(* saveSettings *)

\* One step per setting, from `from' to itself and, after the last one, to `to'.
Steps(t, from, to) ==
    /\ pc[t] = from
    /\ IF at[t] < NKeys THEN Goes(t, from, at[t] + 1) ELSE Goes(t, to, 1)

Copy(t) ==
    /\ Steps(t, "copy", "begin")
    /\ snap' = [snap EXCEPT ![t][at[t]] = ram[at[t]]]
    /\ UNCHANGED <<store, handle, history>>

\* SettingsStore::save, by saveSettings or by handleNtfyReset
SaveBegin(t) ==
    /\ \/ pc[t] = "begin" /\ Goes(t, "put", 1)
       \/ pc[t] = "resetBegin" /\ Goes(t, "resetPut", 1)
    /\ handle' = Begun("rw")
    /\ UNCHANGED <<store, snap, history>>

SavePut(t) ==
    /\ Steps(t, "put", "end") \/ Steps(t, "resetPut", "resetEnd")
    /\ nvs' = Put(at[t], snap[t][at[t]])
    /\ UNCHANGED <<ram, applied, phase, handle, snap, history>>

\* Faulty: the Preferences object is not given back.
SaveEndOpen(t) ==
    /\ pc[t] = "end"
    /\ Goes(t, "idle", 1)
    /\ snap' = [snap EXCEPT ![t] = Default]
    /\ disturbed' = [disturbed EXCEPT ![t] = FALSE]
    /\ clean' = ~disturbed[t]
    /\ UNCHANGED <<store, handle>>

SaveEnd(t) ==
    /\ pc[t] = "end"
    /\ handle' = "closed"
    /\ Goes(t, "idle", 1)
    /\ snap' = [snap EXCEPT ![t] = Default]
    /\ disturbed' = [disturbed EXCEPT ![t] = FALSE]
    /\ clean' = ~disturbed[t]
    /\ UNCHANGED store

\* Language, rotation and strategy are saved twice by the MQTT callback.
SaveAgain ==
    /\ pc["loop"] = "end"
    /\ handle' = "closed"
    /\ StartsSaving("loop", "copy")
    /\ clean' = ~disturbed["loop"]
    /\ UNCHANGED <<store, snap>>

-----------------------------------------------------------------------------
(* SettingsStore::load, by handleNtfyReset *)

LoadBegin(t) ==
    /\ pc[t] = "loadBegin"
    /\ handle' = Begun("ro")
    /\ Goes(t, "get", 1)
    /\ UNCHANGED <<store, snap, history>>

LoadGet(t) ==
    /\ Steps(t, "get", "loadEnd")
    /\ snap' = [snap EXCEPT ![t][at[t]] = Got(at[t])]
    /\ UNCHANGED <<store, handle, history>>

\* Faulty: the new topic is forgotten.
LoadEndOldTopic(t) ==
    /\ pc[t] = "loadEnd"
    /\ handle' = "closed"
    /\ Goes(t, "resetBegin", 1)
    /\ UNCHANGED <<store, snap, history>>

LoadEnd(t) ==
    /\ pc[t] = "loadEnd"
    /\ handle' = "closed"
    /\ snap' = [snap EXCEPT ![t][Topic] = ram[Topic]]
    /\ Goes(t, "resetBegin", 1)
    /\ UNCHANGED <<store, history>>

\* Everything but the topic was stored before: what an earlier save has spoilt, this
\* one does not repair.
ResetEnd(t) ==
    /\ pc[t] = "resetEnd"
    /\ handle' = "closed"
    /\ Goes(t, "idle", 1)
    /\ snap' = [snap EXCEPT ![t] = Default]
    /\ disturbed' = [disturbed EXCEPT ![t] = FALSE]
    /\ clean' = (clean /\ ~disturbed[t])
    /\ UNCHANGED store

-----------------------------------------------------------------------------
\* A power loss, a watchdog, or the restart after a change of market.
Restart ==
    /\ ram' = Default
    /\ applied' = Default
    /\ phase' = "anchor"
    /\ handle' = "closed"
    /\ pc' = Settled
    /\ at' = [t \in Tasks |-> 1]
    /\ snap' = [t \in Tasks |-> Default]
    /\ disturbed' = [t \in Tasks |-> FALSE]
    /\ clean' = TRUE
    /\ UNCHANGED nvs

TaskStep(t) ==
    \/ EditDone(t)
    \/ Copy(t) \/ SaveBegin(t) \/ SavePut(t) \/ SaveEnd(t)
    \/ LoadBegin(t) \/ LoadGet(t) \/ LoadEnd(t) \/ ResetEnd(t)

Next ==
    \/ BootAnchor
    \/ BootLoad
    \/ \E k \in Keys, v \in Vals : WebSet(k, v) \/ MqttSet(k, v)
    \/ \E t \in Tasks : TaskStep(t)
    \/ ApiSave
    \/ ResetTopic
    \/ SaveAgain
    \/ Restart

Spec == Init /\ [][Next]_vars

-----------------------------------------------------------------------------
(* Properties *)

\* The type invariant.
TypeOK ==
    /\ ram \in [Keys -> Vals]
    /\ nvs \in [Keys -> Vals] /\ \A k \in TooLong : nvs[k] = Default[k]
    /\ applied \in [Keys -> Vals]
    /\ phase \in {"anchor", "load", "run"}
    /\ handle \in {"closed", "ro", "rw"}
    /\ pc \in [Tasks -> Saving \cup {"idle", "edit"}]
    /\ at \in [Tasks -> 1 .. NKeys + 1]
    /\ \A t \in Tasks : pc[t] # "edit" => at[t] \in Keys
    /\ snap \in [Tasks -> [Keys -> Vals]]
    /\ disturbed \in [Tasks -> BOOLEAN]
    /\ clean \in BOOLEAN

\* The Preferences object is open only while some task is between its begin() and
\* its end(), and read-only only while one loads, however sections of three tasks
\* overlap.  A handle left over would turn every later save into nothing.
HandleHasUser ==
    /\ handle # "closed" =>
          \E t \in Tasks : pc[t] \in {"put", "end", "resetPut", "resetEnd", "get", "loadEnd"}
    /\ handle = "ro" => \E t \in Tasks : pc[t] \in {"get", "loadEnd"}

Quiet == phase = "run" /\ pc = Settled

Agree(keys) == \A k \in keys : nvs[k] = ram[k]

\* A save that no other save overlaps stores every setting NVS has a key for as it is,
\* whatever overlapping saves have spoilt before, and edits in the middle of it are
\* stored by the save that follows them: at rest, flash and globals agree.
SavedUnlessDisturbed == Quiet /\ clean => Agree(Keys \ TooLong)

\* The same of every setting.
AllSavedUnlessDisturbed == Quiet /\ clean => Agree(Keys)

\* "All settings are persistently saved; after a power loss, the device starts with
\* your last configuration": at rest, flash and globals agree, on what NVS has a key for.
SavedWhenQuiet == Quiet => Agree(Keys \ TooLong)

\* "Stores everything in NVS and applies immediately": at rest, the anchor alerts
\* work with the settings as they are.
AppliedWhenQuiet == Quiet => \A k \in AnchorKeys : applied[k] = ram[k]
=============================================================================
