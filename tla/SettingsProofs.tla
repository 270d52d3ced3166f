---------------------------- MODULE SettingsProofs ----------------------------
(***************************************************************************)
(* What an undisturbed save achieves, for any number of settings and any   *)
(* values.  The inductive invariant follows a save that no other save      *)
(* overlaps from step to step.                                             *)
(***************************************************************************)
EXTENDS Settings, TLAPS

Alone(t) == pc[t] \in Saving /\ ~disturbed[t]

OthersIdle(t) == \A u \in Tasks \ {t} : pc[u] = "idle"

\* Nothing runs before the settings are loaded.
BootedFirst == phase # "run" => pc = Settled

\* Two saves that overlap both know.
OverlapKnown ==
    \A t, u \in Tasks :
        t # u /\ pc[t] \in Saving /\ pc[u] \in Saving => disturbed[t]

\* A save that is alone has the handle to itself.
OwnHandle ==
    \A t \in Tasks : Alone(t) =>
        /\ pc[t] \in {"put", "end", "resetPut", "resetEnd"} => handle = "rw"
        /\ pc[t] \in {"get", "loadEnd"} => handle # "closed"

\* The settings that a put can store.
Storable == Keys \ TooLong

\* saveSettings: the copy follows the globals while nobody changes them, flash
\* follows the copy.
SaveProgress ==
    \A t \in Tasks : Alone(t) =>
        /\ pc[t] = "copy" /\ OthersIdle(t) =>
              \A k \in Keys : k < at[t] => snap[t][k] = ram[k]
        /\ pc[t] \in {"begin", "put", "end"} /\ OthersIdle(t) =>
              \A k \in Keys : snap[t][k] = ram[k]
        /\ pc[t] = "put" => \A k \in Storable : k < at[t] => nvs[k] = snap[t][k]
        /\ pc[t] = "end" => \A k \in Storable : nvs[k] = snap[t][k]

\* handleNtfyReset: of what can be stored only the topic is ahead of flash; the copy
\* follows flash, and then flash the copy.
ResetProgress ==
    \A t \in Tasks : Alone(t) =>
        /\ pc[t] \in {"loadBegin", "get", "loadEnd", "resetBegin", "resetPut"}
              /\ OthersIdle(t) /\ clean =>
              \A k \in Storable \ {Topic} : nvs[k] = ram[k]
        /\ pc[t] = "get" => \A k \in Keys : k < at[t] => snap[t][k] = nvs[k]
        /\ pc[t] = "loadEnd" => \A k \in Keys : snap[t][k] = nvs[k]
        /\ pc[t] \in {"resetBegin", "resetPut", "resetEnd"} /\ OthersIdle(t) /\ clean =>
              \A k \in Storable : snap[t][k] = ram[k]
        /\ pc[t] = "resetPut" => \A k \in Storable : k < at[t] => nvs[k] = snap[t][k]
        /\ pc[t] = "resetEnd" => \A k \in Storable : nvs[k] = snap[t][k]

IInv ==
    /\ TypeOK
    /\ HandleHasUser
    /\ BootedFirst
    /\ OverlapKnown
    /\ OwnHandle
    /\ SaveProgress
    /\ ResetProgress
    /\ SavedUnlessDisturbed

-----------------------------------------------------------------------------
LEMMA InitIInv == Init => IInv
<1> SUFFICES ASSUME Init PROVE IInv
  OBVIOUS
<1>1. TypeOK
  BY SettingsAssumption DEF Init, TypeOK, Keys, Settled
<1>2. HandleHasUser /\ BootedFirst
  BY DEF Init, HandleHasUser, BootedFirst
<1>3. \A t \in Tasks : pc[t] = "idle"
  BY DEF Init, Settled
<1>4. OverlapKnown /\ OwnHandle /\ SaveProgress /\ ResetProgress
  BY <1>3 DEF OverlapKnown, OwnHandle, SaveProgress, ResetProgress, Alone, Saving
<1>5. SavedUnlessDisturbed
  BY DEF Init, SavedUnlessDisturbed, Agree, Quiet
<1> QED
  BY <1>1, <1>2, <1>4, <1>5 DEF IInv

-----------------------------------------------------------------------------
LEMMA TopicIsKey == Topic \in Keys
BY SettingsAssumption DEF Topic, Keys

\* The beginning of a save keeps the types.
LEMMA StartsSavingTypes ==
    ASSUME TypeOK, NEW t \in Tasks, NEW to \in Saving, StartsSaving(t, to)
    PROVE  /\ pc' \in [Tasks -> Saving \cup {"idle", "edit"}]
           /\ at' \in [Tasks -> 1 .. NKeys + 1]
           /\ \A u \in Tasks : pc'[u] # "edit" => at'[u] \in Keys
           /\ disturbed' \in [Tasks -> BOOLEAN]
<1> DEFINE others == {u \in Tasks \ {t} : pc[u] \in Saving}
<1>1. disturbed' = [u \in Tasks |-> IF u = t THEN others # {} ELSE disturbed[u] \/ u \in others]
  BY Zenon DEF StartsSaving
<1>2. disturbed' \in [Tasks -> BOOLEAN]
  BY <1>1, Zenon
<1>3. pc' = [pc EXCEPT ![t] = to] /\ at' = [at EXCEPT ![t] = 1]
  BY DEF StartsSaving, Goes
<1> QED
  BY <1>2, <1>3, SettingsAssumption DEF TypeOK, Keys

LEMMA BootAnchorIInv ==
    ASSUME IInv, BootAnchor
    PROVE  IInv'
<1> USE SettingsAssumption DEF IInv, BootAnchor, store, locals, history, Goes, StartsSaving, Steps, Begun, Put, Got, Settled, Saving, Tasks, Keys
<1>1. TypeOK'
  BY DEF TypeOK
<1>2. HandleHasUser'
  BY DEF TypeOK, HandleHasUser
<1>3. BootedFirst'
  BY DEF TypeOK, BootedFirst
<1>4. OverlapKnown'
  BY DEF TypeOK, OverlapKnown
<1>5. OwnHandle'
  BY DEF TypeOK, OwnHandle, Alone, OverlapKnown, HandleHasUser
<1>6. SaveProgress'
  BY DEF TypeOK, SaveProgress, Storable, OwnHandle, OverlapKnown, Alone, OthersIdle
<1>7. ResetProgress'
  BY DEF TypeOK, ResetProgress, Storable, OwnHandle, OverlapKnown, Alone, OthersIdle, Topic
<1>8. SavedUnlessDisturbed'
  BY DEF TypeOK, SavedUnlessDisturbed, Agree, Quiet
<1> QED
  BY <1>1, <1>2, <1>3, <1>4, <1>5, <1>6, <1>7, <1>8

LEMMA BootLoadIInv ==
    ASSUME IInv, BootLoad
    PROVE  IInv'
<1> USE SettingsAssumption DEF IInv, BootLoad, store, locals, history, Goes, StartsSaving, Steps, Begun, Put, Got, Settled, Saving, Tasks, Keys
<1>1. TypeOK'
  BY DEF TypeOK
<1>2. HandleHasUser'
  BY DEF TypeOK, HandleHasUser
<1>3. BootedFirst'
  BY DEF TypeOK, BootedFirst
<1>4. OverlapKnown'
  BY DEF TypeOK, OverlapKnown
<1>5. OwnHandle'
  BY DEF TypeOK, OwnHandle, Alone, OverlapKnown, HandleHasUser
<1>6. SaveProgress'
  BY DEF TypeOK, SaveProgress, Storable, Alone, BootedFirst
<1>7. ResetProgress'
  BY DEF TypeOK, ResetProgress, Storable, Alone, BootedFirst
<1>8. SavedUnlessDisturbed'
  BY DEF TypeOK, SavedUnlessDisturbed, Agree, Quiet
<1> QED
  BY <1>1, <1>2, <1>3, <1>4, <1>5, <1>6, <1>7, <1>8

LEMMA EditIInv ==
    ASSUME IInv, NEW t \in Tasks, NEW k \in Keys, NEW v \in Vals, Edit(t, k, v)
    PROVE  IInv'
<1> USE SettingsAssumption DEF IInv, Edit, store, locals, history, Goes, StartsSaving, Steps, Begun, Put, Got, Settled, Saving, Tasks, Keys
<1>1. TypeOK'
  BY DEF TypeOK
<1>2. HandleHasUser'
  BY DEF TypeOK, HandleHasUser
<1>3. BootedFirst'
  BY DEF TypeOK, BootedFirst
<1>4. OverlapKnown'
  BY DEF TypeOK, OverlapKnown
<1>5. OwnHandle'
  BY DEF TypeOK, OwnHandle, Alone, OverlapKnown, HandleHasUser
<1>6. SaveProgress'
  BY DEF TypeOK, SaveProgress, Storable, OwnHandle, OverlapKnown, Alone, OthersIdle
<1>7. ResetProgress'
  BY DEF TypeOK, ResetProgress, Storable, OwnHandle, OverlapKnown, Alone, OthersIdle, Topic
<1>8. SavedUnlessDisturbed'
  BY DEF TypeOK, SavedUnlessDisturbed, Agree, Quiet
<1> QED
  BY <1>1, <1>2, <1>3, <1>4, <1>5, <1>6, <1>7, <1>8

LEMMA EditDoneIInv ==
    ASSUME IInv, NEW t \in Tasks, EditDone(t)
    PROVE  IInv'
<1> USE SettingsAssumption DEF IInv, EditDone, store, locals, history, Goes, StartsSaving, Steps, Begun, Put, Got, Settled, Saving, Tasks, Keys
<1>1. TypeOK'
  BY StartsSavingTypes DEF TypeOK
<1>2. HandleHasUser'
  BY DEF TypeOK, HandleHasUser
<1>3. BootedFirst'
  BY DEF TypeOK, BootedFirst
<1>4. OverlapKnown'
  BY DEF TypeOK, OverlapKnown
<1>5. OwnHandle'
  BY DEF TypeOK, OwnHandle, Alone, OverlapKnown, HandleHasUser
<1>6. SaveProgress'
  BY DEF TypeOK, SaveProgress, Storable, OwnHandle, OverlapKnown, Alone, OthersIdle
<1>7. ResetProgress'
  BY DEF TypeOK, ResetProgress, Storable, OwnHandle, OverlapKnown, Alone, OthersIdle, Topic
<1>8. SavedUnlessDisturbed'
  BY DEF TypeOK, SavedUnlessDisturbed, Agree, Quiet
<1> QED
  BY <1>1, <1>2, <1>3, <1>4, <1>5, <1>6, <1>7, <1>8

LEMMA ApiSaveIInv ==
    ASSUME IInv, ApiSave
    PROVE  IInv'
<1> USE SettingsAssumption DEF IInv, ApiSave, store, locals, history, Goes, StartsSaving, Steps, Begun, Put, Got, Settled, Saving, Tasks, Keys
<1>1. TypeOK'
  BY DEF TypeOK
<1>2. HandleHasUser'
  BY DEF TypeOK, HandleHasUser
<1>3. BootedFirst'
  BY DEF TypeOK, BootedFirst
<1>4. OverlapKnown'
  BY DEF TypeOK, OverlapKnown
<1>5. OwnHandle'
  BY DEF TypeOK, OwnHandle, Alone, OverlapKnown, HandleHasUser
<1>6. SaveProgress'
  BY DEF TypeOK, SaveProgress, Storable, OwnHandle, OverlapKnown, Alone, OthersIdle
<1>7. ResetProgress'
  BY DEF TypeOK, ResetProgress, Storable, OwnHandle, OverlapKnown, Alone, OthersIdle, Topic
<1>8. SavedUnlessDisturbed'
  BY DEF TypeOK, SavedUnlessDisturbed, Agree, Quiet
<1> QED
  BY <1>1, <1>2, <1>3, <1>4, <1>5, <1>6, <1>7, <1>8

LEMMA ResetTopicIInv ==
    ASSUME IInv, ResetTopic
    PROVE  IInv'
<1> USE SettingsAssumption DEF IInv, ResetTopic, store, locals, history, Goes, StartsSaving, Steps, Begun, Put, Got, Settled, Saving, Tasks, Keys
<1>1. TypeOK'
  BY StartsSavingTypes, TopicIsKey DEF TypeOK
<1>2. HandleHasUser'
  BY DEF TypeOK, HandleHasUser
<1>3. BootedFirst'
  BY DEF TypeOK, BootedFirst
<1>4. OverlapKnown'
  BY DEF TypeOK, OverlapKnown
<1>5. OwnHandle'
  BY DEF TypeOK, OwnHandle, Alone, OverlapKnown, HandleHasUser
<1>6. SaveProgress'
  BY DEF TypeOK, SaveProgress, Storable, OwnHandle, OverlapKnown, Alone, OthersIdle
<1>7. ResetProgress'
  BY DEF TypeOK, ResetProgress, Storable, OwnHandle, OverlapKnown, Alone, OthersIdle, Topic, SavedUnlessDisturbed, Agree, Quiet
<1>8. SavedUnlessDisturbed'
  BY DEF TypeOK, SavedUnlessDisturbed, Agree, Quiet
<1> QED
  BY <1>1, <1>2, <1>3, <1>4, <1>5, <1>6, <1>7, <1>8

LEMMA CopyIInv ==
    ASSUME IInv, NEW t \in Tasks, Copy(t)
    PROVE  IInv'
<1> USE SettingsAssumption DEF IInv, Copy, store, locals, history, Goes, StartsSaving, Steps, Begun, Put, Got, Settled, Saving, Tasks, Keys
<1>a. snap' \in [Tasks -> [Keys -> Vals]]
  BY DEF TypeOK, Topic
<1>b. UNCHANGED <<ram, nvs, applied, phase>> /\ handle' \in {"closed", "ro", "rw"}
  BY DEF TypeOK
<1>c. pc' \in [Tasks -> Saving \cup {"idle", "edit"}] /\ at' \in [Tasks -> 1 .. NKeys + 1]
  BY DEF TypeOK
<1>d. \A u \in Tasks : pc'[u] # "edit" => at'[u] \in Keys
  BY DEF TypeOK
<1>e. disturbed' \in [Tasks -> BOOLEAN] /\ clean' \in BOOLEAN
  BY DEF TypeOK
<1>1. TypeOK'
  BY <1>a, <1>b, <1>c, <1>d, <1>e DEF TypeOK
<1>2. HandleHasUser'
  BY DEF TypeOK, HandleHasUser
<1>3. BootedFirst'
  BY DEF TypeOK, BootedFirst
<1>4. OverlapKnown'
  BY DEF TypeOK, OverlapKnown
<1>5. OwnHandle'
  BY DEF TypeOK, OwnHandle, Alone, OverlapKnown, HandleHasUser
<1>6. SaveProgress'
  BY DEF TypeOK, SaveProgress, Storable, OwnHandle, OverlapKnown, Alone, OthersIdle
<1>7. ResetProgress'
  BY DEF TypeOK, ResetProgress, Storable, OwnHandle, OverlapKnown, Alone, OthersIdle, Topic
<1>8. SavedUnlessDisturbed'
  BY DEF TypeOK, SavedUnlessDisturbed, Agree, Quiet
<1> QED
  BY <1>1, <1>2, <1>3, <1>4, <1>5, <1>6, <1>7, <1>8

LEMMA SaveBeginIInv ==
    ASSUME IInv, NEW t \in Tasks, SaveBegin(t)
    PROVE  IInv'
<1> USE SettingsAssumption DEF IInv, SaveBegin, store, locals, history, Goes, StartsSaving, Steps, Begun, Put, Got, Settled, Saving, Tasks, Keys
<1>1. TypeOK'
  BY DEF TypeOK
<1>2. HandleHasUser'
  BY DEF TypeOK, HandleHasUser
<1>3. BootedFirst'
  BY DEF TypeOK, BootedFirst
<1>4. OverlapKnown'
  BY DEF TypeOK, OverlapKnown
<1>5. OwnHandle'
  BY DEF TypeOK, OwnHandle, Alone, OverlapKnown, HandleHasUser
<1>6. SaveProgress'
  BY DEF TypeOK, SaveProgress, Storable, OwnHandle, OverlapKnown, Alone, OthersIdle
<1>7. ResetProgress'
  BY DEF TypeOK, ResetProgress, Storable, OwnHandle, OverlapKnown, Alone, OthersIdle, Topic
<1>8. SavedUnlessDisturbed'
  BY DEF TypeOK, SavedUnlessDisturbed, Agree, Quiet
<1> QED
  BY <1>1, <1>2, <1>3, <1>4, <1>5, <1>6, <1>7, <1>8

LEMMA SavePutIInv ==
    ASSUME IInv, NEW t \in Tasks, SavePut(t)
    PROVE  IInv'
<1> USE SettingsAssumption DEF IInv, SavePut, store, locals, history, Goes, StartsSaving, Steps, Begun, Put, Got, Settled, Saving, Tasks, Keys
<1>1. TypeOK'
  BY DEF TypeOK
<1>2. HandleHasUser'
  BY DEF TypeOK, HandleHasUser
<1>3. BootedFirst'
  BY DEF TypeOK, BootedFirst
<1>4. OverlapKnown'
  BY DEF TypeOK, OverlapKnown
<1>5. OwnHandle'
  BY DEF TypeOK, OwnHandle, Alone, OverlapKnown, HandleHasUser
<1>6. SaveProgress'
  BY DEF TypeOK, SaveProgress, Storable, OwnHandle, OverlapKnown, Alone, OthersIdle
<1>7. ResetProgress'
  BY DEF TypeOK, ResetProgress, Storable, OwnHandle, OverlapKnown, Alone, OthersIdle, Topic
<1>8. SavedUnlessDisturbed'
  BY DEF TypeOK, SavedUnlessDisturbed, Agree, Quiet
<1> QED
  BY <1>1, <1>2, <1>3, <1>4, <1>5, <1>6, <1>7, <1>8

LEMMA SaveEndIInv ==
    ASSUME IInv, NEW t \in Tasks, SaveEnd(t)
    PROVE  IInv'
<1> USE SettingsAssumption DEF IInv, SaveEnd, store, locals, history, Goes, StartsSaving, Steps, Begun, Put, Got, Settled, Saving, Tasks, Keys
<1>a. snap' \in [Tasks -> [Keys -> Vals]]
  BY DEF TypeOK, Topic
<1>b. UNCHANGED <<ram, nvs, applied, phase>> /\ handle' \in {"closed", "ro", "rw"}
  BY DEF TypeOK
<1>c. pc' \in [Tasks -> Saving \cup {"idle", "edit"}] /\ at' \in [Tasks -> 1 .. NKeys + 1]
  BY DEF TypeOK
<1>d. \A u \in Tasks : pc'[u] # "edit" => at'[u] \in Keys
  BY DEF TypeOK
<1>e. disturbed' \in [Tasks -> BOOLEAN] /\ clean' \in BOOLEAN
  BY DEF TypeOK
<1>1. TypeOK'
  BY <1>a, <1>b, <1>c, <1>d, <1>e DEF TypeOK
<1>2. HandleHasUser'
  BY DEF TypeOK, HandleHasUser
<1>3. BootedFirst'
  BY DEF TypeOK, BootedFirst
<1>4. OverlapKnown'
  BY DEF TypeOK, OverlapKnown
<1>5. OwnHandle'
  BY DEF TypeOK, OwnHandle, Alone, OverlapKnown, HandleHasUser
<1>6. SaveProgress'
  BY DEF TypeOK, SaveProgress, Storable, OwnHandle, OverlapKnown, Alone, OthersIdle
<1>7. ResetProgress'
  BY DEF TypeOK, ResetProgress, Storable, OwnHandle, OverlapKnown, Alone, OthersIdle, Topic
<1>8. SavedUnlessDisturbed'
  <2> SUFFICES ASSUME pc' = Settled, clean' PROVE \A k \in Storable : nvs[k] = ram[k]
    BY DEF SavedUnlessDisturbed, Agree, Storable, Quiet
  <2>1. Alone(t)
    BY DEF Alone
  <2>2. OthersIdle(t)
    BY DEF OthersIdle, TypeOK
  <2>3. \A k \in Storable : snap[t][k] = ram[k] /\ nvs[k] = snap[t][k]
    BY <2>1, <2>2 DEF SaveProgress, Storable
  <2> QED
    BY <2>3 DEF TypeOK
<1> QED
  BY <1>1, <1>2, <1>3, <1>4, <1>5, <1>6, <1>7, <1>8

LEMMA SaveAgainIInv ==
    ASSUME IInv, SaveAgain
    PROVE  IInv'
<1> USE SettingsAssumption DEF IInv, SaveAgain, store, locals, history, Goes, StartsSaving, Steps, Begun, Put, Got, Settled, Saving, Tasks, Keys
<1>1. TypeOK'
  BY DEF TypeOK
<1>2. HandleHasUser'
  BY DEF TypeOK, HandleHasUser
<1>3. BootedFirst'
  BY DEF TypeOK, BootedFirst
<1>4. OverlapKnown'
  BY DEF TypeOK, OverlapKnown
<1>5. OwnHandle'
  BY DEF TypeOK, OwnHandle, Alone, OverlapKnown, HandleHasUser
<1>6. SaveProgress'
  BY DEF TypeOK, SaveProgress, Storable, OwnHandle, OverlapKnown, Alone, OthersIdle
<1>7. ResetProgress'
  BY DEF TypeOK, ResetProgress, Storable, OwnHandle, OverlapKnown, Alone, OthersIdle, Topic
<1>8. SavedUnlessDisturbed'
  BY DEF TypeOK, SavedUnlessDisturbed, Agree, Quiet
<1> QED
  BY <1>1, <1>2, <1>3, <1>4, <1>5, <1>6, <1>7, <1>8

LEMMA LoadBeginIInv ==
    ASSUME IInv, NEW t \in Tasks, LoadBegin(t)
    PROVE  IInv'
<1> USE SettingsAssumption DEF IInv, LoadBegin, store, locals, history, Goes, StartsSaving, Steps, Begun, Put, Got, Settled, Saving, Tasks, Keys
<1>1. TypeOK'
  BY DEF TypeOK
<1>2. HandleHasUser'
  BY DEF TypeOK, HandleHasUser
<1>3. BootedFirst'
  BY DEF TypeOK, BootedFirst
<1>4. OverlapKnown'
  BY DEF TypeOK, OverlapKnown
<1>5. OwnHandle'
  BY DEF TypeOK, OwnHandle, Alone, OverlapKnown, HandleHasUser
<1>6. SaveProgress'
  BY DEF TypeOK, SaveProgress, Storable, OwnHandle, OverlapKnown, Alone, OthersIdle
<1>7. ResetProgress'
  BY DEF TypeOK, ResetProgress, Storable, OwnHandle, OverlapKnown, Alone, OthersIdle, Topic
<1>8. SavedUnlessDisturbed'
  BY DEF TypeOK, SavedUnlessDisturbed, Agree, Quiet
<1> QED
  BY <1>1, <1>2, <1>3, <1>4, <1>5, <1>6, <1>7, <1>8

LEMMA LoadGetIInv ==
    ASSUME IInv, NEW t \in Tasks, LoadGet(t)
    PROVE  IInv'
<1> USE SettingsAssumption DEF IInv, LoadGet, store, locals, history, Goes, StartsSaving, Steps, Begun, Put, Got, Settled, Saving, Tasks, Keys
<1>a. snap' \in [Tasks -> [Keys -> Vals]]
  BY DEF TypeOK, Topic
<1>b. UNCHANGED <<ram, nvs, applied, phase>> /\ handle' \in {"closed", "ro", "rw"}
  BY DEF TypeOK
<1>c. pc' \in [Tasks -> Saving \cup {"idle", "edit"}] /\ at' \in [Tasks -> 1 .. NKeys + 1]
  BY DEF TypeOK
<1>d. \A u \in Tasks : pc'[u] # "edit" => at'[u] \in Keys
  BY DEF TypeOK
<1>e. disturbed' \in [Tasks -> BOOLEAN] /\ clean' \in BOOLEAN
  BY DEF TypeOK
<1>1. TypeOK'
  BY <1>a, <1>b, <1>c, <1>d, <1>e DEF TypeOK
<1>2. HandleHasUser'
  BY DEF TypeOK, HandleHasUser
<1>3. BootedFirst'
  BY DEF TypeOK, BootedFirst
<1>4. OverlapKnown'
  BY DEF TypeOK, OverlapKnown
<1>5. OwnHandle'
  BY DEF TypeOK, OwnHandle, Alone, OverlapKnown, HandleHasUser
<1>6. SaveProgress'
  BY DEF TypeOK, SaveProgress, Storable, OwnHandle, OverlapKnown, Alone, OthersIdle
<1>7. ResetProgress'
  BY DEF TypeOK, ResetProgress, Storable, OwnHandle, OverlapKnown, Alone, OthersIdle, Topic
<1>8. SavedUnlessDisturbed'
  BY DEF TypeOK, SavedUnlessDisturbed, Agree, Quiet
<1> QED
  BY <1>1, <1>2, <1>3, <1>4, <1>5, <1>6, <1>7, <1>8

LEMMA LoadEndIInv ==
    ASSUME IInv, NEW t \in Tasks, LoadEnd(t)
    PROVE  IInv'
<1> USE SettingsAssumption DEF IInv, LoadEnd, store, locals, history, Goes, StartsSaving, Steps, Begun, Put, Got, Settled, Saving, Tasks, Keys
<1>a. snap' \in [Tasks -> [Keys -> Vals]]
  <2> HIDE DEF Goes, Tasks, Keys, store, locals, history
  <2>1. /\ snap \in [Tasks -> [Keys -> Vals]] /\ ram[Topic] \in Vals
        /\ snap' = [snap EXCEPT ![t][Topic] = ram[Topic]]
    BY DEF TypeOK, Topic, Keys
  <2>2. [snap[t] EXCEPT ![Topic] = ram[Topic]] \in [Keys -> Vals]
    BY <2>1
  <2> QED BY <2>1, <2>2
<1>b. UNCHANGED <<ram, nvs, applied, phase>> /\ handle' \in {"closed", "ro", "rw"}
  BY DEF TypeOK
<1>c. pc' \in [Tasks -> Saving \cup {"idle", "edit"}] /\ at' \in [Tasks -> 1 .. NKeys + 1]
  BY DEF TypeOK
<1>d. \A u \in Tasks : pc'[u] # "edit" => at'[u] \in Keys
  BY DEF TypeOK
<1>e. disturbed' \in [Tasks -> BOOLEAN] /\ clean' \in BOOLEAN
  BY DEF TypeOK
<1>1. TypeOK'
  BY <1>a, <1>b, <1>c, <1>d, <1>e DEF TypeOK
<1>2. HandleHasUser'
  BY DEF TypeOK, HandleHasUser
<1>3. BootedFirst'
  BY DEF TypeOK, BootedFirst
<1>4. OverlapKnown'
  BY DEF TypeOK, OverlapKnown
<1>5. OwnHandle'
  BY DEF TypeOK, OwnHandle, Alone, OverlapKnown, HandleHasUser
<1>6. SaveProgress'
  BY DEF TypeOK, SaveProgress, Storable, OwnHandle, OverlapKnown, Alone, OthersIdle
<1>7. ResetProgress'
  BY DEF TypeOK, ResetProgress, Storable, OwnHandle, OverlapKnown, Alone, OthersIdle, Topic
<1>8. SavedUnlessDisturbed'
  BY DEF TypeOK, SavedUnlessDisturbed, Agree, Quiet
<1> QED
  BY <1>1, <1>2, <1>3, <1>4, <1>5, <1>6, <1>7, <1>8

LEMMA ResetEndIInv ==
    ASSUME IInv, NEW t \in Tasks, ResetEnd(t)
    PROVE  IInv'
<1> USE SettingsAssumption DEF IInv, ResetEnd, store, locals, history, Goes, StartsSaving, Steps, Begun, Put, Got, Settled, Saving, Tasks, Keys
<1>a. snap' \in [Tasks -> [Keys -> Vals]]
  BY DEF TypeOK, Topic
<1>b. UNCHANGED <<ram, nvs, applied, phase>> /\ handle' \in {"closed", "ro", "rw"}
  BY DEF TypeOK
<1>c. pc' \in [Tasks -> Saving \cup {"idle", "edit"}] /\ at' \in [Tasks -> 1 .. NKeys + 1]
  BY DEF TypeOK
<1>d. \A u \in Tasks : pc'[u] # "edit" => at'[u] \in Keys
  BY DEF TypeOK
<1>e. disturbed' \in [Tasks -> BOOLEAN] /\ clean' \in BOOLEAN
  BY DEF TypeOK
<1>1. TypeOK'
  BY <1>a, <1>b, <1>c, <1>d, <1>e DEF TypeOK
<1>2. HandleHasUser'
  BY DEF TypeOK, HandleHasUser
<1>3. BootedFirst'
  BY DEF TypeOK, BootedFirst
<1>4. OverlapKnown'
  BY DEF TypeOK, OverlapKnown
<1>5. OwnHandle'
  BY DEF TypeOK, OwnHandle, Alone, OverlapKnown, HandleHasUser
<1>6. SaveProgress'
  BY DEF TypeOK, SaveProgress, Storable, OwnHandle, OverlapKnown, Alone, OthersIdle
<1>7. ResetProgress'
  BY DEF TypeOK, ResetProgress, Storable, OwnHandle, OverlapKnown, Alone, OthersIdle, Topic
<1>8. SavedUnlessDisturbed'
  <2> SUFFICES ASSUME pc' = Settled, clean' PROVE \A k \in Storable : nvs[k] = ram[k]
    BY DEF SavedUnlessDisturbed, Agree, Storable, Quiet
  <2>1. Alone(t) /\ clean
    BY DEF Alone
  <2>2. OthersIdle(t)
    BY DEF OthersIdle, TypeOK
  <2>3. \A k \in Storable : snap[t][k] = ram[k] /\ nvs[k] = snap[t][k]
    BY <2>1, <2>2 DEF ResetProgress, Storable
  <2> QED
    BY <2>3 DEF TypeOK
<1> QED
  BY <1>1, <1>2, <1>3, <1>4, <1>5, <1>6, <1>7, <1>8

LEMMA RestartIInv ==
    ASSUME IInv, Restart
    PROVE  IInv'
<1> USE SettingsAssumption DEF IInv, Restart, store, locals, history, Goes, StartsSaving, Steps, Begun, Put, Got, Settled, Saving, Tasks, Keys
<1>1. TypeOK'
  BY DEF TypeOK
<1>2. HandleHasUser'
  BY DEF TypeOK, HandleHasUser
<1>3. BootedFirst'
  BY DEF TypeOK, BootedFirst
<1>4. OverlapKnown'
  BY DEF TypeOK, OverlapKnown
<1>5. OwnHandle'
  BY DEF TypeOK, OwnHandle, Alone, OverlapKnown, HandleHasUser
<1>6. SaveProgress'
  BY DEF TypeOK, SaveProgress, Storable, OwnHandle, OverlapKnown, Alone, OthersIdle
<1>7. ResetProgress'
  BY DEF TypeOK, ResetProgress, Storable, OwnHandle, OverlapKnown, Alone, OthersIdle, Topic
<1>8. SavedUnlessDisturbed'
  BY DEF TypeOK, SavedUnlessDisturbed, Agree, Quiet
<1> QED
  BY <1>1, <1>2, <1>3, <1>4, <1>5, <1>6, <1>7, <1>8

-----------------------------------------------------------------------------
LEMMA NextIInv == IInv /\ [Next]_vars => IInv'
<1> SUFFICES ASSUME IInv, [Next]_vars PROVE IInv'
  OBVIOUS
<1>1. CASE BootAnchor
  BY <1>1, BootAnchorIInv
<1>2. CASE BootLoad
  BY <1>2, BootLoadIInv
<1>3. ASSUME NEW t \in Tasks, TaskStep(t) PROVE IInv'
  BY <1>3, EditDoneIInv, CopyIInv, SaveBeginIInv, SavePutIInv, SaveEndIInv,
     LoadBeginIInv, LoadGetIInv, LoadEndIInv, ResetEndIInv DEF TaskStep
<1>4. CASE ApiSave
  BY <1>4, ApiSaveIInv
<1>5. CASE ResetTopic
  BY <1>5, ResetTopicIInv
<1>6. CASE SaveAgain
  BY <1>6, SaveAgainIInv
<1>7. CASE Restart
  BY <1>7, RestartIInv
<1>8. ASSUME NEW k \in Keys, NEW v \in Vals, WebSet(k, v) \/ MqttSet(k, v) PROVE IInv'
  BY <1>8, EditIInv DEF WebSet, MqttSet, Tasks
<1>9. CASE UNCHANGED vars
  BY <1>9 DEF IInv, TypeOK, HandleHasUser, BootedFirst, OverlapKnown, OwnHandle,
     SaveProgress, ResetProgress, Storable, SavedUnlessDisturbed, Agree, Quiet, Alone, OthersIdle,
     vars, store, locals, history
<1> QED
  BY <1>1, <1>2, <1>3, <1>4, <1>5, <1>6, <1>7, <1>8, <1>9 DEF Next

THEOREM Invariance == Spec => []IInv
BY InitIInv, NextIInv, PTL DEF Spec

\* The type invariant of the settings holds for any number of settings and any values;
\* no copying loop runs past the last setting.
THEOREM TypeCorrect == Spec => []TypeOK
<1>1. IInv => TypeOK
  BY DEF IInv
<1> QED
  BY <1>1, Invariance, PTL

\* The Preferences object shared by the three saving tasks is never left open.
THEOREM HandleReleased == Spec => []HandleHasUser
<1>1. IInv => HandleHasUser
  BY DEF IInv
<1> QED
  BY <1>1, Invariance, PTL

\* saveSettings alone in the Preferences object stores the globals, all but those whose
\* key is too long for NVS, also when settings change in the middle of it and when the
\* device restarted before.
THEOREM UndisturbedSaves == Spec => []SavedUnlessDisturbed
<1>1. IInv => SavedUnlessDisturbed
  BY DEF IInv
<1> QED
  BY <1>1, Invariance, PTL
=============================================================================
