------------------------------ MODULE MqttQueue ------------------------------
(***************************************************************************)
(* The ring of MQTT messages that could not be published at once.  loop()  *)
(* fills it when it publishes the settings and empties it; apiTask fills   *)
(* it with events of the anchor and, when it is full, empties it too.      *)
(* Neither takes a lock, and either may be preempted anywhere: each        *)
(* reading and each writing of the ring, its indices or its count is a     *)
(* step of its own, in the order of the program, so that x++ is two.  The  *)
(* copy of a text that the client library makes before it sends is one     *)
(* step.                                                                   *)
(***************************************************************************)
EXTENDS Integers

CONSTANTS
    Size,           \* MQTT_QUEUE_SIZE
    Batch,          \* messages per call of processMqttQueue
    Messages,       \* the messages, each offered once
    None

ASSUME QueueAssumption ==
    /\ Size \in 1 .. 255
    /\ Batch \in Nat \ {0}
    /\ None \notin Messages

Tasks == {"loop", "api"}
Slots == 0 .. Size - 1

\* A message is its topic and its payload, which are written one after the other.
Texts == [topic : Messages \cup {None}, load : Messages \cup {None}]
Text(m) == [topic |-> m, load |-> m]

VARIABLES
    text, valid,    \* mqttQueue: what is in a slot, and whether it counts
    head, tail, count,
    connected,      \* mqttConnected
    at,             \* what each task is doing
    new,            \* the message a task wants to queue, if any
    slot,           \* its msg, a slot
    reg,            \* what it has read of an index or of the count, before it writes it
    out,            \* the text it is publishing
    done,           \* how many it has published in this call
    offered,        \* history: the messages that exist
    published,      \* history: the messages the broker has, whole
    refused,        \* history: the messages that enqueueMqttMessage turned away
    raced           \* history: where the tasks have been in each other's way

ringVars == <<text, valid, head, tail, count>>
taskVars == <<at, new, slot, reg, out, done>>
history == <<offered, published, refused, raced>>
vars == <<ringVars, connected, taskVars, history>>

Init ==
    /\ text = [s \in Slots |-> Text(None)] /\ valid = [s \in Slots |-> FALSE]
    /\ head = 0 /\ tail = 0 /\ count = 0
    /\ connected = FALSE
    /\ at = [t \in Tasks |-> "idle"]
    /\ new = [t \in Tasks |-> None]
    /\ slot = [t \in Tasks |-> 0] /\ reg = [t \in Tasks |-> 0]
    /\ out = [t \in Tasks |-> Text(None)]
    /\ done = [t \in Tasks |-> 0]
    /\ offered = {} /\ published = {} /\ refused = {} /\ raced = {}

Goes(t, where) == at' = [at EXCEPT ![t] = where]

\* The end of a call of processMqttQueue: enqueueMqttMessage looks again.
Returns(t) == Goes(t, IF new[t] = None THEN "idle" ELSE "again")

Storing == {"slot", "topic", "load", "mark", "tail", "tail2", "plus", "plus2"}
Taking == {"look", "valid", "send", "wire", "unmark", "head", "head2", "minus", "minus2"}
Counting == {"plus2", "minus2"}     \* the count has been read and not yet written

\* The other task is in one of these places.
Races(t, places, race) ==
    raced' = raced \cup {r \in {race} : \E u \in Tasks \ {t} : at[u] \in places}

\* An index or the count is read ...
Reads(t, from, value, to) ==
    /\ at[t] = from /\ reg' = [reg EXCEPT ![t] = value] /\ Goes(t, to)
    /\ UNCHANGED <<ringVars, connected, new, slot, out, done, history>>

\* ... and what was read is used as the number of a slot.
Takes(t, from, index, to) ==
    /\ at[t] = from /\ slot' = [slot EXCEPT ![t] = index] /\ Goes(t, to)
    /\ UNCHANGED <<ringVars, connected, new, reg, out, done, history>>

-----------------------------------------------------------------------------
\* publishMqttFloat, ...Uint, ...String, publishMqttAnchorEvent: at once if possible.
\* The switches among the settings are always queued.  All of it begins with a
\* connection, which may fail.
Offer(t) ==
    /\ at[t] = "idle" /\ connected
    /\ \E m \in Messages \ offered :
          /\ offered' = offered \cup {m}
          /\ \/ /\ published' = published \cup {m}
                /\ UNCHANGED <<at, new>>
             \/ /\ new' = [new EXCEPT ![t] = m]
                /\ Goes(t, "enqueue")
                /\ UNCHANGED published
    /\ UNCHANGED <<ringVars, connected, slot, reg, out, done, refused, raced>>

\* enqueueMqttMessage.  A full ring is emptied first, if there is a connection.
MakeRoom(t) ==
    /\ at[t] = "enqueue" /\ count >= Size
    /\ done' = [done EXCEPT ![t] = 0]
    /\ Goes(t, IF connected THEN "more" ELSE "again")
    /\ UNCHANGED <<ringVars, connected, new, slot, reg, out, history>>

Refuse(t) ==
    /\ at[t] = "again" /\ count >= Size
    /\ refused' = refused \cup {new[t]}
    /\ new' = [new EXCEPT ![t] = None]
    /\ Goes(t, "idle")
    /\ UNCHANGED <<ringVars, connected, slot, reg, out, done, offered, published, raced>>

\* Faulty: the count is not looked at again after the attempt to make room.
FindRoomUnchecked(t) ==
    /\ at[t] = "again" \/ (at[t] = "enqueue" /\ count < Size)
    /\ Races(t, Storing, "store")
    /\ Goes(t, "slot")
    /\ UNCHANGED <<ringVars, connected, new, slot, reg, out, done, offered, published, refused>>

FindRoom(t) ==
    /\ at[t] \in {"enqueue", "again"} /\ count < Size
    /\ Races(t, Storing, "store")
    /\ Goes(t, "slot")
    /\ UNCHANGED <<ringVars, connected, new, slot, reg, out, done, offered, published, refused>>

TakeTail(t) == Takes(t, "slot", tail, "topic")

WriteTopic(t) ==
    /\ at[t] = "topic" /\ text' = [text EXCEPT ![slot[t]].topic = new[t]]
    /\ Goes(t, "load")
    /\ UNCHANGED <<valid, head, tail, count, connected, new, slot, reg, out, done, history>>

WritePayload(t) ==
    /\ at[t] = "load" /\ text' = [text EXCEPT ![slot[t]].load = new[t]]
    /\ Goes(t, "mark")
    /\ UNCHANGED <<valid, head, tail, count, connected, new, slot, reg, out, done, history>>

Mark(t) ==
    /\ at[t] = "mark" /\ valid' = [valid EXCEPT ![slot[t]] = TRUE]
    /\ Goes(t, "tail")
    /\ UNCHANGED <<text, head, tail, count, connected, new, slot, reg, out, done, history>>

ReadTail(t) == Reads(t, "tail", tail, "tail2")

MoveTail(t) ==
    /\ at[t] = "tail2" /\ tail' = (reg[t] + 1) % Size
    /\ Goes(t, "plus")
    /\ UNCHANGED <<text, valid, head, count, connected, new, slot, reg, out, done, history>>

ReadToAdd(t) == Reads(t, "plus", count, "plus2")

CountUp(t) ==
    /\ at[t] = "plus2" /\ count' = (reg[t] + 1) % 256
    /\ Races(t, Counting, "count")
    /\ new' = [new EXCEPT ![t] = None]
    /\ Goes(t, "idle")
    /\ UNCHANGED <<text, valid, head, tail, connected, slot, reg, out, done, offered, published,
                   refused>>

-----------------------------------------------------------------------------
\* loop() calls processMqttQueue in every iteration with a connection.
LoopProcess ==
    /\ at["loop"] = "idle" /\ connected /\ count > 0
    /\ done' = [done EXCEPT !["loop"] = 0]
    /\ Goes("loop", "more")
    /\ UNCHANGED <<ringVars, connected, new, slot, reg, out, history>>

More(t) ==
    /\ at[t] = "more" /\ count > 0 /\ done[t] < Batch
    /\ Races(t, Taking, "take")
    /\ Goes(t, "look")
    /\ UNCHANGED <<ringVars, connected, new, slot, reg, out, done, offered, published, refused>>

EndProcess(t) ==
    /\ at[t] = "more" /\ (count = 0 \/ done[t] = Batch)
    /\ Returns(t)
    /\ UNCHANGED <<ringVars, connected, new, slot, reg, out, done, history>>

TakeHead(t) == Takes(t, "look", head, "valid")

\* An invalid slot is left as it is, and head and count move.
LookValid(t) ==
    /\ at[t] = "valid"
    /\ Goes(t, IF valid[slot[t]] THEN "send" ELSE "head")
    /\ UNCHANGED <<ringVars, connected, new, slot, reg, out, done, history>>

Publish(t) ==
    /\ at[t] = "send" /\ out' = [out EXCEPT ![t] = text[slot[t]]]
    /\ Goes(t, "wire")
    /\ UNCHANGED <<ringVars, connected, new, slot, reg, done, history>>

\* The broker has it.
PublishOk(t) ==
    /\ at[t] = "wire"
    /\ published' = published \cup {m \in Messages : out[t] = Text(m)}
    /\ done' = [done EXCEPT ![t] = @ + 1]
    /\ Goes(t, "unmark")
    /\ UNCHANGED <<ringVars, connected, new, slot, reg, out, offered, refused, raced>>

PublishFails(t) ==
    /\ at[t] = "wire"
    /\ Returns(t)
    /\ UNCHANGED <<ringVars, connected, new, slot, reg, out, done, history>>

Unmark(t) ==
    /\ at[t] = "unmark" /\ valid' = [valid EXCEPT ![slot[t]] = FALSE]
    /\ Goes(t, "head")
    /\ UNCHANGED <<text, head, tail, count, connected, new, slot, reg, out, done, history>>

ReadHead(t) == Reads(t, "head", head, "head2")

MoveHead(t) ==
    /\ at[t] = "head2" /\ head' = (reg[t] + 1) % Size
    /\ Goes(t, "minus")
    /\ UNCHANGED <<text, valid, tail, count, connected, new, slot, reg, out, done, history>>

ReadToSubtract(t) == Reads(t, "minus", count, "minus2")

CountDown(t) ==
    /\ at[t] = "minus2" /\ count' = (reg[t] + 255) % 256
    /\ Races(t, Counting, "count")
    /\ Goes(t, "more")
    /\ UNCHANGED <<text, valid, head, tail, connected, new, slot, reg, out, done, offered,
                   published, refused>>

\* connectMQTT succeeds, or mqttClient.loop() finds the connection lost.
Connection ==
    /\ at["loop"] = "idle"
    /\ connected' = ~connected
    /\ UNCHANGED <<ringVars, taskVars, history>>

Enqueue(t) ==
    \/ Offer(t) \/ MakeRoom(t) \/ Refuse(t) \/ FindRoom(t)
    \/ TakeTail(t) \/ WriteTopic(t) \/ WritePayload(t) \/ Mark(t)
    \/ ReadTail(t) \/ MoveTail(t) \/ ReadToAdd(t) \/ CountUp(t)

Process(t) ==
    \/ More(t) \/ EndProcess(t) \/ TakeHead(t) \/ LookValid(t)
    \/ Publish(t) \/ PublishOk(t) \/ PublishFails(t) \/ Unmark(t)
    \/ ReadHead(t) \/ MoveHead(t) \/ ReadToSubtract(t) \/ CountDown(t)

Next == LoopProcess \/ Connection \/ \E t \in Tasks : Enqueue(t) \/ Process(t)

Spec == Init /\ [][Next]_vars

-----------------------------------------------------------------------------
(* Properties *)

Positions == {"idle", "enqueue", "again", "more"} \cup Storing \cup Taking

\* The type invariant.
TypeOK ==
    /\ text \in [Slots -> Texts] /\ valid \in [Slots -> BOOLEAN]
    /\ head \in Slots /\ tail \in Slots /\ count \in 0 .. 255
    /\ connected \in BOOLEAN /\ raced \subseteq {"store", "take", "count"}
    /\ at \in [Tasks -> Positions]
    /\ new \in [Tasks -> Messages \cup {None}]
    /\ slot \in [Tasks -> Slots] /\ reg \in [Tasks -> 0 .. 255]
    /\ out \in [Tasks -> Texts]
    /\ done \in [Tasks -> 0 .. Batch]
    /\ offered \subseteq Messages /\ published \subseteq Messages /\ refused \subseteq Messages

\* The messages that are in the ring, whole.
Waiting == {m \in Messages : \E s \in Slots : valid[s] /\ text[s] = Text(m)}

\* "The queue prevents the loss of messages": what it has not turned away is published
\* or still there.
NothingLost == offered \subseteq published \cup refused \cup Waiting \cup {new[t] : t \in Tasks}

\* Neither task is between the mark of a slot and the count.
Settled ==
    \A t \in Tasks :
        at[t] \notin {"tail", "tail2", "plus", "plus2", "head", "head2", "minus", "minus2"}

\* What is there is what count says, from head on.
AllInReach == \A s \in Slots : valid[s] <=> \E i \in 0 .. count - 1 : s = (head + i) % Size

SafeBut(races) == raced \cap races # {} \/ (NothingLost /\ (Settled => AllInReach))

\* The ring loses nothing and stays whole however the statements of the two tasks
\* interleave, as long as three things do not happen: both store at once, both take at
\* once, or one writes the count that the other has read and not yet written back.
SafeUnlessRaced == SafeBut({"store", "take", "count"})

\* The code has nothing that prevents any of the three, and two of them are not enough.
\* That only one task empties the ring (and only one fills it) leaves count++ of the one
\* against count-- of the other.
OneEmptierIsEnough == SafeBut({"store", "take"})
OneFillerIsEnough == SafeBut({"store", "count"})
ExactCountIsEnough == SafeBut({"take", "count"})
=============================================================================
