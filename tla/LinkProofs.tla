----------------------------- MODULE LinkProofs -----------------------------
(***************************************************************************)
(* Theorems about the links of loop().  MqttQueue, for all ring and batch  *)
(* sizes and any set of messages: the ring that two tasks share without a  *)
(* lock loses nothing in any interleaving of their reads and writes, as    *)
(* long as three races do not happen.  NetLinks, for any number of         *)
(* attempts and of events under way: a station that was lost is looked     *)
(* for.                                                                    *)
(***************************************************************************)
EXTENDS MqttQueue, NetLinks, TLAPS

\* Where a storing task has written valid, and the tail; where a taking task has cleared
\* valid, and moved the head.
Marked == {"tail", "tail2", "plus", "plus2"}
Added == {"plus", "plus2"}
Cleared == {"head", "head2"}
Moved == {"minus", "minus2"}

Some(places) == \E t \in Tasks : at[t] \in places

\* How far a slot is behind the head, and the slot that is so far behind a slot.
Dist(h, s) == IF s >= h THEN s - h ELSE s - h + Size
Turned(h, n) == IF h + n < Size THEN h + n ELSE h + n - Size

\* How many slots from the head on hold messages: count, unless the head has gone ahead.
Left == IF Some(Moved) THEN count - 1 ELSE count

\* One task stores at most, and one takes.
AloneOK ==
    \A t, u \in Tasks :
        t # u => /\ ~(at[t] \in Storing /\ at[u] \in Storing)
                 /\ ~(at[t] \in Taking /\ at[u] \in Taking)

\* The tail is behind the last message, or behind the one that is being added.
CountOK ==
    /\ count \in 0 .. Size /\ (Some(Moved) => count >= 1)
    /\ tail = IF Some(Added) THEN Turned(Turned(head, Left), 1) ELSE Turned(head, Left)

\* A slot counts from its mark until it is taken: it is among those from the head on, or
\* about to be.
ValidOK ==
    \A s \in Slots :
        valid[s] <=> \/ Dist(head, s) < Left /\ ~(Some(Cleared) /\ s = head)
                     \/ \E t \in Tasks : at[t] \in Marked /\ slot[t] = s

\* A storing task has room, writes behind the last message, and what it has written is
\* its message.
StorerOK(t) ==
    /\ at[t] \in Storing => count < Size
    /\ at[t] \in Storing \ {"slot"} => slot[t] = Turned(head, Left)
    /\ at[t] = "load" => text[slot[t]].topic = new[t]
    /\ at[t] \in {"mark"} \cup Marked => text[slot[t]] = Text(new[t])
    /\ at[t] = "tail2" => reg[t] = tail
    /\ at[t] = "plus2" => reg[t] = count

\* A taking task has a message, at the head; what it sends is that one, and it clears the
\* slot of a message that the broker has.
TakerOK(t) ==
    /\ at[t] \in Taking \ Moved => count >= 1
    /\ at[t] \in Taking \ (Moved \cup {"look"}) => slot[t] = head
    /\ at[t] = "wire" => out[t] = text[head]
    /\ at[t] = "unmark" => \A m \in Messages : text[head] = Text(m) => m \in published
    /\ at[t] = "head2" => reg[t] = head
    /\ at[t] = "minus2" => reg[t] = count

RaceFree ==
    /\ AloneOK /\ CountOK /\ ValidOK /\ NothingLost
    /\ \A t \in Tasks : StorerOK(t) /\ TakerOK(t)

\* A task has a message while it stores one, and room in its batch while it takes one.
TaskOK(t) ==
    /\ at[t] \in {"enqueue", "again"} \cup Storing => new[t] # None
    /\ at[t] = "idle" => new[t] = None
    /\ at[t] \in {"look", "valid", "send", "wire"} => done[t] < Batch

QueueInv == TypeOK /\ (\A t \in Tasks : TaskOK(t)) /\ (raced # {} \/ RaceFree)

-----------------------------------------------------------------------------
(* The ring.                                                                *)

\* An index that has gone round at most once.
LEMMA Turn ==
    ASSUME NEW h \in Slots, NEW n \in 0 .. Size
    PROVE  /\ (h + n) % Size = Turned(h, n)
           /\ Turned(h, n) \in Slots
           /\ n < Size => Dist(h, Turned(h, n)) = n
BY QueueAssumption DEF Slots, Turned, Dist

\* The slots that count messages from the head on are those at a smaller distance.
LEMMA Reach ==
    ASSUME NEW h \in Slots, NEW n \in 0 .. Size, NEW s \in Slots
    PROVE  (\E i \in 0 .. n - 1 : s = (h + i) % Size) <=> Dist(h, s) < n
<1>1. ASSUME NEW i \in 0 .. n - 1, s = (h + i) % Size PROVE Dist(h, s) < n
  <2>1. h + i \in 0 .. 2 * Size - 1
    BY QueueAssumption DEF Slots
  <2>2. s = IF h + i < Size THEN h + i ELSE h + i - Size
    BY <1>1, <2>1, QueueAssumption
  <2> QED BY <2>2, QueueAssumption DEF Dist, Slots
<1>2. ASSUME Dist(h, s) < n PROVE \E i \in 0 .. n - 1 : s = (h + i) % Size
  <2>1. Dist(h, s) \in 0 .. n - 1 /\ h + Dist(h, s) \in 0 .. 2 * Size - 1
    BY <1>2, QueueAssumption DEF Dist, Slots
  <2>2. s = (h + Dist(h, s)) % Size
    BY <2>1, QueueAssumption DEF Dist, Slots
  <2> QED BY <2>1, <2>2
<1> QED BY <1>1, <1>2

\* A slot is nearer than n + 1 when it is nearer than n, or the one behind those.
LEMMA OneMore ==
    ASSUME NEW h \in Slots, NEW n \in 0 .. Size - 1, NEW s \in Slots
    PROVE  Dist(h, s) < n + 1 <=> Dist(h, s) < n \/ s = Turned(h, n)
BY QueueAssumption DEF Slots, Turned, Dist

\* When the head moves on, the others are nearer by one, and where the tail was to be
\* stays where it was.
LEMMA HeadMoves ==
    ASSUME NEW h \in Slots, NEW n \in 1 .. Size
    PROVE  /\ Turned(Turned(h, 1), n - 1) = Turned(h, n)
           /\ \A s \in Slots : Dist(Turned(h, 1), s) < n - 1 <=> Dist(h, s) < n /\ s # h
<1>1. Turned(h, 1) \in Slots
  BY QueueAssumption DEF Slots, Turned
<1>2. Turned(Turned(h, 1), n - 1) = Turned(h, n)
  BY QueueAssumption DEF Slots, Turned
<1>3. ASSUME NEW s \in Slots
      PROVE  Dist(Turned(h, 1), s) < n - 1 <=> Dist(h, s) < n /\ s # h
  BY QueueAssumption DEF Slots, Turned, Dist
<1> QED BY <1>2, <1>3

LEMMA TurnedTwice ==
    ASSUME NEW h \in Slots, NEW n \in 0 .. Size - 1
    PROVE  Turned(Turned(h, n), 1) = Turned(h, n + 1)
BY QueueAssumption DEF Slots, Turned

-----------------------------------------------------------------------------
(* One task moves.                                                          *)

\* What the other task is doing does not change.
Apart(t) ==
    \A u \in Tasks \ {t} :
        /\ at'[u] = at[u] /\ new'[u] = new[u] /\ slot'[u] = slot[u]
        /\ reg'[u] = reg[u] /\ out'[u] = out[u] /\ done'[u] = done[u]

\* Each task has a position, and stays in it when the other one moves.
LEMMA GoesOK ==
    ASSUME TypeOK, NEW t \in Tasks, NEW where, Goes(t, where)
    PROVE  at'[t] = where /\ \A u \in Tasks \ {t} : at'[u] = at[u]
BY DEF Goes, TypeOK

\* Whether some task is in one of the places, when one that stays in or out of them moves.
LEMMA SomeStays ==
    ASSUME NEW t \in Tasks, NEW places, Apart(t), at[t] \in places <=> at'[t] \in places
    PROVE  (\E u \in Tasks : at'[u] \in places) <=> (\E u \in Tasks : at[u] \in places)
BY DEF Apart

\* ... and when nobody else is there.
LEMMA SomeAlone ==
    ASSUME NEW t \in Tasks, NEW places, Apart(t), \A u \in Tasks \ {t} : at[u] \notin places
    PROVE  /\ (\E u \in Tasks : at[u] \in places) <=> at[t] \in places
           /\ (\E u \in Tasks : at'[u] \in places) <=> at'[t] \in places
BY DEF Apart

\* The places of storing and those of taking.
LEMMA PlacesApart ==
    /\ Marked \subseteq Storing /\ Added \subseteq Marked
    /\ Cleared \subseteq Taking /\ Moved \subseteq Taking
    /\ Storing \cap Taking = {} /\ Cleared \cap Moved = {}
BY DEF Marked, Added, Cleared, Moved, Storing, Taking

\* The numbers of a ring without races.
LEMMA Numbers ==
    ASSUME TypeOK, CountOK
    PROVE  /\ Size \in 1 .. 255 /\ head \in Slots /\ tail \in Slots
           /\ count \in 0 .. Size /\ Left \in 0 .. Size /\ Left <= count
           /\ Turned(head, Left) \in Slots
           /\ 0 \in Slots /\ 1 \in 0 .. Size
<1>1. Size \in 1 .. 255 /\ head \in Slots /\ tail \in Slots /\ count \in 0 .. Size
      /\ 0 \in Slots /\ 1 \in 0 .. Size
  BY QueueAssumption DEF TypeOK, CountOK, Slots
<1>2. Left \in 0 .. Size /\ Left <= count
  BY <1>1 DEF Left, CountOK
<1> QED BY <1>1, <1>2, Turn

\* Nobody else stores while one does, and nobody else takes.
LEMMA AloneAs ==
    ASSUME RaceFree, NEW t \in Tasks
    PROVE  /\ at[t] \in Storing => \A u \in Tasks \ {t} : at[u] \notin Storing
           /\ at[t] \in Taking => \A u \in Tasks \ {t} : at[u] \notin Taking
BY DEF RaceFree, AloneOK

\* A taking task that has not moved the head: all that is counted is left, and what it
\* takes is not where the other task stores.
LEMMA TakerSees ==
    ASSUME TypeOK, RaceFree, NEW t \in Tasks, at[t] \in Taking \ Moved
    PROVE  /\ ~Some(Moved) /\ Left = count /\ count >= 1
           /\ \A u \in Tasks : at[u] \in Storing \ {"slot"} => slot[u] # head /\ u # t
<1>1. ~Some(Moved)
  BY AloneAs, PlacesApart DEF Some
<1>2. Left = count /\ count >= 1
  BY <1>1 DEF Left, RaceFree, TakerOK
<1>3. ASSUME NEW u \in Tasks, at[u] \in Storing \ {"slot"} PROVE slot[u] # head /\ u # t
  <2>1. slot[u] = Turned(head, count) /\ count < Size
    BY <1>2, <1>3 DEF RaceFree, StorerOK
  <2>2. head \in Slots /\ count \in 0 .. Size /\ Size \in 1 .. 255
    BY Numbers DEF RaceFree
  <2>3. Turned(head, count) # head
    BY <1>2, <2>1, <2>2 DEF Turned, Slots
  <2> QED BY <1>3, <2>1, <2>3, PlacesApart
<1> QED BY <1>1, <1>2, <1>3

\* A storing task: the slot it writes is behind all that is left, and not valid until it
\* is marked.
LEMMA StorerSees ==
    ASSUME TypeOK, RaceFree, NEW t \in Tasks, at[t] \in Storing
    PROVE  /\ count < Size /\ Left \in 0 .. Size - 1
           /\ \A u \in Tasks \ {t} : at[u] \notin Storing
           /\ at[t] \in {"topic", "load", "mark"} =>
                 ~valid[slot[t]] /\ slot[t] \in Slots /\ slot[t] = Turned(head, Left)
           /\ \A u \in Tasks : at[u] \in Taking \ Moved /\ at[t] # "slot" => slot[t] # head
<1>1. count < Size /\ \A u \in Tasks \ {t} : at[u] \notin Storing
  BY AloneAs DEF RaceFree, StorerOK
<1>2. /\ head \in Slots /\ Left \in 0 .. Size /\ Left <= count /\ count \in 0 .. Size
      /\ Size \in 1 .. 255
  BY Numbers DEF RaceFree
<1>3. Left \in 0 .. Size - 1
  BY <1>1, <1>2
<1>4. ASSUME at[t] \in {"topic", "load", "mark"}
      PROVE  ~valid[slot[t]] /\ slot[t] \in Slots /\ slot[t] = Turned(head, Left)
  <2>1. slot[t] = Turned(head, Left)
    BY <1>4 DEF RaceFree, StorerOK, Storing
  <2>2. slot[t] \in Slots /\ Dist(head, slot[t]) = Left
    BY <1>2, <1>3, <2>1, Turn
  <2>3. ~\E u \in Tasks : at[u] \in Marked
    BY <1>1, <1>4, PlacesApart DEF Marked
  <2>4. ~valid[slot[t]]
    BY <1>3, <2>2, <2>3 DEF RaceFree, ValidOK
  <2> QED BY <2>1, <2>2, <2>4
<1>5. ASSUME NEW u \in Tasks, at[u] \in Taking \ Moved, at[t] # "slot" PROVE slot[t] # head
  BY <1>5, TakerSees
<1> QED BY <1>1, <1>3, <1>4, <1>5

\* A step that writes nothing that both tasks use, and neither begins nor ends to store or
\* to take but where the other one does not.
LEMMA QuietStep ==
    ASSUME TypeOK, RaceFree, NEW t \in Tasks, Apart(t), UNCHANGED ringVars,
           published \subseteq published',
           at'[t] \in Storing => \A u \in Tasks \ {t} : at[u] \notin Storing,
           at'[t] \in Taking => \A u \in Tasks \ {t} : at[u] \notin Taking,
           at[t] \in Moved <=> at'[t] \in Moved, at[t] \in Added <=> at'[t] \in Added,
           at[t] \in Cleared <=> at'[t] \in Cleared, at[t] \in Marked <=> at'[t] \in Marked,
           at[t] \in Marked => slot'[t] = slot[t],
           NothingLost', (StorerOK(t) /\ TakerOK(t))'
    PROVE  RaceFree'
<1>1. AloneOK'
  <2> SUFFICES ASSUME NEW v \in Tasks, NEW u \in Tasks, v # u
               PROVE  /\ ~(at'[v] \in Storing /\ at'[u] \in Storing)
                      /\ ~(at'[v] \in Taking /\ at'[u] \in Taking)
    BY DEF AloneOK
  <2>1. CASE v = t
    BY <2>1 DEF Apart
  <2>2. CASE u = t
    BY <2>2 DEF Apart
  <2>3. CASE v # t /\ u # t
    BY <2>3 DEF Apart, RaceFree, AloneOK
  <2> QED BY <2>1, <2>2, <2>3
<1>2. /\ Some(Moved)' <=> Some(Moved)
      /\ Some(Added)' <=> Some(Added)
      /\ Some(Cleared)' <=> Some(Cleared)
  BY SomeStays DEF Some
<1>3. Left' = Left
  BY <1>2 DEF Left, ringVars
<1>4. CountOK'
  BY <1>2, <1>3 DEF CountOK, RaceFree, ringVars, Turned
<1>5. ASSUME NEW s \in Slots
      PROVE  (\E u \in Tasks : at[u] \in Marked /\ slot[u] = s)
                <=> (\E u \in Tasks : at'[u] \in Marked /\ slot'[u] = s)
  BY DEF Apart
<1>6. ValidOK'
  BY <1>2, <1>3, <1>5 DEF ValidOK, RaceFree, ringVars, Dist
<1>7. ASSUME NEW u \in Tasks \ {t} PROVE StorerOK(u)' /\ TakerOK(u)'
  BY <1>3, <1>7 DEF Apart, RaceFree, StorerOK, TakerOK, ringVars, Turned
<1> QED BY <1>1, <1>4, <1>6, <1>7 DEF RaceFree

-----------------------------------------------------------------------------
(* Types, and what a task holds.                                            *)

\* A step of a task leaves the other one's state alone.
LEMMA StepsApart ==
    ASSUME TypeOK, NEW t \in Tasks, Enqueue(t) \/ Process(t)
    PROVE  Apart(t)
<1>1. CASE Offer(t) \/ MakeRoom(t) \/ Refuse(t) \/ FindRoom(t)
  BY <1>1 DEF Offer, MakeRoom, Refuse, FindRoom, Goes, TypeOK, Apart
<1>2. CASE TakeTail(t) \/ WriteTopic(t) \/ WritePayload(t) \/ Mark(t)
  BY <1>2 DEF TakeTail, Takes, WriteTopic, WritePayload, Mark, Goes, TypeOK, Apart
<1>3. CASE ReadTail(t) \/ MoveTail(t) \/ ReadToAdd(t) \/ CountUp(t)
  BY <1>3 DEF ReadTail, MoveTail, ReadToAdd, CountUp, Reads, Goes, TypeOK, Apart
<1>4. CASE More(t) \/ EndProcess(t) \/ TakeHead(t) \/ LookValid(t)
  BY <1>4 DEF More, EndProcess, TakeHead, LookValid, Takes, Returns, Goes, TypeOK, Apart
<1>5. CASE Publish(t) \/ PublishOk(t) \/ PublishFails(t) \/ Unmark(t)
  BY <1>5 DEF Publish, PublishOk, PublishFails, Unmark, Returns, Goes, TypeOK, Apart
<1>6. CASE ReadHead(t) \/ MoveHead(t) \/ ReadToSubtract(t) \/ CountDown(t)
  BY <1>6 DEF ReadHead, MoveHead, ReadToSubtract, CountDown, Reads, Goes, TypeOK, Apart
<1> QED BY <1>1, <1>2, <1>3, <1>4, <1>5, <1>6 DEF Enqueue, Process

\* Where the steps of a task go is a position, and the history of the races grows.
LEMMA GoesTo ==
    ASSUME TypeOK, NEW t \in Tasks, NEW where \in Positions, Goes(t, where)
    PROVE  at' \in [Tasks -> Positions]
BY DEF TypeOK, Goes

LEMMA RacesTo ==
    ASSUME TypeOK, NEW t, NEW places, NEW race \in {"store", "take", "count"},
           Races(t, places, race)
    PROVE  raced' \subseteq {"store", "take", "count"} /\ raced \subseteq raced'
BY DEF TypeOK, Races

LEMMA TypeStep ==
    ASSUME TypeOK, \A t \in Tasks : TaskOK(t), [Next]_vars
    PROVE  TypeOK'
<1>0. /\ Size \in 1 .. 255 /\ 0 \in 0 .. Batch /\ Batch \in Nat
      /\ head \in 0 .. 255 /\ tail \in 0 .. 255 /\ count \in 0 .. 255
  BY QueueAssumption DEF TypeOK, Slots
<1>p. {"idle", "enqueue", "again", "more"} \cup Storing \cup Taking = Positions
  BY DEF Positions
<1>g. ASSUME NEW t \in Tasks, NEW where \in Positions, Goes(t, where)
      PROVE  at' \in [Tasks -> Positions]
  BY <1>g, GoesTo
<1>r. ASSUME NEW t \in Tasks, Returns(t) PROVE at' \in [Tasks -> Positions]
  BY <1>r, <1>g, <1>p DEF Returns
<1>1. ASSUME NEW t \in Tasks, Offer(t) PROVE TypeOK'
  <2>1. at' \in [Tasks -> Positions]
    BY <1>1, <1>g, <1>p DEF Offer, TypeOK
  <2> QED BY <1>1, <2>1 DEF Offer, TypeOK, ringVars
<1>2. ASSUME NEW t \in Tasks, MakeRoom(t) PROVE TypeOK'
  <2>1. at' \in [Tasks -> Positions]
    BY <1>2, <1>g, <1>p DEF MakeRoom
  <2> QED BY <1>0, <1>2, <2>1 DEF MakeRoom, TypeOK, ringVars, history
<1>3. ASSUME NEW t \in Tasks, Refuse(t) PROVE TypeOK'
  <2>1. at' \in [Tasks -> Positions]
    BY <1>3, <1>g, <1>p DEF Refuse
  <2>2. new[t] \in Messages
    BY <1>3 DEF Refuse, TypeOK, TaskOK
  <2> QED BY <1>3, <2>1, <2>2 DEF Refuse, TypeOK, ringVars
<1>4. ASSUME NEW t \in Tasks, FindRoom(t) PROVE TypeOK'
  <2>1. at' \in [Tasks -> Positions] /\ raced' \subseteq {"store", "take", "count"}
    <3>1. "slot" \in Positions
      BY DEF Positions, Storing
    <3> QED BY <1>4, <1>g, <3>1, RacesTo DEF FindRoom
  <2> QED BY <1>4, <2>1 DEF FindRoom, TypeOK, ringVars
<1>5. ASSUME NEW t \in Tasks, TakeTail(t) \/ TakeHead(t) PROVE TypeOK'
  <2>1. at' \in [Tasks -> Positions]
    <3>1. "topic" \in Positions /\ "valid" \in Positions
      BY DEF Positions, Storing, Taking
    <3> QED BY <1>5, <1>g, <3>1 DEF TakeTail, TakeHead, Takes
  <2>2. slot' \in [Tasks -> Slots]
    BY <1>5 DEF TakeTail, TakeHead, Takes, TypeOK
  <2>3. UNCHANGED <<ringVars, connected, new, reg, out, done, history>>
    BY <1>5 DEF TakeTail, TakeHead, Takes
  <2> QED BY <2>1, <2>2, <2>3 DEF TypeOK, ringVars, history
<1>6. ASSUME NEW t \in Tasks, WriteTopic(t) \/ WritePayload(t) PROVE TypeOK'
  <2>1. at' \in [Tasks -> Positions]
    <3>1. "load" \in Positions /\ "mark" \in Positions
      BY DEF Positions, Storing
    <3> QED BY <1>6, <1>g, <3>1 DEF WriteTopic, WritePayload
  <2>2. text' \in [Slots -> Texts]
    <3>1. slot[t] \in Slots /\ new[t] \in Messages \cup {None} /\ text[slot[t]] \in Texts
      BY DEF TypeOK
    <3>2. /\ [text[slot[t]] EXCEPT !.topic = new[t]] \in Texts
          /\ [text[slot[t]] EXCEPT !.load = new[t]] \in Texts
      BY <3>1 DEF Texts
    <3> QED BY <1>6, <3>1, <3>2 DEF WriteTopic, WritePayload, TypeOK
  <2> QED BY <1>6, <2>1, <2>2 DEF WriteTopic, WritePayload, TypeOK, history
<1>7. ASSUME NEW t \in Tasks, Mark(t) \/ Unmark(t) PROVE TypeOK'
  <2>1. at' \in [Tasks -> Positions]
    <3>1. "tail" \in Positions /\ "head" \in Positions
      BY DEF Positions, Storing, Taking
    <3> QED BY <1>7, <1>g, <3>1 DEF Mark, Unmark
  <2> QED BY <1>7, <2>1 DEF Mark, Unmark, TypeOK, history
<1>8. ASSUME NEW t \in Tasks, ReadTail(t) \/ ReadToAdd(t) \/ ReadHead(t) \/ ReadToSubtract(t)
      PROVE  TypeOK'
  <2>1. at' \in [Tasks -> Positions]
    <3>1. {"tail2", "plus2", "head2", "minus2"} \subseteq Positions
      BY DEF Positions, Storing, Taking
    <3> QED BY <1>8, <1>g, <3>1 DEF ReadTail, ReadToAdd, ReadHead, ReadToSubtract, Reads
  <2>2. reg' \in [Tasks -> 0 .. 255]
    BY <1>0, <1>8 DEF ReadTail, ReadToAdd, ReadHead, ReadToSubtract, Reads, TypeOK
  <2>3. UNCHANGED <<ringVars, connected, new, slot, out, done, history>>
    BY <1>8 DEF ReadTail, ReadToAdd, ReadHead, ReadToSubtract, Reads
  <2> QED BY <2>1, <2>2, <2>3 DEF TypeOK, ringVars, history
<1>9. ASSUME NEW t \in Tasks, MoveTail(t) \/ MoveHead(t) PROVE TypeOK'
  <2>1. at' \in [Tasks -> Positions]
    <3>1. "plus" \in Positions /\ "minus" \in Positions
      BY DEF Positions, Storing, Taking
    <3> QED BY <1>9, <1>g, <3>1 DEF MoveTail, MoveHead
  <2>2. (reg[t] + 1) % Size \in Slots
    <3>1. reg[t] + 1 \in Nat
      BY <1>9 DEF TypeOK
    <3> QED BY <1>0, <3>1 DEF Slots
  <2> QED BY <1>9, <2>1, <2>2 DEF MoveTail, MoveHead, TypeOK, history
<1>10. ASSUME NEW t \in Tasks, CountUp(t) PROVE TypeOK'
  <2>1. at' \in [Tasks -> Positions] /\ raced' \subseteq {"store", "take", "count"}
    BY <1>10, <1>g, <1>p, RacesTo DEF CountUp
  <2>2. count' \in 0 .. 255
    BY <1>10 DEF CountUp, TypeOK
  <2> QED BY <1>10, <2>1, <2>2 DEF CountUp, TypeOK
<1>11. ASSUME NEW t \in Tasks, CountDown(t) PROVE TypeOK'
  <2>1. at' \in [Tasks -> Positions] /\ raced' \subseteq {"store", "take", "count"}
    BY <1>11, <1>g, <1>p, RacesTo DEF CountDown
  <2>2. count' \in 0 .. 255
    BY <1>11 DEF CountDown, TypeOK
  <2> QED BY <1>11, <2>1, <2>2 DEF CountDown, TypeOK
<1>12. ASSUME NEW t \in Tasks, More(t) PROVE TypeOK'
  <2>1. at' \in [Tasks -> Positions] /\ raced' \subseteq {"store", "take", "count"}
    <3>1. "look" \in Positions
      BY DEF Positions, Taking
    <3> QED BY <1>12, <1>g, <3>1, RacesTo DEF More
  <2> QED BY <1>12, <2>1 DEF More, TypeOK, ringVars
<1>13. ASSUME NEW t \in Tasks, EndProcess(t) \/ PublishFails(t) PROVE TypeOK'
  <2>1. at' \in [Tasks -> Positions]
    BY <1>13, <1>r DEF EndProcess, PublishFails
  <2> QED BY <1>13, <2>1 DEF EndProcess, PublishFails, TypeOK, ringVars, history
<1>14. ASSUME NEW t \in Tasks, LookValid(t) PROVE TypeOK'
  <2>1. at' \in [Tasks -> Positions]
    <3>1. "send" \in Positions /\ "head" \in Positions
      BY DEF Positions, Taking
    <3> QED BY <1>14, <1>g, <3>1 DEF LookValid
  <2> QED BY <1>14, <2>1 DEF LookValid, TypeOK, ringVars, history
<1>15. ASSUME NEW t \in Tasks, Publish(t) PROVE TypeOK'
  <2>1. at' \in [Tasks -> Positions]
    <3>1. "wire" \in Positions
      BY DEF Positions, Taking
    <3> QED BY <1>15, <1>g, <3>1 DEF Publish
  <2> QED BY <1>15, <2>1 DEF Publish, TypeOK, ringVars, history
<1>16. ASSUME NEW t \in Tasks, PublishOk(t) PROVE TypeOK'
  <2>1. at' \in [Tasks -> Positions]
    <3>1. "unmark" \in Positions
      BY DEF Positions, Taking
    <3> QED BY <1>16, <1>g, <3>1 DEF PublishOk
  <2>2. done[t] + 1 \in 0 .. Batch
    BY <1>0, <1>16 DEF PublishOk, TypeOK, TaskOK
  <2> QED BY <1>16, <2>1, <2>2 DEF PublishOk, TypeOK, ringVars
<1>17. CASE LoopProcess
  <2>1. at' \in [Tasks -> Positions]
    BY <1>17, <1>g, <1>p DEF LoopProcess, Tasks
  <2> QED BY <1>0, <1>17, <2>1 DEF LoopProcess, TypeOK, ringVars, history
<1>18. CASE Connection
  BY <1>18 DEF Connection, TypeOK, ringVars, taskVars, history
<1>19. CASE UNCHANGED vars
  BY <1>19 DEF vars, TypeOK, ringVars, taskVars, history
<1> QED
  BY <1>1, <1>2, <1>3, <1>4, <1>5, <1>6, <1>7, <1>8, <1>9, <1>10, <1>11, <1>12, <1>13, <1>14,
     <1>15, <1>16, <1>17, <1>18, <1>19 DEF Next, Enqueue, Process

\* What a task holds: the other task's step leaves it alone.
LEMMA TaskStep ==
    ASSUME TypeOK, \A t \in Tasks : TaskOK(t), [Next]_vars
    PROVE  \A t \in Tasks : TaskOK(t)'
<1>0. None \notin Messages
  BY QueueAssumption
<1>1. ASSUME NEW t \in Tasks, Enqueue(t) PROVE TaskOK(t)'
  <2>1. CASE Offer(t) \/ MakeRoom(t) \/ Refuse(t) \/ FindRoom(t)
    BY <1>0, <2>1 DEF Offer, MakeRoom, Refuse, FindRoom, Goes, TypeOK, TaskOK, Storing
  <2>2. CASE TakeTail(t) \/ WriteTopic(t) \/ WritePayload(t) \/ Mark(t)
    BY <2>2 DEF TakeTail, Takes, WriteTopic, WritePayload, Mark, Goes, TypeOK, TaskOK, Storing
  <2>3. CASE ReadTail(t) \/ MoveTail(t) \/ ReadToAdd(t) \/ CountUp(t)
    BY <2>3 DEF ReadTail, MoveTail, ReadToAdd, CountUp, Reads, Goes, TypeOK, TaskOK, Storing
  <2> QED BY <1>1, <2>1, <2>2, <2>3 DEF Enqueue
<1>2. ASSUME NEW t \in Tasks, Process(t) PROVE TaskOK(t)'
  <2>1. CASE More(t) \/ EndProcess(t) \/ TakeHead(t) \/ LookValid(t)
    BY <2>1 DEF More, EndProcess, TakeHead, LookValid, Takes, Returns, Goes, TypeOK, TaskOK,
                Storing
  <2>2. CASE Publish(t) \/ PublishOk(t) \/ PublishFails(t) \/ Unmark(t)
    BY <2>2 DEF Publish, PublishOk, PublishFails, Unmark, Returns, Goes, TypeOK, TaskOK, Storing
  <2>3. CASE ReadHead(t) \/ MoveHead(t) \/ ReadToSubtract(t) \/ CountDown(t)
    BY <2>3 DEF ReadHead, MoveHead, ReadToSubtract, CountDown, Reads, Goes, TypeOK, TaskOK,
                Storing
  <2> QED BY <1>2, <2>1, <2>2, <2>3 DEF Process
<1>3. ASSUME NEW t \in Tasks, NEW u \in Tasks, Enqueue(u) \/ Process(u) PROVE TaskOK(t)'
  <2>1. CASE t = u
    BY <1>1, <1>2, <1>3, <2>1
  <2>2. CASE t # u
    BY <1>3, <2>2, StepsApart DEF Apart, TaskOK
  <2> QED BY <2>1, <2>2
<1>4. ASSUME NEW t \in Tasks, LoopProcess PROVE TaskOK(t)'
  BY <1>4 DEF LoopProcess, Goes, TypeOK, TaskOK, Storing, Tasks
<1>5. ASSUME NEW t \in Tasks, Connection \/ UNCHANGED vars PROVE TaskOK(t)'
  BY <1>5 DEF Connection, vars, taskVars, TaskOK
<1> QED BY <1>3, <1>4, <1>5 DEF Next

-----------------------------------------------------------------------------
(* Steps that only read, or do their own work.                              *)

\* What is left stays, when nobody moves the head or counts down.
LEMMA LeftStays ==
    ASSUME NEW t \in Tasks, Apart(t), count' = count,
           at[t] \in Moved <=> at'[t] \in Moved
    PROVE  Left' = Left
<1>1. Some(Moved)' <=> Some(Moved)
  BY SomeStays DEF Some
<1> QED BY <1>1 DEF Left

\* Nothing is lost when no slot is written and no message appears or is dropped.
LEMMA KeepsAll ==
    ASSUME NothingLost, UNCHANGED <<text, valid, new, offered>>,
           published \subseteq published', refused \subseteq refused'
    PROVE  NothingLost'
<1>1. Waiting' = Waiting
  BY DEF Waiting
<1>2. {new'[t] : t \in Tasks} = {new[t] : t \in Tasks}
  OBVIOUS
<1> QED BY <1>1, <1>2 DEF NothingLost

\* A task that stores and writes nothing that is shared.
LEMMA StorerReads ==
    ASSUME TypeOK, RaceFree, NEW t \in Tasks,
           FindRoom(t) \/ TakeTail(t) \/ ReadTail(t) \/ ReadToAdd(t), raced' = {}
    PROVE  RaceFree'
<1>0. NothingLost /\ StorerOK(t) /\ TakerOK(t) /\ CountOK
  BY DEF RaceFree
<1>1. /\ Apart(t) /\ UNCHANGED ringVars /\ UNCHANGED <<new, published, refused, offered>>
      /\ text' = text /\ valid' = valid /\ head' = head /\ tail' = tail /\ count' = count
  BY StepsApart DEF Enqueue, FindRoom, TakeTail, ReadTail, ReadToAdd, Takes, Reads, history,
     ringVars
<1>2. NothingLost'
  BY <1>0, <1>1, KeepsAll
<1>3. CASE FindRoom(t)
  <2>1. /\ at[t] \in {"enqueue", "again"} /\ at'[t] = "slot" /\ count < Size
        /\ \A u \in Tasks \ {t} : at[u] \notin Storing
    BY <1>3, GoesOK DEF FindRoom, Races
  <2>2. (StorerOK(t) /\ TakerOK(t))'
    BY <1>1, <2>1 DEF StorerOK, TakerOK, Storing, Taking, Marked, Moved
  <2> QED BY <1>1, <1>2, <2>1, <2>2, QuietStep DEF Storing, Taking, Moved, Added, Cleared, Marked
<1>4. CASE TakeTail(t)
  <2>1. at[t] = "slot" /\ at'[t] = "topic" /\ slot'[t] = tail
    BY <1>4, GoesOK DEF TakeTail, Takes, TypeOK
  <2>2. \A u \in Tasks \ {t} : at[u] \notin Storing
    BY <2>1, StorerSees DEF Storing
  <2>3. ~Some(Added)
    BY <2>1, <2>2, PlacesApart DEF Some, Added
  <2>4. Left' = Left /\ tail = Turned(head, Left)
    BY <1>0, <1>1, <2>1, <2>3, LeftStays DEF CountOK, Moved
  <2>5. (StorerOK(t) /\ TakerOK(t))'
    BY <1>0, <1>1, <2>1, <2>4 DEF StorerOK, TakerOK, Storing, Taking, Marked, Moved, Turned
  <2> QED
    BY <1>1, <1>2, <2>1, <2>2, <2>5, QuietStep DEF Storing, Taking, Moved, Added, Cleared, Marked
<1>5. CASE ReadTail(t)
  <2>1. at[t] = "tail" /\ at'[t] = "tail2" /\ reg'[t] = tail /\ slot' = slot
    BY <1>5, GoesOK DEF ReadTail, Reads, TypeOK
  <2>2. \A u \in Tasks \ {t} : at[u] \notin Storing
    BY <2>1, StorerSees DEF Storing
  <2>3. Left' = Left
    BY <1>1, <2>1, LeftStays DEF Moved
  <2>4. (StorerOK(t) /\ TakerOK(t))'
    BY <1>0, <1>1, <2>1, <2>3 DEF StorerOK, TakerOK, Storing, Taking, Marked, Moved, Turned, Text
  <2> QED
    BY <1>1, <1>2, <2>1, <2>2, <2>4, QuietStep DEF Storing, Taking, Moved, Added, Cleared, Marked
<1>6. CASE ReadToAdd(t)
  <2>1. at[t] = "plus" /\ at'[t] = "plus2" /\ reg'[t] = count /\ slot' = slot
    BY <1>6, GoesOK DEF ReadToAdd, Reads, TypeOK
  <2>2. \A u \in Tasks \ {t} : at[u] \notin Storing
    BY <2>1, StorerSees DEF Storing
  <2>3. Left' = Left
    BY <1>1, <2>1, LeftStays DEF Moved
  <2>4. (StorerOK(t) /\ TakerOK(t))'
    BY <1>0, <1>1, <2>1, <2>3 DEF StorerOK, TakerOK, Storing, Taking, Marked, Moved, Turned, Text
  <2> QED
    BY <1>1, <1>2, <2>1, <2>2, <2>4, QuietStep DEF Storing, Taking, Moved, Added, Cleared, Marked
<1> QED BY <1>3, <1>4, <1>5, <1>6

\* A task that takes and writes nothing that is shared but its success.
LEMMA TakerReads ==
    ASSUME TypeOK, RaceFree, NEW t \in Tasks, raced' = {},
           \/ More(t) \/ TakeHead(t) \/ LookValid(t) \/ Publish(t) \/ PublishOk(t)
           \/ ReadHead(t) \/ ReadToSubtract(t)
    PROVE  RaceFree'
<1>0. NothingLost /\ StorerOK(t) /\ TakerOK(t) /\ CountOK
  BY DEF RaceFree
<1>1. /\ Apart(t) /\ UNCHANGED ringVars /\ UNCHANGED <<new, refused, offered>>
      /\ text' = text /\ valid' = valid /\ head' = head /\ tail' = tail /\ count' = count
      /\ published \subseteq published'
  BY StepsApart DEF Process, More, TakeHead, LookValid, Publish, PublishOk, ReadHead,
     ReadToSubtract, Takes, Reads, history, ringVars
<1>2. NothingLost'
  BY <1>0, <1>1, KeepsAll
<1>3. CASE More(t)
  <2>1. /\ at[t] = "more" /\ at'[t] = "look" /\ count > 0
        /\ \A u \in Tasks \ {t} : at[u] \notin Taking
    BY <1>3, GoesOK DEF More, Races
  <2>2. count >= 1
    BY <2>1 DEF TypeOK
  <2>3. (StorerOK(t) /\ TakerOK(t))'
    BY <1>1, <2>1, <2>2 DEF StorerOK, TakerOK, Storing, Taking, Marked, Moved
  <2> QED BY <1>1, <1>2, <2>1, <2>3, QuietStep DEF Storing, Taking, Moved, Added, Cleared, Marked
<1>4. CASE TakeHead(t)
  <2>1. at[t] = "look" /\ at'[t] = "valid" /\ slot'[t] = head
    BY <1>4, GoesOK DEF TakeHead, Takes, TypeOK
  <2>2. \A u \in Tasks \ {t} : at[u] \notin Taking
    BY <2>1, AloneAs DEF Taking
  <2>3. (StorerOK(t) /\ TakerOK(t))'
    BY <1>0, <1>1, <2>1 DEF StorerOK, TakerOK, Storing, Taking, Marked, Moved
  <2> QED
    BY <1>1, <1>2, <2>1, <2>2, <2>3, QuietStep DEF Storing, Taking, Moved, Added, Cleared, Marked
<1>5. CASE LookValid(t)
  <2>1. at[t] = "valid" /\ slot[t] = head /\ slot' = slot /\ count >= 1
    BY <1>0, <1>5 DEF LookValid, TakerOK, Taking, Moved
  <2>2. \A u \in Tasks \ {t} : at[u] \notin Taking
    BY <2>1, AloneAs DEF Taking
  <2>3. valid[head]
    <3>1. ~Some(Cleared)
      BY <2>1, <2>2, PlacesApart DEF Some, Cleared
    <3>2. Left = count
      BY <2>1, TakerSees DEF Taking, Moved
    <3>3. head \in Slots /\ count \in Nat
      BY DEF TypeOK
    <3>4. Dist(head, head) < Left
      BY <2>1, <3>2, <3>3 DEF Dist, Slots
    <3> QED BY <3>1, <3>3, <3>4 DEF RaceFree, ValidOK
  <2>4. at'[t] = "send"
    BY <1>5, <2>1, <2>3, GoesOK DEF LookValid
  <2>5. (StorerOK(t) /\ TakerOK(t))'
    BY <1>1, <2>1, <2>4 DEF StorerOK, TakerOK, Storing, Taking, Marked, Moved
  <2> QED
    BY <1>1, <1>2, <2>1, <2>2, <2>4, <2>5, QuietStep
       DEF Storing, Taking, Moved, Added, Cleared, Marked
<1>6. CASE Publish(t)
  <2>1. /\ at[t] = "send" /\ at'[t] = "wire" /\ slot[t] = head /\ slot' = slot /\ count >= 1
        /\ out'[t] = text[head]
    BY <1>0, <1>6, GoesOK DEF Publish, TakerOK, Taking, Moved, TypeOK
  <2>2. \A u \in Tasks \ {t} : at[u] \notin Taking
    BY <2>1, AloneAs DEF Taking
  <2>3. (StorerOK(t) /\ TakerOK(t))'
    BY <1>1, <2>1 DEF StorerOK, TakerOK, Storing, Taking, Marked, Moved
  <2> QED
    BY <1>1, <1>2, <2>1, <2>2, <2>3, QuietStep DEF Storing, Taking, Moved, Added, Cleared, Marked
<1>7. CASE PublishOk(t)
  <2>1. /\ at[t] = "wire" /\ at'[t] = "unmark" /\ slot[t] = head /\ slot' = slot /\ count >= 1
        /\ out[t] = text[head]
    BY <1>0, <1>7, GoesOK DEF PublishOk, TakerOK, Taking, Moved
  <2>2. \A u \in Tasks \ {t} : at[u] \notin Taking
    BY <2>1, AloneAs DEF Taking
  <2>3. \A m \in Messages : text[head] = Text(m) => m \in published'
    BY <1>7, <2>1 DEF PublishOk
  <2>4. (StorerOK(t) /\ TakerOK(t))'
    BY <1>1, <2>1, <2>3 DEF StorerOK, TakerOK, Storing, Taking, Marked, Moved, Text
  <2> QED
    BY <1>1, <1>2, <2>1, <2>2, <2>4, QuietStep DEF Storing, Taking, Moved, Added, Cleared, Marked
<1>8. CASE ReadHead(t)
  <2>1. /\ at[t] = "head" /\ at'[t] = "head2" /\ slot[t] = head /\ slot' = slot /\ count >= 1
        /\ reg'[t] = head
    BY <1>0, <1>8, GoesOK DEF ReadHead, Reads, TakerOK, Taking, Moved, TypeOK
  <2>2. \A u \in Tasks \ {t} : at[u] \notin Taking
    BY <2>1, AloneAs DEF Taking
  <2>3. (StorerOK(t) /\ TakerOK(t))'
    BY <1>1, <2>1 DEF StorerOK, TakerOK, Storing, Taking, Marked, Moved
  <2> QED
    BY <1>1, <1>2, <2>1, <2>2, <2>3, QuietStep DEF Storing, Taking, Moved, Added, Cleared, Marked
<1>9. CASE ReadToSubtract(t)
  <2>1. at[t] = "minus" /\ at'[t] = "minus2" /\ slot' = slot /\ reg'[t] = count
    BY <1>9, GoesOK DEF ReadToSubtract, Reads, TypeOK
  <2>2. \A u \in Tasks \ {t} : at[u] \notin Taking
    BY <2>1, AloneAs DEF Taking
  <2>3. (StorerOK(t) /\ TakerOK(t))'
    BY <1>1, <2>1 DEF StorerOK, TakerOK, Storing, Taking, Marked, Moved
  <2> QED
    BY <1>1, <1>2, <2>1, <2>2, <2>3, QuietStep DEF Storing, Taking, Moved, Added, Cleared, Marked
<1> QED BY <1>3, <1>4, <1>5, <1>6, <1>7, <1>8, <1>9

\* A task that neither stores nor takes after its step, and did not write.
LEMMA Idles ==
    ASSUME TypeOK, RaceFree, \A u \in Tasks : TaskOK(u), NEW t \in Tasks,
           \/ Offer(t) \/ MakeRoom(t) \/ Refuse(t) \/ EndProcess(t) \/ PublishFails(t)
           \/ t = "loop" /\ LoopProcess
    PROVE  RaceFree'
<1>0. NothingLost
  BY DEF RaceFree
<1>1. Apart(t)
  <2>1. CASE t = "loop" /\ LoopProcess
    BY <2>1 DEF LoopProcess, Goes, TypeOK, Apart
  <2> QED BY <2>1, StepsApart DEF Enqueue, Process
<1>2. /\ UNCHANGED ringVars /\ text' = text /\ valid' = valid
      /\ published \subseteq published' /\ refused \subseteq refused'
  BY DEF Offer, MakeRoom, Refuse, EndProcess, PublishFails, LoopProcess, history, ringVars
<1>3. /\ at[t] \in {"idle", "enqueue", "again", "more", "wire"}
      /\ at'[t] \in {"idle", "enqueue", "again", "more"}
  BY GoesOK DEF Offer, MakeRoom, Refuse, EndProcess, PublishFails, LoopProcess, Returns
<1>4. NothingLost'
  <2>1. CASE Offer(t)
    <3>1. PICK m \in Messages : /\ offered' = offered \cup {m}
                                /\ (m \in published' \/ new'[t] = m)
      BY <2>1 DEF Offer, TypeOK
    <3>2. new[t] = None /\ \A u \in Tasks \ {t} : new'[u] = new[u]
      BY <1>1, <2>1 DEF Offer, TaskOK, Apart
    <3>3. Waiting' = Waiting /\ refused' = refused
      BY <1>2, <2>1 DEF Waiting, Offer
    <3>4. None \notin Messages /\ offered \subseteq Messages
      BY QueueAssumption DEF TypeOK
    <3> QED BY <1>0, <1>2, <3>1, <3>2, <3>3, <3>4 DEF NothingLost
  <2>2. CASE Refuse(t)
    <3>1. refused' = refused \cup {new[t]} /\ offered' = offered /\ published' = published
      BY <2>2 DEF Refuse
    <3>2. \A u \in Tasks \ {t} : new'[u] = new[u]
      BY <1>1 DEF Apart
    <3>3. Waiting' = Waiting
      BY <1>2 DEF Waiting
    <3> QED BY <1>0, <3>1, <3>2, <3>3 DEF NothingLost
  <2>3. CASE ~Offer(t) /\ ~Refuse(t)
    <3>1. UNCHANGED <<new, offered>>
      BY <2>3 DEF MakeRoom, EndProcess, PublishFails, LoopProcess, history
    <3> QED BY <1>0, <1>2, <3>1, KeepsAll
  <2> QED BY <2>1, <2>2, <2>3
<1>5. (StorerOK(t) /\ TakerOK(t))'
  BY <1>3 DEF StorerOK, TakerOK, Storing, Taking, Marked, Moved
<1> QED BY <1>1, <1>2, <1>3, <1>4, <1>5, QuietStep DEF Storing, Taking, Moved, Added, Cleared, Marked

-----------------------------------------------------------------------------
(* Steps that write.                                                        *)

\* Each task that stores or takes was the one that did.
LEMMA AloneStays ==
    ASSUME RaceFree, NEW t \in Tasks, Apart(t),
           at'[t] \in Storing => at[t] \in Storing, at'[t] \in Taking => at[t] \in Taking
    PROVE  AloneOK'
BY DEF Apart, RaceFree, AloneOK

\* The texts, and a mark: the slot is behind all that is left.
LEMMA StorerWrites ==
    ASSUME TypeOK, RaceFree, \A u \in Tasks : TaskOK(u), NEW t \in Tasks,
           WriteTopic(t) \/ WritePayload(t) \/ Mark(t)
    PROVE  RaceFree'
<1>0. NothingLost /\ StorerOK(t) /\ CountOK /\ ValidOK
  BY DEF RaceFree
<1>1. /\ Apart(t) /\ UNCHANGED <<head, tail, count, new, slot, out, published, refused, offered>>
      /\ at[t] \in {"topic", "load", "mark"} /\ at'[t] \in {"load", "mark", "tail"}
      /\ at[t] \in Storing /\ at'[t] \in Storing \ {"slot"}
      /\ at'[t] \notin Taking /\ at[t] \notin Added /\ at'[t] \notin Added
      /\ at'[t] \notin Cleared /\ at[t] \notin Cleared
      /\ at[t] \notin Moved /\ at'[t] \notin Moved
  BY StepsApart, GoesOK
     DEF Enqueue, WriteTopic, WritePayload, Mark, history, Storing, Taking, Added, Cleared, Moved
<1>2. /\ \A u \in Tasks \ {t} : at[u] \notin Storing
      /\ ~valid[slot[t]] /\ slot[t] \in Slots /\ slot[t] = Turned(head, Left)
      /\ \A u \in Tasks : at[u] \in Taking \ Moved => slot[t] # head
      /\ count < Size
  BY <1>1, StorerSees
<1>3. Some(Moved)' <=> Some(Moved)
  BY <1>1, SomeStays DEF Some
<1>4. Some(Added)' <=> Some(Added)
  BY <1>1, SomeStays DEF Some
<1>5. Some(Cleared)' <=> Some(Cleared)
  BY <1>1, SomeStays DEF Some
<1>6. Left' = Left /\ CountOK'
  <2>1. Left' = Left
    BY <1>1, <1>3 DEF Left
  <2> QED BY <1>0, <1>1, <1>3, <1>4, <2>1 DEF CountOK, Turned
<1>7. AloneOK'
  BY <1>1, AloneStays
<1>8. \A s \in Slots \ {slot[t]} : text'[s] = text[s] /\ valid'[s] = valid[s]
  BY <1>2 DEF WriteTopic, WritePayload, Mark, TypeOK
<1>9. NothingLost'
  <2>1. Waiting \subseteq Waiting'
    BY <1>2, <1>8 DEF Waiting
  <2> QED BY <1>0, <1>1, <2>1 DEF NothingLost
<1>10. ValidOK'
  <2>1. CASE Mark(t)
    <3>1. at'[t] = "tail" /\ valid'[slot[t]]
      BY <1>2, <2>1, GoesOK DEF Mark, TypeOK
    <3>2. \A s \in Slots : (\E u \in Tasks : at'[u] \in Marked /\ slot'[u] = s) <=> s = slot[t]
      BY <1>1, <1>2, <3>1, PlacesApart DEF Apart, Marked
    <3>3. ~\E u \in Tasks : at[u] \in Marked
      BY <1>1, <1>2, PlacesApart DEF Marked
    <3> QED BY <1>0, <1>1, <1>2, <1>5, <1>6, <1>8, <3>1, <3>2, <3>3 DEF ValidOK, Dist
  <2>2. CASE WriteTopic(t) \/ WritePayload(t)
    <3>1. valid' = valid /\ at'[t] \notin Marked /\ at[t] \notin Marked
      BY <2>2, GoesOK DEF WriteTopic, WritePayload, Marked
    <3>2. \A s \in Slots : (\E u \in Tasks : at'[u] \in Marked /\ slot'[u] = s)
                              <=> \E u \in Tasks : at[u] \in Marked /\ slot[u] = s
      BY <1>1, <3>1 DEF Apart
    <3> QED BY <1>0, <1>1, <1>5, <1>6, <3>1, <3>2 DEF ValidOK, Dist
  <2> QED BY <2>1, <2>2
<1>11. StorerOK(t)'
  <2>1. slot'[t] = slot[t] /\ new'[t] = new[t] /\ slot[t] = Turned(head, Left)' /\ count' < Size
    BY <1>1, <1>2, <1>6 DEF Turned
  <2>2. at'[t] = "load" => text'[slot[t]].topic = new[t]
    <3> SUFFICES ASSUME at'[t] = "load" PROVE text'[slot[t]].topic = new[t]
      OBVIOUS
    <3>1. WriteTopic(t)
      BY GoesOK DEF WritePayload, Mark
    <3> QED BY <1>2, <3>1 DEF WriteTopic, TypeOK, Texts
  <2>3. at'[t] \in {"mark", "tail"} => text'[slot[t]] = Text(new[t])
    <3>1. CASE WritePayload(t)
      BY <1>0, <1>2, <3>1 DEF WritePayload, TypeOK, Texts, StorerOK, Text
    <3>2. CASE Mark(t)
      BY <1>0, <3>2 DEF Mark, StorerOK
    <3>3. CASE WriteTopic(t)
      BY <3>3, GoesOK DEF WriteTopic
    <3> QED BY <3>1, <3>2, <3>3
  <2> QED BY <1>1, <2>1, <2>2, <2>3 DEF StorerOK, Marked
<1>12. TakerOK(t)'
  BY <1>1 DEF TakerOK, Taking, Moved
<1>13. ASSUME NEW u \in Tasks \ {t} PROVE StorerOK(u)' /\ TakerOK(u)'
  <2>1. /\ at'[u] = at[u] /\ new'[u] = new[u] /\ slot'[u] = slot[u]
        /\ reg'[u] = reg[u] /\ out'[u] = out[u]
    BY <1>1, <1>13 DEF Apart
  <2>2. StorerOK(u)'
    BY <1>2, <1>13, <2>1 DEF StorerOK, Storing, Marked
  <2>3. at[u] \in Taking \ Moved => text'[head] = text[head]
    BY <1>2, <1>8, <1>13 DEF TypeOK
  <2>4. TakerOK(u)
    BY <1>13 DEF RaceFree
  <2>5. "wire" \in Taking \ Moved /\ "unmark" \in Taking \ Moved
    BY DEF Taking, Moved
  <2> QED BY <1>1, <2>1, <2>2, <2>3, <2>4, <2>5 DEF TakerOK
<1> QED BY <1>6, <1>7, <1>9, <1>10, <1>11, <1>12, <1>13 DEF RaceFree

\* The tail goes behind what was written.
LEMMA TailMoves ==
    ASSUME TypeOK, RaceFree, NEW t \in Tasks, MoveTail(t)
    PROVE  RaceFree'
<1>0. NothingLost /\ StorerOK(t) /\ CountOK /\ ValidOK
  BY DEF RaceFree
<1>1. /\ Apart(t)
      /\ UNCHANGED <<text, valid, head, count, new, slot, reg, out, published, refused, offered>>
      /\ at[t] = "tail2" /\ at'[t] = "plus" /\ tail' = (reg[t] + 1) % Size
  BY StepsApart, GoesOK DEF Enqueue, MoveTail, history
<1>2. /\ \A u \in Tasks \ {t} : at[u] \notin Storing
      /\ count < Size /\ reg[t] = tail /\ slot[t] = Turned(head, Left)
      /\ text[slot[t]] = Text(new[t])
  BY <1>0, <1>1, StorerSees DEF Storing, StorerOK, Marked
<1>3. ~Some(Added) /\ Some(Added)'
  BY <1>1, <1>2, PlacesApart DEF Some, Added, Apart
<1>4. Some(Moved)' <=> Some(Moved)
  BY <1>1, SomeStays DEF Some, Moved
<1>5. Some(Cleared)' <=> Some(Cleared)
  BY <1>1, SomeStays DEF Some, Cleared
<1>6. Left' = Left
  BY <1>1, <1>4 DEF Left
<1>7. CountOK'
  <2>1. tail = Turned(head, Left)
    BY <1>0, <1>3 DEF CountOK
  <2>2. tail' = Turned(tail, 1)
    BY <1>0, <1>1, <1>2, Numbers, Turn
  <2> QED BY <1>0, <1>1, <1>3, <1>4, <1>6, <2>1, <2>2 DEF CountOK, Turned
<1>8. AloneOK'
  BY <1>1, AloneStays DEF Storing, Taking
<1>9. NothingLost'
  BY <1>0, <1>1, KeepsAll
<1>10. ValidOK'
  <2>1. \A s \in Slots : (\E u \in Tasks : at'[u] \in Marked /\ slot'[u] = s)
                            <=> \E u \in Tasks : at[u] \in Marked /\ slot[u] = s
    BY <1>1 DEF Apart, Marked
  <2> QED BY <1>0, <1>1, <1>5, <1>6, <2>1 DEF ValidOK, Dist
<1>11. (StorerOK(t) /\ TakerOK(t))'
  BY <1>1, <1>2, <1>6 DEF StorerOK, TakerOK, Storing, Taking, Marked, Moved, Turned, Text
<1>12. ASSUME NEW u \in Tasks \ {t} PROVE StorerOK(u)' /\ TakerOK(u)'
  <2>1. at'[u] = at[u] /\ StorerOK(u)'
    BY <1>1, <1>2 DEF Apart, StorerOK, Storing, Marked
  <2>2. TakerOK(u)
    BY DEF RaceFree
  <2> QED BY <1>1, <2>1, <2>2 DEF Apart, TakerOK
<1> QED BY <1>7, <1>8, <1>9, <1>10, <1>11, <1>12 DEF RaceFree

\* The count takes the new message in; its task has it no longer.
LEMMA CountsUp ==
    ASSUME TypeOK, RaceFree, \A u \in Tasks : TaskOK(u), NEW t \in Tasks, CountUp(t),
           raced' = {}
    PROVE  RaceFree'
<1>0. NothingLost /\ StorerOK(t) /\ CountOK /\ ValidOK
  BY DEF RaceFree
<1>1. /\ Apart(t)
      /\ UNCHANGED <<text, valid, head, tail, slot, reg, out, published, refused, offered>>
      /\ at[t] = "plus2" /\ at'[t] = "idle" /\ count' = (reg[t] + 1) % 256
      /\ \A u \in Tasks \ {t} : at[u] \notin Counting
  BY StepsApart, GoesOK DEF Enqueue, CountUp, Races
<1>2. /\ \A u \in Tasks \ {t} : at[u] \notin Storing
      /\ count < Size /\ reg[t] = count /\ slot[t] = Turned(head, Left)
      /\ text[slot[t]] = Text(new[t]) /\ Left \in 0 .. Size - 1
  BY <1>0, <1>1, StorerSees DEF Storing, StorerOK, Marked
<1>3. Some(Added) /\ ~Some(Added)'
  BY <1>1, <1>2, PlacesApart DEF Some, Added, Apart
<1>4. Some(Moved)' <=> Some(Moved)
  BY <1>1, SomeStays DEF Some, Moved
<1>5. Some(Cleared)' <=> Some(Cleared)
  BY <1>1, SomeStays DEF Some, Cleared
<1>6. head \in Slots /\ count \in 0 .. Size /\ Size \in 1 .. 255 /\ slot[t] \in Slots
  BY <1>0, Numbers DEF TypeOK
<1>7. count' = count + 1 /\ Left' = Left + 1
  <2>1. count' = count + 1
    BY <1>1, <1>2, <1>6
  <2> QED BY <1>4, <1>6, <2>1 DEF Left
<1>8. CountOK'
  <2>1. tail = Turned(head, Left + 1)
    BY <1>0, <1>2, <1>3, <1>6, TurnedTwice DEF CountOK
  <2> QED BY <1>0, <1>1, <1>2, <1>3, <1>4, <1>6, <1>7, <2>1 DEF CountOK, Turned
<1>9. AloneOK'
  BY <1>1, AloneStays DEF Storing, Taking
<1>10. ~\E u \in Tasks : at'[u] \in Marked
  BY <1>1, <1>2, PlacesApart DEF Apart, Marked
<1>11. \A s \in Slots : (\E u \in Tasks : at[u] \in Marked /\ slot[u] = s) <=> s = slot[t]
  BY <1>1, <1>2, PlacesApart DEF Marked
<1>12. \A s \in Slots : Dist(head, s) < Left + 1 <=> Dist(head, s) < Left \/ s = slot[t]
  BY <1>2, <1>6, OneMore
<1>13. Some(Cleared) => slot[t] # head
  <2> SUFFICES ASSUME Some(Cleared) PROVE slot[t] # head
    OBVIOUS
  <2>1. PICK u \in Tasks : at[u] \in Cleared
    BY DEF Some
  <2>2. at[u] \in Taking \ Moved
    BY <2>1, PlacesApart
  <2> QED BY <1>1, <2>2, StorerSees DEF Storing
<1>14. ValidOK'
  <2> SUFFICES ASSUME NEW s \in Slots
               PROVE  valid'[s] <=> Dist(head, s)' < Left' /\ ~(Some(Cleared)' /\ s = head')
    BY <1>10 DEF ValidOK
  <2>1. valid[s] <=> (Dist(head, s) < Left /\ ~(Some(Cleared) /\ s = head)) \/ s = slot[t]
    BY <1>0, <1>11 DEF ValidOK
  <2>2. Dist(head, s)' = Dist(head, s)
    BY <1>1 DEF Dist
  <2>3. Dist(head, s)' < Left' <=> Dist(head, s) < Left \/ s = slot[t]
    BY <1>7, <1>12, <2>2
  <2> QED BY <1>1, <1>5, <1>13, <2>1, <2>3
<1>15. NothingLost'
  <2>1. valid[slot[t]]
    BY <1>0, <1>6, <1>11 DEF ValidOK
  <2>2. new[t] \in Messages => new[t] \in Waiting'
    BY <1>1, <1>2, <1>6, <2>1 DEF Waiting
  <2>3. Waiting' = Waiting /\ \A u \in Tasks \ {t} : new'[u] = new[u]
    BY <1>1 DEF Waiting, Apart
  <2>4. offered \subseteq Messages
    BY DEF TypeOK
  <2> QED BY <1>0, <1>1, <2>2, <2>3, <2>4 DEF NothingLost
<1>16. (StorerOK(t) /\ TakerOK(t))'
  BY <1>1 DEF StorerOK, TakerOK, Storing, Taking, Marked, Moved
<1>17. ASSUME NEW u \in Tasks \ {t} PROVE StorerOK(u)' /\ TakerOK(u)'
  <2>1. at'[u] = at[u] /\ StorerOK(u)'
    BY <1>1, <1>2 DEF Apart, StorerOK, Storing, Marked
  <2>2. TakerOK(u) /\ at[u] # "minus2"
    BY <1>1 DEF RaceFree, Counting
  <2> QED BY <1>1, <1>6, <1>7, <2>1, <2>2 DEF Apart, TakerOK
<1> QED BY <1>8, <1>9, <1>14, <1>15, <1>16, <1>17 DEF RaceFree

\* A slot is cleared: it is the head, and the broker has its message.
LEMMA TakerClears ==
    ASSUME TypeOK, RaceFree, NEW t \in Tasks, Unmark(t)
    PROVE  RaceFree'
<1>0. NothingLost /\ TakerOK(t) /\ CountOK /\ ValidOK
  BY DEF RaceFree
<1>1. /\ Apart(t)
      /\ UNCHANGED <<text, head, tail, count, new, slot, reg, out, published, refused, offered>>
      /\ at[t] = "unmark" /\ at'[t] = "head" /\ valid' = [valid EXCEPT ![slot[t]] = FALSE]
  BY StepsApart, GoesOK DEF Process, Unmark, history
<1>2. /\ \A u \in Tasks \ {t} : at[u] \notin Taking
      /\ slot[t] = head /\ head \in Slots
      /\ \A m \in Messages : text[head] = Text(m) => m \in published
      /\ ~Some(Moved) /\ Left = count /\ count >= 1
      /\ \A u \in Tasks : at[u] \in Storing \ {"slot"} => slot[u] # head
  BY <1>0, <1>1, AloneAs, TakerSees DEF Taking, Moved, TakerOK, TypeOK
<1>3. valid' = [valid EXCEPT ![head] = FALSE] /\ ~valid'[head]
      /\ \A s \in Slots \ {head} : valid'[s] = valid[s]
  BY <1>1, <1>2 DEF TypeOK
<1>4. ~Some(Cleared) /\ Some(Cleared)'
  BY <1>1, <1>2, PlacesApart DEF Some, Cleared
<1>5. Some(Moved)' <=> Some(Moved)
  BY <1>1, SomeStays DEF Some, Moved
<1>6. Some(Added)' <=> Some(Added)
  BY <1>1, SomeStays DEF Some, Added
<1>7. Left' = Left /\ CountOK'
  <2>1. Left' = Left
    BY <1>1, <1>5 DEF Left
  <2> QED BY <1>0, <1>1, <1>5, <1>6, <2>1 DEF CountOK, Turned
<1>8. AloneOK'
  BY <1>1, AloneStays DEF Storing, Taking
<1>9. NothingLost'
  <2>1. \A m \in Waiting : m \in Waiting' \/ m \in published
    <3> SUFFICES ASSUME NEW m \in Waiting PROVE m \in Waiting' \/ m \in published
      OBVIOUS
    <3>1. PICK s \in Slots : m \in Messages /\ valid[s] /\ text[s] = Text(m)
      BY DEF Waiting
    <3>2. CASE s = head
      BY <1>2, <3>1, <3>2
    <3>3. CASE s # head
      BY <1>1, <1>3, <3>1, <3>3 DEF Waiting
    <3> QED BY <3>2, <3>3
  <2> QED BY <1>0, <1>1, <2>1 DEF NothingLost
<1>10. ValidOK'
  <2> SUFFICES ASSUME NEW s \in Slots
               PROVE  valid'[s] <=> \/ Dist(head', s) < Left' /\ ~(Some(Cleared)' /\ s = head')
                                    \/ \E u \in Tasks : at'[u] \in Marked /\ slot'[u] = s
    BY DEF ValidOK
  <2>1. (\E u \in Tasks : at'[u] \in Marked /\ slot'[u] = s)
           <=> \E u \in Tasks : at[u] \in Marked /\ slot[u] = s
    BY <1>1 DEF Apart, Marked
  <2>2. Dist(head', s) < Left' <=> Dist(head, s) < Left
    BY <1>1, <1>7
  <2>3. CASE s = head
    <3>1. ~\E u \in Tasks : at[u] \in Marked /\ slot[u] = s
      BY <1>2, <2>3 DEF Marked, Storing
    <3> QED BY <1>1, <1>3, <1>4, <2>1, <2>3, <3>1
  <2>4. CASE s # head
    <3>1. valid[s] <=> Dist(head, s) < Left \/ \E u \in Tasks : at[u] \in Marked /\ slot[u] = s
      BY <1>0, <2>4 DEF ValidOK
    <3> QED BY <1>1, <1>3, <2>1, <2>2, <2>4, <3>1
  <2> QED BY <2>3, <2>4
<1>11. (StorerOK(t) /\ TakerOK(t))'
  BY <1>1, <1>2 DEF StorerOK, TakerOK, Storing, Taking, Marked, Moved
<1>12. ASSUME NEW u \in Tasks \ {t} PROVE StorerOK(u)' /\ TakerOK(u)'
  <2>1. StorerOK(u)
    BY DEF RaceFree
  <2>2. StorerOK(u)'
    BY <1>1, <1>7, <2>1 DEF Apart, StorerOK, Turned
  <2>3. TakerOK(u)'
    BY <1>1, <1>2 DEF Apart, TakerOK, Taking, Moved
  <2> QED BY <2>2, <2>3
<1> QED BY <1>7, <1>8, <1>9, <1>10, <1>11, <1>12 DEF RaceFree

\* The head goes behind the slot that was cleared.
LEMMA HeadGoesOn ==
    ASSUME TypeOK, RaceFree, NEW t \in Tasks, MoveHead(t)
    PROVE  RaceFree'
<1>0. NothingLost /\ TakerOK(t) /\ CountOK /\ ValidOK
  BY DEF RaceFree
<1>1. /\ Apart(t)
      /\ UNCHANGED <<text, valid, tail, count, new, slot, reg, out, published, refused, offered>>
      /\ at[t] = "head2" /\ at'[t] = "minus" /\ head' = (reg[t] + 1) % Size
  BY StepsApart, GoesOK DEF Process, MoveHead, history
<1>2. /\ \A u \in Tasks \ {t} : at[u] \notin Taking
      /\ reg[t] = head /\ head \in Slots /\ Size \in 1 .. 255 /\ count \in 1 .. Size
      /\ ~Some(Moved) /\ Left = count
      /\ \A u \in Tasks : at[u] \in Storing \ {"slot"} => slot[u] # head
  <2>1. /\ ~Some(Moved) /\ Left = count /\ count >= 1 /\ reg[t] = head
        /\ \A u \in Tasks : at[u] \in Storing \ {"slot"} => slot[u] # head
    BY <1>0, <1>1, TakerSees DEF Taking, Moved, TakerOK
  <2> QED BY <1>0, <1>1, <2>1, AloneAs, Numbers DEF Taking
<1>3. head' = Turned(head, 1) /\ head' \in Slots
  BY <1>0, <1>1, <1>2, Numbers, Turn
<1>4. Some(Cleared) /\ ~Some(Cleared)'
  BY <1>1, <1>2, PlacesApart DEF Some, Cleared, Apart
<1>5. Some(Moved)'
  BY <1>1 DEF Some, Moved
<1>6. Some(Added)' <=> Some(Added)
  BY <1>1, SomeStays DEF Some, Added
<1>7. Left' = Left - 1 /\ Turned(head', Left') = Turned(head, Left)
  <2>1. Left' = Left - 1
    BY <1>1, <1>2, <1>5 DEF Left
  <2> QED BY <1>2, <1>3, <2>1, HeadMoves
<1>8. CountOK'
  <2>1. tail' = IF Some(Added) THEN Turned(Turned(head', Left'), 1) ELSE Turned(head', Left')
    BY <1>0, <1>1, <1>7 DEF CountOK
  <2> QED BY <1>1, <1>2, <1>6, <2>1 DEF CountOK
<1>9. AloneOK'
  BY <1>1, AloneStays DEF Storing, Taking
<1>10. NothingLost'
  BY <1>0, <1>1, KeepsAll
<1>11. ValidOK'
  <2> SUFFICES ASSUME NEW s \in Slots
               PROVE  valid'[s] <=> \/ Dist(head', s) < Left'
                                    \/ \E u \in Tasks : at'[u] \in Marked /\ slot'[u] = s
    BY <1>4 DEF ValidOK
  <2>1. (\E u \in Tasks : at'[u] \in Marked /\ slot'[u] = s)
           <=> \E u \in Tasks : at[u] \in Marked /\ slot[u] = s
    BY <1>1 DEF Apart, Marked
  <2>2. Dist(head', s) < Left' <=> Dist(head, s) < Left /\ s # head
    BY <1>2, <1>3, <1>7, HeadMoves
  <2> QED BY <1>0, <1>1, <1>4, <2>1, <2>2 DEF ValidOK
<1>12. (StorerOK(t) /\ TakerOK(t))'
  BY <1>1 DEF StorerOK, TakerOK, Storing, Taking, Marked, Moved
<1>13. ASSUME NEW u \in Tasks \ {t} PROVE StorerOK(u)' /\ TakerOK(u)'
  <2>1. StorerOK(u)
    BY DEF RaceFree
  <2>2. Turned(head, Left)' = Turned(head, Left)
    BY <1>7
  <2>3. StorerOK(u)'
    BY <1>1, <2>1, <2>2 DEF Apart, StorerOK
  <2>4. TakerOK(u)'
    BY <1>1, <1>2 DEF Apart, TakerOK, Taking, Moved
  <2> QED BY <2>3, <2>4
<1> QED BY <1>8, <1>9, <1>10, <1>11, <1>12, <1>13 DEF RaceFree

\* The count lets the message go.
LEMMA CountsDown ==
    ASSUME TypeOK, RaceFree, NEW t \in Tasks, CountDown(t), raced' = {}
    PROVE  RaceFree'
<1>0. NothingLost /\ TakerOK(t) /\ CountOK /\ ValidOK
  BY DEF RaceFree
<1>1. /\ Apart(t)
      /\ UNCHANGED <<text, valid, head, tail, new, slot, reg, out, published, refused, offered>>
      /\ at[t] = "minus2" /\ at'[t] = "more" /\ count' = (reg[t] + 255) % 256
      /\ \A u \in Tasks \ {t} : at[u] \notin Counting
  BY StepsApart, GoesOK DEF Process, CountDown, Races
<1>2. /\ \A u \in Tasks \ {t} : at[u] \notin Taking
      /\ reg[t] = count /\ Some(Moved) /\ count >= 1 /\ count \in 0 .. Size
      /\ Size \in 1 .. 255
  <2>1. Some(Moved)
    BY <1>1 DEF Some, Moved
  <2> QED BY <1>0, <1>1, <2>1, AloneAs, Numbers DEF Taking, CountOK, TakerOK
<1>3. ~Some(Moved)'
  BY <1>1, <1>2, PlacesApart DEF Some, Moved, Apart
<1>4. Some(Added)' <=> Some(Added)
  BY <1>1, SomeStays DEF Some, Added
<1>5. Some(Cleared)' <=> Some(Cleared)
  BY <1>1, SomeStays DEF Some, Cleared
<1>6. count' = count - 1 /\ Left' = Left
  <2>1. count' = count - 1
    BY <1>1, <1>2
  <2> QED BY <1>2, <1>3, <2>1 DEF Left
<1>7. CountOK'
  BY <1>0, <1>1, <1>2, <1>3, <1>4, <1>6 DEF CountOK, Turned
<1>8. AloneOK'
  BY <1>1, AloneStays DEF Storing, Taking
<1>9. NothingLost'
  BY <1>0, <1>1, KeepsAll
<1>10. ValidOK'
  <2>1. \A s \in Slots : (\E u \in Tasks : at'[u] \in Marked /\ slot'[u] = s)
                            <=> \E u \in Tasks : at[u] \in Marked /\ slot[u] = s
    BY <1>1 DEF Apart, Marked
  <2> QED BY <1>0, <1>1, <1>5, <1>6, <2>1 DEF ValidOK, Dist
<1>11. (StorerOK(t) /\ TakerOK(t))'
  BY <1>1 DEF StorerOK, TakerOK, Storing, Taking, Marked, Moved
<1>12. ASSUME NEW u \in Tasks \ {t} PROVE StorerOK(u)' /\ TakerOK(u)'
  <2>1. StorerOK(u) /\ at[u] # "plus2"
    BY <1>1 DEF RaceFree, Counting
  <2>2. Turned(head, Left)' = Turned(head, Left)
    BY <1>1, <1>6 DEF Turned
  <2>3. StorerOK(u)'
    BY <1>1, <1>2, <1>6, <2>1, <2>2 DEF Apart, StorerOK
  <2>4. TakerOK(u)'
    BY <1>1, <1>2 DEF Apart, TakerOK, Taking, Moved
  <2> QED BY <2>3, <2>4
<1> QED BY <1>7, <1>8, <1>9, <1>10, <1>11, <1>12 DEF RaceFree

-----------------------------------------------------------------------------
(* The invariant.                                                           *)

\* A ring without races so far has none of the harm, or has a race now.
LEMMA QueueStep ==
    ASSUME QueueInv, [Next]_vars
    PROVE  QueueInv'
<1>1. TypeOK' /\ \A t \in Tasks : TaskOK(t)'
  BY TypeStep, TaskStep DEF QueueInv
<1>2. ASSUME raced' = {} PROVE RaceFree'
  <2>0. TypeOK /\ (\A t \in Tasks : TaskOK(t)) /\ RaceFree
    <3>1. TypeOK /\ raced \subseteq raced'
      <4>1. TypeOK
        BY DEF QueueInv
      <4>2. ASSUME NEW t \in Tasks, Enqueue(t) PROVE raced \subseteq raced'
        BY <4>2 DEF Enqueue, Offer, MakeRoom, Refuse, FindRoom, TakeTail, WriteTopic,
           WritePayload, Mark, ReadTail, MoveTail, ReadToAdd, CountUp, Takes, Reads, Races, history
      <4>3. ASSUME NEW t \in Tasks, Process(t) PROVE raced \subseteq raced'
        BY <4>3 DEF Process, More, EndProcess, TakeHead, LookValid, Publish, PublishOk,
           PublishFails, Unmark, ReadHead, MoveHead, ReadToSubtract, CountDown, Takes, Reads,
           Races, history
      <4>4. CASE LoopProcess \/ Connection \/ UNCHANGED vars
        BY <4>1, <4>4 DEF LoopProcess, Connection, vars, history
      <4> QED BY <4>1, <4>2, <4>3, <4>4 DEF Next
    <3> QED BY <1>2, <3>1 DEF QueueInv
  <2>1. ASSUME NEW t \in Tasks, Enqueue(t) PROVE RaceFree'
    BY <1>2, <2>0, <2>1, StorerReads, Idles, StorerWrites, TailMoves, CountsUp DEF Enqueue
  <2>2. ASSUME NEW t \in Tasks, Process(t) PROVE RaceFree'
    BY <1>2, <2>0, <2>2, TakerReads, Idles, TakerClears, HeadGoesOn, CountsDown DEF Process
  <2>3. CASE LoopProcess
    BY <2>0, <2>3, Idles DEF Tasks
  <2>4. CASE Connection \/ UNCHANGED vars
    <3>1. UNCHANGED <<ringVars, taskVars, history>>
      BY <2>4 DEF Connection, vars
    <3>2. Left' = Left /\ Waiting' = Waiting
      BY <3>1 DEF Left, Some, Waiting, ringVars, taskVars
    <3>3. AloneOK' /\ CountOK' /\ ValidOK' /\ NothingLost'
      BY <2>0, <3>1, <3>2 DEF RaceFree, AloneOK, CountOK, ValidOK, NothingLost, Some, Turned,
         Dist, ringVars, taskVars, history
    <3>4. ASSUME NEW t \in Tasks PROVE StorerOK(t)' /\ TakerOK(t)'
      BY <2>0, <3>1, <3>2 DEF RaceFree, StorerOK, TakerOK, Turned, ringVars, taskVars, history
    <3> QED BY <3>3, <3>4 DEF RaceFree
  <2> QED BY <2>1, <2>2, <2>3, <2>4 DEF Next
<1> QED BY <1>1, <1>2 DEF QueueInv

LEMMA QueueInvariance == Spec => []QueueInv
<1>1. Init => QueueInv
  <2> SUFFICES ASSUME Init PROVE QueueInv
    OBVIOUS
  <2>1. TypeOK
    <3>1. 0 \in Slots /\ 0 \in 0 .. 255 /\ 0 \in 0 .. Batch
      BY QueueAssumption DEF Slots
    <3>2. Text(None) \in Texts /\ "idle" \in Positions
      BY DEF Text, Texts, Positions
    <3> QED BY <3>1, <3>2 DEF Init, TypeOK
  <2>2. ASSUME NEW t \in Tasks PROVE at[t] = "idle" /\ new[t] = None
    BY DEF Init
  <2>3. \A t \in Tasks : TaskOK(t)
    BY <2>2 DEF TaskOK, Storing
  <2>4. AloneOK /\ \A t \in Tasks : StorerOK(t) /\ TakerOK(t)
    BY <2>2 DEF AloneOK, StorerOK, TakerOK, Storing, Taking, Marked, Moved
  <2>5. ~Some(Moved) /\ ~Some(Added) /\ ~Some(Cleared) /\ ~\E t \in Tasks : at[t] \in Marked
    BY <2>2 DEF Some, Moved, Added, Cleared, Marked
  <2>6. Left = 0
    BY <2>5 DEF Init, Left
  <2>7. CountOK
    BY <2>5, <2>6, QueueAssumption DEF Init, CountOK, Turned
  <2>8. ValidOK
    <3> SUFFICES ASSUME NEW s \in Slots PROVE ~valid[s] /\ ~(Dist(head, s) < Left)
      BY <2>5 DEF ValidOK
    <3> QED BY <2>6, QueueAssumption DEF Init, Dist, Slots
  <2>9. NothingLost
    BY DEF Init, NothingLost
  <2> QED BY <2>1, <2>3, <2>4, <2>7, <2>8, <2>9 DEF QueueInv, RaceFree
<1> QED BY <1>1, QueueStep, PTL DEF Spec

\* The indices of the ring, its count and what the two tasks remember of them stay in
\* their ranges whatever the tasks do to one another: the count is a byte, and each index
\* is brought back below the size whenever it is written.
THEOREM RingTypes == Spec => []TypeOK
<1>1. QueueInv => TypeOK
  BY DEF QueueInv
<1> QED BY <1>1, QueueInvariance, PTL

\* As long as the two tasks have never stored at once, taken at once, or counted between
\* the other's reading of the count and its writing back, the ring of enqueueMqttMessage
\* and processMqttQueue has lost no message it did not refuse, and at rest what it holds
\* is what the count says, from the head on.
THEOREM SafeWithoutRaces == Spec => []SafeUnlessRaced
<1>1. ASSUME QueueInv PROVE SafeUnlessRaced
  <2>1. CASE raced # {}
    <3>1. raced \subseteq {"store", "take", "count"}
      BY <1>1 DEF QueueInv, TypeOK
    <3> QED BY <2>1, <3>1 DEF SafeUnlessRaced, SafeBut
  <2>2. CASE RaceFree
    <3>1. NothingLost /\ CountOK /\ ValidOK /\ TypeOK
      BY <1>1, <2>2 DEF RaceFree, QueueInv
    <3>2. ASSUME Settled PROVE AllInReach
      <4>1. ~Some(Moved) /\ ~Some(Cleared) /\ ~\E t \in Tasks : at[t] \in Marked
        BY <3>2 DEF Settled, Some, Moved, Cleared, Marked
      <4>2. Left = count
        BY <4>1 DEF Left
      <4>3. \A s \in Slots : valid[s] <=> Dist(head, s) < count
        BY <3>1, <4>1, <4>2 DEF ValidOK
      <4>4. head \in Slots /\ count \in 0 .. Size
        BY <3>1, Numbers
      <4> QED BY <4>3, <4>4, Reach DEF AllInReach
    <3> QED BY <3>1, <3>2 DEF SafeUnlessRaced, SafeBut
  <2> QED BY <1>1, <2>1, <2>2 DEF QueueInv
<1> QED BY <1>1, QueueInvariance, PTL

-----------------------------------------------------------------------------
(* The station and its events.                                              *)

\* What the last event of the station says, handled or not.
Latest == IF events = <<>> THEN up ELSE events[Len(events)] = "ip"

\* The events tell the truth in the end, a connected station looks for no network, and
\* from the end of setup() on losses count.
EventsOK ==
    /\ assoc <=> Latest
    /\ begun => ~assoc
    /\ handler = "ip" => up
    /\ pc # "setup" => initialized

\* A loss is worked on, or an event that is not handled yet will have it worked on.
LossHeard == ~assoc /\ pc # "setup" => wanted \/ slipped \/ ~Unreported

\* A second call of WiFi.disconnect reports nothing, so that one event at most goes
\* beyond the bound.
RoomOK == Len(events) = EventCap + 1 => ~assoc

Places == {"setup", "top", "mqtt", "connect", "connecting", "wifi", "begin", "joining", "joined",
           "timeout"}

\* The two halves of the types: flags and places, and numbers and events.
FlagTypes ==
    /\ assoc \in BOOLEAN /\ begun \in BOOLEAN /\ up \in BOOLEAN
    /\ handler \in {"none", "lost", "ip"}
    /\ initialized \in BOOLEAN /\ wanted \in BOOLEAN /\ ap \in BOOLEAN /\ slipped \in BOOLEAN
    /\ pc \in Places
    /\ after \in {"top", "wifi"}
    /\ mqtt \in BOOLEAN /\ pendingMqtt \in BOOLEAN
    /\ restFailed \in BOOLEAN /\ settled \in BOOLEAN

NumberTypes ==
    /\ events \in Seq({"lost", "ip"}) /\ Len(events) <= EventCap + 1
    /\ attempts \in 0 .. CountMod - 1
    /\ restOk \in 0 .. RestNeeded

LinksInv == FlagTypes /\ NumberTypes /\ RoomOK /\ EventsOK /\ LossHeard

\* An event that is put behind the others is the last one, and hides none.
LEMMA EventComes ==
    ASSUME NEW q \in Seq({"lost", "ip"}), NEW e \in {"lost", "ip"}
    PROVE  /\ Append(q, e) \in Seq({"lost", "ip"}) /\ Len(Append(q, e)) = Len(q) + 1
           /\ Append(q, e) # <<>> /\ Append(q, e)[Len(Append(q, e))] = e
           /\ \A i \in DOMAIN q : i \in DOMAIN Append(q, e) /\ Append(q, e)[i] = q[i]
           /\ Len(q) + 1 \in DOMAIN Append(q, e)
OBVIOUS

\* The first event goes to the handler, and the others stay.
LEMMA EventGoes ==
    ASSUME NEW q \in Seq({"lost", "ip"}), q # <<>>
    PROVE  /\ Head(q) \in {"lost", "ip"} /\ Head(q) = q[1]
           /\ Tail(q) \in Seq({"lost", "ip"}) /\ Len(Tail(q)) = Len(q) - 1
           /\ Tail(q) = <<>> => Len(q) = 1
           /\ Tail(q) # <<>> => Tail(q)[Len(Tail(q))] = q[Len(q)]
           /\ \A i \in DOMAIN q : i = 1 \/ (i - 1 \in DOMAIN Tail(q) /\ Tail(q)[i - 1] = q[i])
<1>1. /\ Len(q) \in Nat \ {0} /\ DOMAIN q = 1 .. Len(q)
      /\ \A i \in 1 .. Len(q) : q[i] \in {"lost", "ip"}
  OBVIOUS
<1>2. /\ Head(q) = q[1] /\ Tail(q) \in Seq({"lost", "ip"}) /\ Len(Tail(q)) = Len(q) - 1
  BY <1>1
<1>3. \A j \in 1 .. Len(q) - 1 : Tail(q)[j] = q[j + 1]
  BY <1>1
<1>4. DOMAIN Tail(q) = 1 .. Len(q) - 1
  BY <1>2
<1>5. Tail(q) # <<>> => Len(q) - 1 \in 1 .. Len(q) - 1
  BY <1>1, <1>2
<1>6. \A i \in DOMAIN q : i = 1 \/ (i - 1 \in 1 .. Len(q) - 1 /\ (i - 1) + 1 = i)
  BY <1>1
<1>7. Tail(q) = <<>> => Len(q) = 1
  BY <1>1, <1>2
<1>8. Tail(q) # <<>> => Tail(q)[Len(Tail(q))] = q[Len(q)]
  BY <1>1, <1>2, <1>3, <1>5
<1>9. \A i \in DOMAIN q : i = 1 \/ (i - 1 \in DOMAIN Tail(q) /\ Tail(q)[i - 1] = q[i])
  BY <1>3, <1>4, <1>6
<1> QED BY <1>1, <1>2, <1>7, <1>8, <1>9

\* What the station does by itself leaves the other flags alone.
LEMMA FlagsKept ==
    ASSUME FlagTypes, UNCHANGED <<handler, up, flagVars, pc, after, mqttVars, gateVars>>,
           assoc' \in BOOLEAN, begun' \in BOOLEAN
    PROVE  FlagTypes'
<1>1. UNCHANGED <<handler, up, initialized, wanted, ap, slipped, pc, after, mqtt, pendingMqtt,
                  restFailed, settled>>
  BY DEF flagVars, mqttVars, gateVars
<1> QED BY <1>1 DEF FlagTypes

\* The MQTT half of loop() and the other tasks leave the station alone.
LEMMA StationKept ==
    ASSUME FlagTypes, UNCHANGED <<stationVars, handler, up, flagVars>>,
           pc' \in Places, after' \in {"top", "wifi"}, mqtt' \in BOOLEAN,
           pendingMqtt' \in BOOLEAN, restFailed' \in BOOLEAN, settled' \in BOOLEAN
    PROVE  FlagTypes'
<1>1. UNCHANGED <<assoc, begun, handler, up, initialized, wanted, ap, slipped>>
  BY DEF stationVars, flagVars
<1> QED BY <1>1 DEF FlagTypes

\* The station is lost, joins or fails to, and says so.
LEMMA StationStep == LinksInv /\ Station => LinksInv'
<1> SUFFICES ASSUME LinksInv, Station PROVE LinksInv'
  OBVIOUS
<1> USE DEF LinksInv
<1>0. events \in Seq({"lost", "ip"}) /\ Len(events) \in Nat /\ EventCap \in Nat
  BY LinksAssumption DEF NumberTypes
<1>1. CASE Drop
  <2>1. assoc' = FALSE /\ events' = Append(events, "lost") /\ Len(events) < EventCap
    BY <1>1 DEF Drop
  <2>f. FlagTypes'
    BY <1>1, <2>1, FlagsKept DEF Drop, FlagTypes
  <2>2. NumberTypes' /\ RoomOK'
    BY <1>0, <1>1, <2>1, EventComes
       DEF Drop, NumberTypes, RoomOK, flagVars, mqttVars, gateVars
  <2>3. EventsOK'
    BY <1>0, <1>1, <2>1, EventComes DEF Drop, EventsOK, Latest, flagVars
  <2>4. LossHeard'
    BY <1>0, <2>1, EventComes DEF LossHeard, Unreported
  <2> QED BY <2>f, <2>2, <2>3, <2>4
<1>2. CASE Join
  <2>1. assoc' = TRUE /\ events' = Append(events, "ip") /\ Len(events) < EventCap
    BY <1>2 DEF Join
  <2>f. FlagTypes'
    BY <1>2, <2>1, FlagsKept DEF Join, FlagTypes
  <2>2. NumberTypes' /\ RoomOK'
    BY <1>0, <1>2, <2>1, EventComes
       DEF Join, NumberTypes, RoomOK, flagVars, mqttVars, gateVars
  <2>3. EventsOK'
    BY <1>0, <1>2, <2>1, EventComes DEF Join, EventsOK, Latest, flagVars
  <2>4. LossHeard'
    BY <2>1 DEF LossHeard
  <2> QED BY <2>f, <2>2, <2>3, <2>4
<1>3. CASE JoinFails
  <2>1. /\ ~assoc /\ begun' = FALSE
        /\ UNCHANGED <<assoc, handler, up, flagVars, pc, after, mqttVars, gateVars>>
    BY <1>3 DEF JoinFails, EventsOK
  <2>2. ASSUME events' = events PROVE LinksInv'
    <3>1. FlagTypes'
      BY <2>1, FlagsKept DEF FlagTypes
    <3>2. NumberTypes' /\ RoomOK' /\ EventsOK' /\ LossHeard'
      BY <2>1, <2>2 DEF NumberTypes, RoomOK, EventsOK, Latest, LossHeard, Unreported, flagVars,
                        gateVars
    <3> QED BY <3>1, <3>2
  <2>3. ASSUME events' = Append(events, "lost") PROVE LinksInv'
    <3>f. FlagTypes'
      BY <2>1, FlagsKept DEF FlagTypes
    <3>1. NumberTypes' /\ RoomOK'
      BY <1>0, <1>3, <2>1, <2>3, EventComes
         DEF JoinFails, NumberTypes, RoomOK, flagVars, mqttVars, gateVars
    <3>2. EventsOK' /\ LossHeard'
      BY <1>0, <2>1, <2>3, EventComes
         DEF EventsOK, Latest, LossHeard, Unreported, flagVars
    <3> QED BY <3>f, <3>1, <3>2
  <2> QED BY <1>3, <2>2, <2>3 DEF JoinFails
<1> QED BY <1>1, <1>2, <1>3 DEF Station

\* The handlers raise and clear the flag in the order of the events.
LEMMA EventStep == LinksInv /\ Event => LinksInv'
<1> SUFFICES ASSUME LinksInv, Event PROVE LinksInv'
  OBVIOUS
<1> USE DEF LinksInv
<1>0. /\ events \in Seq({"lost", "ip"}) /\ Len(events) \in Nat /\ EventCap \in Nat
      /\ CountMod \in Nat /\ CountMod > 0
  BY LinksAssumption DEF NumberTypes
<1>1. CASE EventBegin
  <2>1. /\ handler' = Head(events) /\ events' = Tail(events) /\ up' = (Head(events) = "ip")
        /\ events # <<>> /\ handler = "none"
    BY <1>1 DEF EventBegin
  <2>f. FlagTypes'
    BY <1>0, <1>1, <2>1, EventGoes
       DEF EventBegin, FlagTypes, flagVars, mqttVars, gateVars
  <2>2. NumberTypes' /\ RoomOK'
    BY <1>0, <1>1, <2>1, EventGoes
       DEF EventBegin, NumberTypes, RoomOK, flagVars, mqttVars, gateVars
  <2>3. Latest' <=> Latest
    BY <1>0, <2>1, EventGoes DEF Latest
  <2>4. EventsOK'
    BY <1>0, <1>1, <2>1, <2>3 DEF EventBegin, EventsOK, flagVars
  <2>5. LossHeard'
    <3>1. UNCHANGED <<assoc, pc, wanted, slipped>>
      BY <1>1 DEF EventBegin, flagVars
    <3>2. ASSUME NEW i \in DOMAIN events, events[i] = "lost"
          PROVE  handler' = "lost" \/ \E j \in DOMAIN events' : events'[j] = "lost"
      <4>1. \A j \in DOMAIN events :
               j = 1 \/ (j - 1 \in DOMAIN Tail(events) /\ Tail(events)[j - 1] = events[j])
        BY <1>0, <2>1, EventGoes
      <4>2. Head(events) = events[1]
        BY <1>0, <2>1, EventGoes
      <4>3. CASE i = 1
        BY <2>1, <3>2, <4>2, <4>3
      <4>4. CASE i # 1
        <5>1. i - 1 \in DOMAIN events' /\ events'[i - 1] = "lost"
          BY <2>1, <3>2, <4>1, <4>4
        <5> QED BY <5>1
      <4> QED BY <4>3, <4>4
    <3> QED BY <2>1, <3>1, <3>2 DEF LossHeard, Unreported
  <2> QED BY <2>f, <2>2, <2>4, <2>5
<1>2. CASE HandleLost
  <2>1. UNCHANGED <<assoc, begun, events, up, initialized, slipped, pc>> /\ handler' = "none"
    BY <1>2 DEF HandleLost, stationVars
  <2>f. FlagTypes'
    <3>1. /\ UNCHANGED <<assoc, begun, up, initialized, ap, slipped, pc, after, mqtt, pendingMqtt,
                         restFailed, settled>>
          /\ wanted' = TRUE \/ wanted' = wanted
      BY <1>2 DEF HandleLost, stationVars, mqttVars, gateVars
    <3> QED BY <2>1, <3>1 DEF FlagTypes
  <2>2. NumberTypes' /\ RoomOK'
    BY <1>0, <1>2
       DEF HandleLost, NumberTypes, RoomOK, stationVars, mqttVars, gateVars
  <2>3. EventsOK'
    BY <2>1 DEF EventsOK, Latest
  <2>4. LossHeard'
    BY <1>2, <2>1 DEF HandleLost, LossHeard, Unreported, EventsOK
  <2> QED BY <2>f, <2>2, <2>3, <2>4
<1>3. CASE HandleIp
  <2>1. /\ UNCHANGED <<assoc, begun, events, up, slipped, pc>> /\ handler' = "none"
        /\ handler = "ip" /\ initialized' = TRUE
    BY <1>3 DEF HandleIp, stationVars
  <2>f. FlagTypes'
    BY <1>0, <1>3
       DEF HandleIp, FlagTypes, stationVars, gateVars
  <2>2. NumberTypes' /\ RoomOK'
    BY <1>0, <1>3
       DEF HandleIp, NumberTypes, RoomOK, stationVars, gateVars
  <2>3. EventsOK'
    BY <2>1 DEF EventsOK, Latest
  <2>4. ASSUME ~assoc PROVE Len(events) \in DOMAIN events /\ events[Len(events)] = "lost"
    BY <1>0, <2>1, <2>4 DEF EventsOK, Latest
  <2>5. LossHeard'
    BY <2>1, <2>4 DEF LossHeard, Unreported
  <2> QED BY <2>f, <2>2, <2>3, <2>5
<1> QED BY <1>1, <1>2, <1>3 DEF Event

\* Nothing but the end of setup(), the end of an attempt and the call of WiFi.begin changes
\* what is known of the station.
LEMMA LoopStepOK == LinksInv /\ Loop => LinksInv'
<1> SUFFICES ASSUME LinksInv, Loop PROVE LinksInv'
  OBVIOUS
<1> USE DEF LinksInv
<1>0. /\ events \in Seq({"lost", "ip"}) /\ Len(events) \in Nat /\ EventCap \in Nat
      /\ CountMod \in Nat /\ CountMod > 0
  BY LinksAssumption DEF NumberTypes
<1>1. CASE SetupDone
  <2>f. FlagTypes'
    BY <1>1
       DEF SetupDone, FlagTypes, Places, stationVars, mqttVars, gateVars
  <2>1. NumberTypes' /\ RoomOK' /\ EventsOK'
    BY <1>1
       DEF SetupDone, NumberTypes, RoomOK, EventsOK, Latest, stationVars, mqttVars,
           gateVars
  <2>2. LossHeard'
    BY <1>1 DEF SetupDone, LossHeard, Unreported, stationVars
  <2> QED BY <2>f, <2>1, <2>2
<1>2. CASE LoopJoined
  <2>f. FlagTypes'
    BY <1>0, <1>2
       DEF LoopJoined, FlagTypes, Places, stationVars, mqttVars, gateVars
  <2>1. NumberTypes' /\ RoomOK' /\ EventsOK'
    BY <1>0, <1>2
       DEF LoopJoined, NumberTypes, RoomOK, EventsOK, Latest, stationVars, mqttVars,
           gateVars
  <2>2. LossHeard'
    BY <1>2 DEF LoopJoined, LossHeard, Unreported, stationVars
  <2> QED BY <2>f, <2>1, <2>2
<1>3. CASE LoopBegin
  <2>1. /\ assoc' = FALSE /\ events' = (IF assoc THEN Append(events, "lost") ELSE events)
        /\ begun' = TRUE /\ UNCHANGED <<handler, up, initialized, wanted, slipped>>
        /\ pc' # "setup" /\ pc # "setup"
    BY <1>3 DEF LoopBegin, flagVars
  <2>f. FlagTypes'
    BY <1>0, <1>3, <2>1
       DEF LoopBegin, FlagTypes, Places, flagVars, mqttVars, gateVars
  <2>2. NumberTypes' /\ RoomOK'
    BY <1>0, <1>3, <2>1, EventComes
       DEF LoopBegin, NumberTypes, RoomOK, flagVars, mqttVars, gateVars
  <2>3. EventsOK'
    BY <1>0, <2>1, EventComes DEF EventsOK, Latest
  <2>4. LossHeard'
    BY <1>0, <2>1, EventComes DEF LossHeard, Unreported
  <2> QED BY <2>f, <2>2, <2>3, <2>4
<1>4. ASSUME UNCHANGED <<stationVars, handler, up, initialized, wanted, slipped>>,
             pc # "setup", pc' # "setup", FlagTypes' /\ NumberTypes'
      PROVE  LinksInv'
  BY <1>4 DEF RoomOK, EventsOK, Latest, LossHeard, Unreported, stationVars
<1>5. CASE LoopWifiTry
  <2>1. (attempts + 1) % CountMod \in 0 .. CountMod - 1
    BY <1>0 DEF NumberTypes
  <2>f. FlagTypes'
    BY <1>5, <2>1
       DEF LoopWifiTry, FlagTypes, Places, stationVars, mqttVars, gateVars
  <2>2. NumberTypes'
    BY <1>5, <2>1
       DEF LoopWifiTry, NumberTypes, stationVars, mqttVars, gateVars
  <2> QED BY <2>f, <1>4, <1>5, <2>2 DEF LoopWifiTry
<1>6. CASE LoopPortal
  <2>f. FlagTypes'
    BY <1>6
       DEF LoopPortal, FlagTypes, Places, stationVars, mqttVars, gateVars
  <2>1. NumberTypes'
    BY <1>6
       DEF LoopPortal, NumberTypes, stationVars, mqttVars, gateVars
  <2> QED BY <2>f, <1>4, <1>6, <2>1 DEF LoopPortal
<1>7. CASE LoopExclusive \/ LoopApplyPending \/ LoopMqtt \/ LoopMqttWait \/ LoopMqttTry
  <2>1. /\ UNCHANGED <<stationVars, handler, up, flagVars, gateVars>>
        /\ pc # "setup" /\ pc' \in {"wifi", "mqtt", "connect"}
        /\ after' \in {after, "wifi"} /\ pendingMqtt' \in {pendingMqtt, FALSE}
    BY <1>7 DEF LoopExclusive, LoopApplyPending, LoopMqtt, LoopMqttWait, LoopMqttTry, mqttVars
  <2>2. mqtt' \in BOOLEAN
    BY <1>7 DEF LoopExclusive, LoopApplyPending, LoopMqtt, LoopMqttWait, LoopMqttTry, mqttVars,
                FlagTypes
  <2>3. FlagTypes'
    <3>1. restFailed' \in BOOLEAN /\ settled' \in BOOLEAN /\ pendingMqtt' \in BOOLEAN
      BY <2>1 DEF FlagTypes, gateVars
    <3> QED BY <2>1, <2>2, <3>1, StationKept DEF FlagTypes, Places
  <2>4. NumberTypes'
    BY <2>1 DEF NumberTypes, stationVars, flagVars, gateVars
  <2> QED BY <1>4, <2>1, <2>3, <2>4 DEF flagVars
<1>8. CASE ConnectRefused \/ ConnectBegin \/ ConnectOk \/ ConnectFails
  <2>1. /\ UNCHANGED <<stationVars, handler, up, flagVars, after, pendingMqtt, gateVars>>
        /\ pc # "setup" /\ pc' \in {after, "connecting"} /\ mqtt' \in {mqtt, TRUE}
    BY <1>8 DEF ConnectRefused, ConnectBegin, ConnectOk, ConnectFails, mqttVars
  <2>2. after \in {"top", "wifi"}
    BY DEF FlagTypes
  <2>3. FlagTypes'
    <3>1. /\ restFailed' \in BOOLEAN /\ settled' \in BOOLEAN /\ pendingMqtt' \in BOOLEAN
          /\ mqtt' \in BOOLEAN
      BY <2>1 DEF FlagTypes, gateVars
    <3> QED BY <2>1, <2>2, <3>1, StationKept DEF Places
  <2>4. NumberTypes'
    BY <2>1 DEF NumberTypes, stationVars, flagVars, gateVars
  <2> QED BY <1>4, <2>1, <2>2, <2>3, <2>4 DEF flagVars
<1>9. CASE LoopWifiWait \/ LoopSeesUp \/ LoopTimeout
  <2>f. FlagTypes'
    BY <1>9
       DEF LoopWifiWait, LoopSeesUp, LoopTimeout, FlagTypes, Places, stationVars, flagVars,
           mqttVars, gateVars
  <2>1. NumberTypes'
    BY <1>9
       DEF LoopWifiWait, LoopSeesUp, LoopTimeout, NumberTypes, stationVars, flagVars,
           mqttVars, gateVars
  <2> QED BY <2>f, <1>4, <1>9, <2>1 DEF LoopWifiWait, LoopSeesUp, LoopTimeout, flagVars
<1> QED
  BY <1>1, <1>2, <1>3, <1>5, <1>6, <1>7, <1>8, <1>9 DEF Loop

LEMMA LinksStep == LinksInv /\ [LinksNext]_linkVars => LinksInv'
<1> SUFFICES ASSUME LinksInv, Others \/ UNCHANGED linkVars PROVE LinksInv'
  BY StationStep, EventStep, LoopStepOK DEF LinksNext
<1> USE DEF LinksInv
<1>1. UNCHANGED <<stationVars, handler, up, flagVars, pc>>
  BY DEF Others, RestOk, RestFails, Settle, RequestReconnect, linkVars
<1>2. RestNeeded \in Nat
  BY LinksAssumption
<1>f. FlagTypes'
  <2>1. UNCHANGED after
    BY DEF Others, RestOk, RestFails, Settle, RequestReconnect, linkVars
  <2>2. /\ mqtt' = mqtt /\ pendingMqtt' \in {pendingMqtt, TRUE}
        /\ restFailed' \in {restFailed, TRUE} /\ settled' \in {settled, TRUE}
    BY DEF Others, RestOk, RestFails, Settle, RequestReconnect, linkVars, mqttVars, gateVars
  <2>3. /\ mqtt' \in BOOLEAN /\ pendingMqtt' \in BOOLEAN /\ restFailed' \in BOOLEAN
        /\ settled' \in BOOLEAN
    BY <2>2 DEF FlagTypes
  <2> QED BY <1>1, <2>1, <2>3, StationKept DEF FlagTypes
<1>3. NumberTypes'
  BY <1>2
     DEF Others, RestOk, RestFails, Settle, RequestReconnect, NumberTypes, linkVars,
         stationVars, flagVars, mqttVars, gateVars
<1> QED
  BY <1>f, <1>1, <1>3 DEF RoomOK, EventsOK, Latest, LossHeard, Unreported, stationVars, flagVars

LEMMA LinksInvariance == LinksSpec => []LinksInv
<1>1. LinksInit => LinksInv
  <2> SUFFICES ASSUME LinksInit PROVE LinksInv
    OBVIOUS
  <2>1. /\ EventCap \in Nat /\ RestNeeded \in Nat /\ CountMod \in Nat /\ CountMod > 0
        /\ <<>> \in Seq({"lost", "ip"}) /\ Len(<<>>) = 0
    BY LinksAssumption
  <2>2. FlagTypes
    BY DEF LinksInit, FlagTypes, Places
  <2>3. NumberTypes /\ RoomOK /\ EventsOK /\ LossHeard
    BY <2>1 DEF LinksInit, NumberTypes, RoomOK, EventsOK, Latest, LossHeard
  <2> QED BY <2>2, <2>3 DEF LinksInv
<1> QED BY <1>1, LinksStep, PTL DEF LinksSpec

\* The station, its events, the flags and the gate keep their types.
THEOREM LinkTypes == LinksSpec => []LinksTypeOK
<1>1. LinksInv => LinksTypeOK
  BY DEF LinksInv, FlagTypes, NumberTypes, Places, LinksTypeOK
<1> QED BY <1>1, LinksInvariance, PTL

\* When its events are handled, a lost station is wanted and known to be down, so that
\* loop() tries again; unless loop() has cleared the flag over a reported loss.
THEOREM LossesWorkedOn == LinksSpec => []LossIsWorkedOn
<1>1. ASSUME LinksInv PROVE LossIsWorkedOn
  <2> SUFFICES ASSUME ~assoc, events = <<>>, handler = "none", pc # "setup"
               PROVE  (initialized /\ wanted /\ ~up) \/ slipped
    BY DEF LossIsWorkedOn
  <2>1. \A i \in DOMAIN events : events[i] # "lost"
    OBVIOUS
  <2> QED BY <1>1, <2>1 DEF LinksInv, EventsOK, Latest, LossHeard, Unreported
<1> QED BY <1>1, LinksInvariance, PTL
=============================================================================
