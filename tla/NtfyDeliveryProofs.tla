------------------------- MODULE NtfyDeliveryProofs -------------------------
(***************************************************************************)
(* Theorems about NtfyDelivery, for every table size, set of messages,     *)
(* retry and back-off schedule.                                            *)
(***************************************************************************)
EXTENDS NtfyDelivery, FiniteSetTheorems, WellFoundedInduction, TLAPS

-----------------------------------------------------------------------------
(* The look-ups of the table find what they look for. *)

\* A non-empty set of naturals has a least element.
LEMMA LeastNat ==
    ASSUME NEW S, S \subseteq Nat, S # {}
    PROVE  \E n \in S : \A m \in S : n <= m
<1> DEFINE R == OpToRel(<, Nat)
<1>1. IsWellFoundedOn(R, Nat)
  BY NatLessThanWellFounded
<1>2. \A x, y \in Nat : x < y => <<x, y>> \in R
  BY DEF OpToRel
<1> HIDE DEF R
<1>3. PICK n \in S : \A m \in S : ~(<<m, n>> \in R)
  BY <1>1, WFMin
<1>4. \A m \in S : ~(m < n)
  BY <1>2, <1>3
<1>5. \A m \in S : n <= m
  BY <1>4
<1> QED BY <1>5

\* The first slot of a non-empty set of slots is one of them.
LEMMA MinIn ==
    ASSUME NEW S, S \subseteq Slots, S # {}
    PROVE  Min(S) \in S
<1>1. S \subseteq Nat
  BY QueueAssumption DEF Slots
<1>2. \E n \in S : \A m \in S : n <= m
  BY <1>1, LeastNat
<1> QED BY <1>2 DEF Min

\* Among slots ranked by a natural and then by age there is a first one.
LEMMA FirstInOrder ==
    ASSUME NEW S, S \subseteq Slots, S # {},
           NEW q \in [Slots -> Item],
           NEW rank \in [S -> Nat]
    PROVE  \E i \in S : \A j \in S :
               rank[i] < rank[j] \/ (rank[i] = rank[j] /\ Older(q, i, j))
<1> DEFINE Ranks == {rank[i] : i \in S}
<1>1. PICK r \in Ranks : \A s \in Ranks : r <= s
  <2>1. Ranks \subseteq Nat /\ Ranks # {}
    OBVIOUS
  <2> HIDE DEF Ranks
  <2> QED BY <2>1, LeastNat
<1> DEFINE S1 == {i \in S : rank[i] = r}
<1>2. S1 # {} /\ S1 \subseteq Slots
  OBVIOUS
<1>3. \A j \in S : rank[j] \in Nat /\ r <= rank[j]
  BY <1>1
<1> DEFINE Ages == {q[i].created : i \in S1}
<1>4. PICK c \in Ages : \A s \in Ages : c <= s
  <2>1. Ages \subseteq Nat /\ Ages # {}
    BY <1>2 DEF Item
  <2> HIDE DEF Ages
  <2> QED BY <2>1, LeastNat
<1> DEFINE S2 == {i \in S1 : q[i].created = c}
<1>5. \A j \in S1 : q[j].created \in Nat /\ c <= q[j].created
  BY <1>2, <1>4 DEF Item
<1>6. PICK i \in S2 : \A j \in S2 : i <= j
  <2>1. S2 \subseteq Nat /\ S2 # {}
    BY QueueAssumption, <1>2, <1>4 DEF Slots
  <2> HIDE DEF S2
  <2> QED BY <2>1, LeastNat
<1>7. ASSUME NEW j \in S
      PROVE  rank[i] < rank[j] \/ (rank[i] = rank[j] /\ Older(q, i, j))
  <2>1. rank[i] = r /\ q[i].created = c /\ r \in Nat /\ c \in Nat
    BY <1>6, <1>3, <1>5
  <2>2. CASE rank[j] # r
    <3>1. rank[j] \in Nat /\ r <= rank[j]
      BY <1>3
    <3>2. rank[i] < rank[j]
      BY <2>1, <2>2, <3>1
    <3> QED BY <3>2
  <2>3. CASE rank[j] = r /\ q[j].created # c
    <3>1. c < q[j].created
      BY <2>1, <2>3, <1>5
    <3> QED BY <3>1, <2>1, <2>3 DEF Older
  <2>4. CASE rank[j] = r /\ q[j].created = c
    BY <2>1, <2>4, <1>6 DEF Older
  <2> QED BY <2>2, <2>3, <2>4
<1> QED BY <1>6, <1>7

\* What is evicted is a pending item of no more than the incoming priority.
LEMMA VictimEvictable ==
    ASSUME NEW q \in [Slots -> Item], NEW p, Evictable(q, p) # {}
    PROVE  Victim(q, p) \in Evictable(q, p)
<1> DEFINE S == Evictable(q, p)
           rank == [i \in S |-> q[i].prio]
<1>1. S \subseteq Slots /\ S # {}
  BY DEF Evictable, Pending
<1>2. rank \in [S -> Nat]
  BY <1>1 DEF Item, Prios
<1>3. \E i \in S : \A j \in S :
          rank[i] < rank[j] \/ (rank[i] = rank[j] /\ Older(q, i, j))
  <2> HIDE DEF S, rank
  <2> QED BY <1>1, <1>2, FirstInOrder
<1>4. \E i \in S : \A j \in S :
          q[i].prio < q[j].prio \/ (q[i].prio = q[j].prio /\ Older(q, i, j))
  BY <1>3
<1> QED BY <1>4 DEF Victim

\* What is picked for sending is a pending item whose time has come.
LEMMA PickEligible ==
    ASSUME NEW q \in [Slots -> Item], Eligible(q) # {}
    PROVE  PickNext(q) \in Eligible(q)
<1> DEFINE S == Eligible(q)
           rank == [i \in S |-> High - q[i].prio]
<1>1. S \subseteq Slots /\ S # {}
  BY DEF Eligible, Pending
<1>2. \A i \in S : q[i].prio \in Prios
  BY <1>1 DEF Item
<1>3. rank \in [S -> Nat]
  BY <1>2 DEF Prios, High
<1>4. \E i \in S : \A j \in S :
          rank[i] < rank[j] \/ (rank[i] = rank[j] /\ Older(q, i, j))
  <2> HIDE DEF S, rank
  <2> QED BY <1>1, <1>3, FirstInOrder
<1>5. \A i, j \in S : /\ rank[i] < rank[j] => q[i].prio > q[j].prio
                      /\ rank[i] = rank[j] => q[i].prio = q[j].prio
  BY <1>2 DEF Prios, High
<1>6. \E i \in S : \A j \in S :
          q[i].prio > q[j].prio \/ (q[i].prio = q[j].prio /\ Older(q, i, j))
  <2> HIDE DEF rank
  <2> QED BY <1>4, <1>5
<1> QED BY <1>6 DEF PickNext

\* The bookkeeping finds a pending item with the message that was sent.
LEMMA BookedHolds ==
    ASSUME NEW q, NEW idx, NEW m, NEW i \in Booked(q, idx, m)
    PROVE  i \in Holding(q, m)
<1>1. Holding(q, m) \subseteq Slots
  BY DEF Holding, Pending
<1> QED BY <1>1, MinIn DEF Booked

-----------------------------------------------------------------------------
(* The inductive invariant.  A message is found again by its text and an    *)
(* alert also by its sequence, so that the two look-ups of                  *)
(* enqueueNtfyPending agree: this is what OnePendingPerAlert rests on.      *)

\* The sequence a message is enqueued with.
SeqFor(m) == IF m \in Alerts THEN SeqOf[m] ELSE NoSeq

TableOK(q) ==
    /\ q \in [Slots -> Item]
    /\ \A i \in Pending(q) : q[i].msg \in Msgs /\ q[i].seq = SeqFor(q[i].msg)
    /\ \A i, j \in Pending(q) : i # j =>
          /\ q[i].msg # q[j].msg
          /\ q[i].seq # NoSeq => q[i].seq # q[j].seq

LocalsOK ==
    /\ loopPc # "idle" => loopMsg \in DiagMsgs
    /\ qOwner = "loop" <=> loopPc = "insert"
    /\ api \in {"post", "book"} => sending.msg \in Msgs
    /\ api # "book" => ~sending.ok

IInv ==
    /\ TypeOK
    /\ TableOK(queue)
    /\ LocalsOK
    /\ NothingOwedIsLost

-----------------------------------------------------------------------------
(* What the updates of the table preserve. *)

\* The id an item is enqueued with is a sequence id or the empty one.
LEMMA SeqForType == \A m \in Msgs : SeqFor(m) \in SeqIds \cup {NoSeq}
BY QueueAssumption DEF SeqFor, Alerts

\* A new item may take a free slot or a victim's, if neither its message nor its
\* sequence is pending elsewhere.
LEMMA InsertedOK ==
    ASSUME NEW q, TableOK(q), NEW i \in Slots, NEW m \in Msgs, NEW p \in Prios,
           NEW t \in Nat,
           Holding(q, m) = {}, Carriers(q, SeqFor(m)) = {}
    PROVE  /\ TableOK(Inserted(q, i, m, p, SeqFor(m), t))
           /\ Contents(Inserted(q, i, m, p, SeqFor(m), t))
                  = {q[j].msg : j \in Pending(q) \ {i}} \cup {m}
<1> DEFINE r == Inserted(q, i, m, p, SeqFor(m), t)
<1>1. q \in [Slots -> Item]
  BY DEF TableOK
<1>2. NewItem(m, p, SeqFor(m), t) \in Item
  BY SeqForType, QueueAssumption DEF NewItem, Item, Prios
<1>3. r \in [Slots -> Item]
  BY <1>1, <1>2 DEF Inserted
<1>4. /\ r[i] = NewItem(m, p, SeqFor(m), t)
      /\ \A j \in Slots \ {i} : r[j] = q[j]
  BY <1>1 DEF Inserted
<1> HIDE DEF r
<1>5. r[i].used /\ r[i].msg = m /\ r[i].seq = SeqFor(m)
  BY <1>4 DEF NewItem
<1>6. Pending(r) = Pending(q) \cup {i}
  BY <1>4, <1>5 DEF Pending
<1>7. \A j \in Pending(q) : q[j].msg # m /\ (SeqFor(m) # NoSeq => q[j].seq # SeqFor(m))
  BY DEF Holding, Carriers
<1>8. \A j \in Pending(r) : r[j].msg \in Msgs /\ r[j].seq = SeqFor(r[j].msg)
  BY <1>4, <1>5, <1>6 DEF TableOK, Pending
<1>9. ASSUME NEW j \in Pending(r), NEW k \in Pending(r), j # k
      PROVE  /\ r[j].msg # r[k].msg
             /\ r[j].seq # NoSeq => r[j].seq # r[k].seq
  <2>1. CASE j # i /\ k # i
    BY <2>1, <1>4, <1>6, <1>9 DEF TableOK, Pending
  <2>2. CASE j = i
    BY <2>2, <1>4, <1>5, <1>6, <1>7, <1>9 DEF Pending
  <2>3. CASE k = i
    BY <2>3, <1>4, <1>5, <1>6, <1>7, <1>9 DEF Pending
  <2> QED BY <2>1, <2>2, <2>3
<1>10. Contents(r) = {q[j].msg : j \in Pending(q) \ {i}} \cup {m}
  BY <1>4, <1>5, <1>6 DEF Contents, Pending
<1>11. TableOK(r)
  BY <1>3, <1>8, <1>9 DEF TableOK
<1> QED BY <1>10, <1>11 DEF r

\* A newer text may replace the pending one of its sequence.
LEMMA CoalescedOK ==
    ASSUME NEW q, TableOK(q), NEW m \in Msgs, NEW p \in Prios,
           NEW i \in Carriers(q, SeqFor(m))
    PROVE  /\ TableOK(Coalesced(q, i, m, p))
           /\ Contents(Coalesced(q, i, m, p))
                  = {q[j].msg : j \in Pending(q) \ {i}} \cup {m}
<1> DEFINE r == Coalesced(q, i, m, p)
<1>1. q \in [Slots -> Item]
  BY DEF TableOK
<1>2. i \in Slots /\ i \in Pending(q) /\ SeqFor(m) # NoSeq /\ q[i].seq = SeqFor(m)
  BY DEF Carriers, Pending
<1>3. r \in [Slots -> Item]
  <2> DEFINE e == [[[q[i] EXCEPT !.msg = m]
                          EXCEPT !.prio = IF p > @ THEN p ELSE @] EXCEPT !.wait = 0]
  <2>1. e \in Item
    BY <1>1, <1>2 DEF Item, Prios
  <2>2. r = [q EXCEPT ![i] = e]
    BY <1>1, <1>2 DEF Coalesced, Item
  <2> HIDE DEF e
  <2> QED BY <1>1, <2>1, <2>2
<1>4. /\ r[i].used = q[i].used /\ r[i].msg = m /\ r[i].seq = q[i].seq
      /\ \A j \in Slots \ {i} : r[j] = q[j]
  BY <1>1, <1>2 DEF Coalesced, Item
<1> HIDE DEF r
<1>5. Pending(r) = Pending(q)
  BY <1>2, <1>4 DEF Pending
<1>6. \A j \in Pending(q) : j # i => q[j].msg # m
  <2>1. \A j \in Pending(q) : j # i => q[i].seq # q[j].seq
    BY <1>2 DEF TableOK
  <2>2. \A j \in Pending(q) : q[j].seq = SeqFor(q[j].msg)
    BY DEF TableOK
  <2> QED BY <2>1, <2>2, <1>2
<1>7. \A j \in Pending(r) : r[j].msg \in Msgs /\ r[j].seq = SeqFor(r[j].msg)
  BY <1>2, <1>4, <1>5 DEF TableOK, Pending
<1>8. \A j \in Pending(r) : r[j].seq = q[j].seq
  BY <1>4, <1>5 DEF Pending
<1>9. ASSUME NEW j \in Pending(r), NEW k \in Pending(r), j # k
      PROVE  /\ r[j].msg # r[k].msg
             /\ r[j].seq # NoSeq => r[j].seq # r[k].seq
  <2>1. r[j].seq # NoSeq => r[j].seq # r[k].seq
    BY <1>5, <1>8, <1>9 DEF TableOK
  <2>2. CASE j # i /\ k # i
    BY <2>1, <2>2, <1>4, <1>5, <1>9 DEF TableOK, Pending
  <2>3. CASE j = i \/ k = i
    BY <2>1, <2>3, <1>4, <1>5, <1>6, <1>9 DEF Pending
  <2> QED BY <2>2, <2>3
<1>10. Contents(r) = {q[j].msg : j \in Pending(q) \ {i}} \cup {m}
  BY <1>2, <1>4, <1>5 DEF Contents, Pending
<1>11. TableOK(r)
  BY <1>3, <1>7, <1>9 DEF TableOK
<1> QED BY <1>10, <1>11 DEF r

\* An update that leaves used, msg and seq of every slot alone keeps the table in
\* order.
LEMMA SameItemsOK ==
    ASSUME NEW q, TableOK(q), NEW r \in [Slots -> Item],
           \A i \in Slots : r[i].used = q[i].used /\ r[i].msg = q[i].msg
                            /\ r[i].seq = q[i].seq
    PROVE  TableOK(r) /\ Contents(r) = Contents(q) /\ Pending(r) = Pending(q)
<1>1. Pending(r) = Pending(q)
  BY DEF Pending
<1>2. \A i \in Pending(q) : r[i].msg = q[i].msg /\ r[i].seq = q[i].seq
  BY DEF Pending
<1>3. TableOK(r)
  BY <1>1, <1>2 DEF TableOK
<1> QED BY <1>1, <1>2, <1>3 DEF Contents

\* A freed slot keeps the table in order, and only its own message leaves.
LEMMA ClearedOK ==
    ASSUME NEW q, TableOK(q), NEW i \in Pending(q)
    PROVE  /\ TableOK(Cleared(q, i))
           /\ Contents(Cleared(q, i)) = {q[j].msg : j \in Pending(q) \ {i}}
<1> DEFINE r == Cleared(q, i)
<1>1. q \in [Slots -> Item] /\ i \in Slots
  BY DEF TableOK, Pending
<1>2. FreeSlot \in Item
  BY QueueAssumption DEF FreeSlot, Item, Prios, Low
<1>3. r \in [Slots -> Item] /\ r[i] = FreeSlot /\ \A j \in Slots \ {i} : r[j] = q[j]
  BY <1>1, <1>2 DEF Cleared
<1> HIDE DEF r
<1>4. Pending(r) = Pending(q) \ {i}
  BY <1>3 DEF Pending, FreeSlot
<1>5. \A j \in Pending(r) : j \in Pending(q) /\ r[j] = q[j]
  BY <1>3, <1>4 DEF Pending
<1>6. TableOK(r)
  BY <1>3, <1>5 DEF TableOK
<1>7. Contents(r) = {q[j].msg : j \in Pending(q) \ {i}}
  BY <1>4, <1>5 DEF Contents
<1> QED BY <1>6, <1>7 DEF r

\* An item put off to its next attempt stays in the table, retryCount wrapped.
LEMMA PostponedOK ==
    ASSUME NEW q, TableOK(q), NEW i \in Pending(q), NEW elapsed \in Nat, NEW b \in Nat
    PROVE  /\ TableOK(Postponed(q, i, elapsed, b))
           /\ Contents(Postponed(q, i, elapsed, b)) = Contents(q)
<1> DEFINE r == Postponed(q, i, elapsed, b)
           n == (q[i].retry + 1) % RetryMod
           w == LaterOf(LeftOf(DelayAfter(n), elapsed), b)
<1>1. q \in [Slots -> Item] /\ i \in Slots
  BY DEF TableOK, Pending
<1>2. q[i] \in Item /\ q[i].retry \in Nat
  BY <1>1, QueueAssumption DEF Item
<1>3. n \in 0 .. RetryMod - 1
  BY <1>2, QueueAssumption
<1>4. w \in Nat
  <2> HIDE DEF n
  <2>1. DelayAfter(n) \in Nat
    BY <1>3, QueueAssumption DEF DelayAfter
  <2> QED BY <2>1 DEF LaterOf, LeftOf
<1>5. r = [q EXCEPT ![i].retry = n, ![i].wait = w]
  BY DEF Postponed
<1> HIDE DEF r, n, w
<1> DEFINE e == [q[i] EXCEPT !.retry = n, !.wait = w]
<1>6. e \in Item /\ e.used = q[i].used /\ e.msg = q[i].msg /\ e.seq = q[i].seq
  BY <1>2, <1>3, <1>4 DEF Item
<1>7. r = [q EXCEPT ![i] = e]
  BY <1>1, <1>2, <1>5 DEF Item
<1> HIDE DEF e
<1>8. r \in [Slots -> Item]
  BY <1>1, <1>6, <1>7
<1>9. \A j \in Slots : r[j].used = q[j].used /\ r[j].msg = q[j].msg /\ r[j].seq = q[j].seq
  BY <1>1, <1>6, <1>7
<1> QED BY <1>8, <1>9, SameItemsOK DEF r

\* The creation times in the table are finitely many.
LEMMA StampsFinite ==
    ASSUME NEW q \in [Slots -> Item]
    PROVE  /\ Cardinality(Stamps(q)) \in Nat
           /\ \A t : Rank(q, t) \in Nat
<1>1. IsFiniteSet(Slots)
  BY QueueAssumption, FS_Interval DEF Slots
<1>2. Pending(q) \subseteq Slots
  BY DEF Pending
<1>3. IsFiniteSet(Pending(q))
  BY <1>1, <1>2, FS_Subset
<1> DEFINE f == [i \in Pending(q) |-> q[i].created]
<1>4. f \in Surjection(Pending(q), Stamps(q))
  BY DEF Surjection, Stamps
<1>5. IsFiniteSet(Stamps(q))
  BY <1>3, <1>4, FS_Surjection
<1>6. \A t : IsFiniteSet({x \in Stamps(q) : x < t})
  BY <1>5, FS_Subset
<1> QED BY <1>5, <1>6, FS_CardinalityType DEF Rank

\* Time passing changes waits and ranks and nothing else.
LEMMA AgedOK ==
    ASSUME NEW q, TableOK(q)
    PROVE  TableOK(Aged(q)) /\ Contents(Aged(q)) = Contents(q)
<1> DEFINE e(i) == [q[i] EXCEPT !.created = Rank(q, @), !.wait = LeftOf(@, 1)]
<1>1. q \in [Slots -> Item]
  BY DEF TableOK
<1>2. ASSUME NEW i \in Slots
      PROVE  e(i) \in Item /\ e(i).used = q[i].used /\ e(i).msg = q[i].msg
             /\ e(i).seq = q[i].seq
  <2>1. q[i] \in Item /\ Rank(q, q[i].created) \in Nat
    BY <1>1, StampsFinite
  <2>2. LeftOf(q[i].wait, 1) \in Nat
    BY <2>1 DEF Item, LeftOf
  <2> QED BY <2>1, <2>2 DEF Item
<1>3. \A i \in Slots : Aged(q)[i] = IF q[i].used THEN e(i) ELSE q[i]
  BY DEF Aged
<1> HIDE DEF e
<1>4. \A i \in Slots : /\ Aged(q)[i] \in Item
                       /\ Aged(q)[i].used = q[i].used
                       /\ Aged(q)[i].msg = q[i].msg
                       /\ Aged(q)[i].seq = q[i].seq
  BY <1>1, <1>2, <1>3
<1>5. Aged(q) \in [Slots -> Item]
  BY <1>4 DEF Aged
<1> QED BY <1>4, <1>5, SameItemsOK

\* enqueueNtfyPending keeps the table in order and every accepted message in it.
LEMMA EnqueueOK ==
    ASSUME TableOK(queue), stamp \in Nat, NothingOwedIsLost,
           owed \subseteq Msgs, answered \subseteq Msgs,
           NEW m \in Msgs, NEW p \in Prios, Enqueue(m, p, SeqFor(m))
    PROVE  /\ TableOK(queue')
           /\ NothingOwedIsLost'
           /\ owed' \subseteq Msgs /\ answered' \subseteq Msgs
<1> DEFINE s == SeqFor(m)
<1>1. ASSUME NEW gone, Accepted(m, gone)
      PROVE  owed' \subseteq Msgs /\ answered' \subseteq Msgs
  BY <1>1 DEF Accepted
<1>2. ASSUME NEW i \in Pending(queue), Accepted(m, {queue[i].msg}), TableOK(queue'),
             Contents(queue') = {queue[j].msg : j \in Pending(queue) \ {i}} \cup {m}
      PROVE  NothingOwedIsLost'
  BY <1>2 DEF NothingOwedIsLost, Accepted, Contents
<1>3. CASE Carriers(queue, s) # {}
  <2> DEFINE i == Min(Carriers(queue, s))
  <2>1. i \in Carriers(queue, s) /\ i \in Pending(queue)
    BY <1>3, MinIn DEF Carriers, Pending
  <2>2. queue' = Coalesced(queue, i, m, p) /\ Accepted(m, {queue[i].msg})
    BY <1>3 DEF Enqueue
  <2> HIDE DEF i
  <2> QED BY <2>1, <2>2, <1>1, <1>2, CoalescedOK
<1>4. CASE Carriers(queue, s) = {} /\ Holding(queue, m) # {}
  <2>1. UNCHANGED queue /\ Accepted(m, {})
    BY <1>4 DEF Enqueue
  <2>2. m \in Contents(queue)
    BY <1>4 DEF Holding, Contents
  <2> QED BY <2>1, <2>2, <1>1 DEF NothingOwedIsLost, Accepted
<1>5. CASE /\ Carriers(queue, s) = {}
           /\ Holding(queue, m) = {}
           /\ FreeSlots(queue) # {}
  <2> DEFINE i == Min(FreeSlots(queue))
  <2>1. i \in Slots /\ i \notin Pending(queue)
    BY <1>5, MinIn DEF FreeSlots
  <2>2. queue' = Inserted(queue, i, m, p, s, stamp) /\ Accepted(m, {})
    BY <1>5 DEF Enqueue
  <2> HIDE DEF i
  <2>3. /\ TableOK(queue')
        /\ Contents(queue') = {queue[j].msg : j \in Pending(queue) \ {i}} \cup {m}
    BY <2>1, <2>2, <1>5, InsertedOK
  <2>4. Contents(queue') = Contents(queue) \cup {m}
    BY <2>1, <2>3 DEF Contents
  <2> QED BY <2>2, <2>3, <2>4, <1>1 DEF NothingOwedIsLost, Accepted
<1>6. CASE /\ Carriers(queue, s) = {}
           /\ Holding(queue, m) = {}
           /\ FreeSlots(queue) = {}
           /\ Evictable(queue, p) # {}
  <2> DEFINE i == Victim(queue, p)
  <2>1. i \in Slots /\ i \in Pending(queue)
    BY <1>6, VictimEvictable DEF TableOK, Evictable, Pending
  <2>2. queue' = Inserted(queue, i, m, p, s, stamp) /\ Accepted(m, {queue[i].msg})
    BY <1>6 DEF Enqueue
  <2> HIDE DEF i
  <2>3. /\ TableOK(queue')
        /\ Contents(queue') = {queue[j].msg : j \in Pending(queue) \ {i}} \cup {m}
    BY <2>1, <2>2, <1>6, InsertedOK
  <2> QED BY <2>1, <2>2, <2>3, <1>1, <1>2
<1>7. CASE /\ Carriers(queue, s) = {}
           /\ Holding(queue, m) = {}
           /\ FreeSlots(queue) = {}
           /\ Evictable(queue, p) = {}
  BY <1>7 DEF Enqueue, history, NothingOwedIsLost
<1> QED BY <1>3, <1>4, <1>5, <1>6, <1>7

-----------------------------------------------------------------------------
(* The invariant holds initially and is kept by every step. *)

\* At start-up the table is empty and nothing is owed.
LEMMA InitOK == Init => IInv
<1> SUFFICES ASSUME Init PROVE IInv
  OBVIOUS
<1>1. FreeSlot \in Item /\ ~FreeSlot.used
  BY QueueAssumption DEF FreeSlot, Item, Prios, Low
<1>2. queue \in [Slots -> Item] /\ Pending(queue) = {}
  BY <1>1 DEF Init, EmptyQueue, Pending
<1>3. TableOK(queue)
  BY <1>2 DEF TableOK
<1>4. TypeOK
  BY <1>2, QueueAssumption, DeliveryAssumption
     DEF Init, TypeOK, ApiStates, NotSending, Slots
<1>5. LocalsOK /\ NothingOwedIsLost
  BY DEF Init, LocalsOK, NothingOwedIsLost, NotSending
<1> QED BY <1>3, <1>4, <1>5 DEF IInv

\* The steps that leave the table and the history alone.
LEMMA QuietOK ==
    ASSUME IInv, UNCHANGED <<queue, history>>, TypeOK', LocalsOK'
    PROVE  IInv'
BY DEF IInv, TableOK, NothingOwedIsLost, history

\* One step per action of apiTask, loop(), the clock, WiFi and the boot block.
LEMMA StepOK == IInv /\ [Next]_vars => IInv'
<1> SUFFICES ASSUME IInv, [Next]_vars PROVE IInv'
  OBVIOUS
<1> USE DEF IInv
<1> USE DEF ApiStates
<1>a. NotSending \in [idx : Slots, msg : Msgs \cup {NoMsg}, elapsed : 0 .. MaxSend,
                      ok : BOOLEAN]
  BY QueueAssumption, DeliveryAssumption DEF NotSending, Slots
<1>1. CASE ApiEnterExclusive
  BY <1>1, QuietOK DEF ApiEnterExclusive, TypeOK, LocalsOK, qvars, netvars, env,
                       loopvars, history
<1>2. CASE ApiFetch
  BY <1>2, QuietOK DEF ApiFetch, TypeOK, LocalsOK, qvars, netvars, env, loopvars, history
<1>3. CASE ApiFetchDone
  BY <1>3, QuietOK DEF ApiFetchDone, TypeOK, LocalsOK, qvars, netvars, env, loopvars,
                       history
<1>4. CASE ApiWsStopped
  BY <1>4, QuietOK DEF ApiWsStopped, TypeOK, LocalsOK, qvars, netvars, env, loopvars,
                       history
<1>5. CASE ApiPick
  <2> DEFINE i == PickNext(queue)
  <2>1. i \in Slots /\ i \in Pending(queue)
    BY <1>5, PickEligible DEF ApiPick, CanPick, TypeOK, Eligible, Pending
  <2>2. queue[i].msg \in Msgs
    BY <2>1 DEF TableOK
  <2>3. sending' = [idx |-> i, msg |-> queue[i].msg, elapsed |-> 0, ok |-> FALSE]
    BY <1>5 DEF ApiPick
  <2> HIDE DEF i
  <2>4. sending' \in [idx : Slots, msg : Msgs \cup {NoMsg}, elapsed : 0 .. MaxSend,
                      ok : BOOLEAN]
    BY <2>1, <2>2, <2>3, DeliveryAssumption
  <2>5. sending'.msg \in Msgs
    BY <2>2, <2>3
  <2> QED BY <1>5, <2>4, <2>5, QuietOK
             DEF ApiPick, TypeOK, LocalsOK, qvars, netvars, env, loopvars, history
<1>6. CASE ApiPickNothing
  BY <1>6, QuietOK DEF ApiPickNothing, TypeOK, LocalsOK, qvars, netvars, env, loopvars,
                       history
<1>7. CASE ApiRefused
  BY <1>7, QuietOK DEF ApiRefused, TypeOK, LocalsOK, qvars, netvars, env, loopvars,
                       history
<1>8. CASE ApiPostOk
  <2>1. sending' \in [idx : Slots, msg : Msgs \cup {NoMsg}, elapsed : 0 .. MaxSend,
                      ok : BOOLEAN] /\ sending'.msg = sending.msg
    BY <1>8 DEF ApiPostOk, TypeOK
  <2>2. answered' \subseteq Msgs
    BY <1>8 DEF ApiPostOk, TypeOK, LocalsOK
  <2> QED BY <1>8, <2>1, <2>2, DeliveryAssumption
             DEF ApiPostOk, TypeOK, LocalsOK, TableOK, NothingOwedIsLost, qvars, env,
                 loopvars
<1>9. CASE ApiRateLimited
  <2>1. backoff' \in Nat
    BY <1>9, DeliveryAssumption DEF ApiRateLimited
  <2> QED BY <1>9, <2>1, QuietOK
             DEF ApiRateLimited, TypeOK, LocalsOK, qvars, env, loopvars, history
<1>10. CASE ApiPostFailed
  <2>1. streak' \in 1 .. MaxStreak
    BY <1>10, DeliveryAssumption DEF ApiPostFailed, TypeOK
  <2>2. Backoff[streak'] \in Nat /\ sending.elapsed \in Nat
    BY <2>1, DeliveryAssumption DEF TypeOK
  <2>3. backoff' \in Nat
    BY <1>10, <2>2 DEF ApiPostFailed, LeftOf
  <2> QED BY <1>10, <2>1, <2>3, QuietOK
             DEF ApiPostFailed, TypeOK, LocalsOK, qvars, env, loopvars, history
<1>11. CASE ApiBook
  <2> DEFINE found == Booked(queue, sending.idx, sending.msg)
  <2>1. sending.elapsed \in Nat /\ backoff \in Nat
    BY DeliveryAssumption DEF TypeOK
  <2>2. \A i \in found : i \in Pending(queue) /\ queue[i].msg = sending.msg
    BY BookedHolds DEF Holding
  <2>3. TableOK(queue') /\ NothingOwedIsLost'
    <3>1. CASE UNCHANGED queue /\ found = {}
      <4>1. owed' \subseteq owed
        BY <1>11 DEF ApiBook
      <4> QED BY <3>1, <4>1 DEF NothingOwedIsLost, TableOK
    <3>2. CASE \E i \in found : Bookkeep(i)
      <4> PICK i \in found : Bookkeep(i)
        BY <3>2
      <4>1. i \in Pending(queue) /\ queue[i].msg = sending.msg
        BY <2>2
      <4>2. CASE sending.ok
        <5>1. queue' = Cleared(queue, i) /\ owed' = owed \ {queue[i].msg}
          BY <1>11, <4>1, <4>2 DEF ApiBook, Bookkeep
        <5>2. /\ TableOK(queue')
              /\ Contents(queue') = {queue[j].msg : j \in Pending(queue) \ {i}}
          BY <4>1, <5>1, ClearedOK
        <5> QED BY <5>1, <5>2 DEF NothingOwedIsLost, Contents
      <4>3. CASE ~sending.ok
        <5>1. queue' = Postponed(queue, i, sending.elapsed, backoff) /\ owed' = owed
          BY <1>11, <4>3 DEF ApiBook, Bookkeep
        <5>2. TableOK(queue') /\ Contents(queue') = Contents(queue)
          BY <2>1, <4>1, <5>1, PostponedOK
        <5> QED BY <5>1, <5>2 DEF NothingOwedIsLost
      <4> QED BY <4>2, <4>3
    <3> QED BY <1>11, <3>1, <3>2 DEF ApiBook
  <2>4. TypeOK'
    BY <1>11, <2>3, <1>a DEF ApiBook, TypeOK, TableOK, netvars, env, loopvars
  <2>5. LocalsOK'
    BY <1>11 DEF ApiBook, LocalsOK, loopvars, NotSending
  <2> QED BY <2>3, <2>4, <2>5
<1>12. CASE ApiBookSkipped
  BY <1>12, <1>a, QuietOK DEF ApiBookSkipped, TypeOK, LocalsOK, NotSending, qvars,
                              netvars, env, loopvars, history
<1>13. CASE ApiRestarted
  BY <1>13, QuietOK DEF ApiRestarted, TypeOK, LocalsOK, qvars, netvars, env, loopvars,
                        history
<1>14. ASSUME NEW m \in Alerts, ApiAlert(m)
       PROVE  IInv'
  <2>1. m \in Msgs /\ SeqFor(m) = SeqOf[m] /\ High \in Prios
    BY DEF Alerts, SeqFor, High, Prios
  <2>2. /\ TableOK(queue') /\ NothingOwedIsLost'
        /\ owed' \subseteq Msgs /\ answered' \subseteq Msgs
    BY <1>14, <2>1, EnqueueOK DEF ApiAlert, TypeOK
  <2> QED BY <1>14, <2>2
             DEF ApiAlert, TypeOK, LocalsOK, TableOK, netvars, env, loopvars
<1>15. ASSUME NEW m \in DiagMsgs, LoopTestDue(m)
       PROVE  IInv'
  BY <1>15, QuietOK DEF LoopTestDue, TypeOK, LocalsOK, qvars, netvars, env, history
<1>16. CASE LoopLock
  BY <1>16, QuietOK DEF LoopLock, TypeOK, LocalsOK, netvars, env, history
<1>17. CASE LoopLockTimeout
  BY <1>17, QuietOK DEF LoopLockTimeout, TypeOK, LocalsOK, qvars, netvars, env, history
<1>18. CASE LoopInsert
  <2>1. loopMsg \in DiagMsgs /\ loopMsg \in Msgs
    BY <1>18, DeliveryAssumption DEF LoopInsert, LocalsOK
  <2>2. SeqFor(loopMsg) = NoSeq /\ Low \in Prios
    BY <2>1 DEF Alerts, SeqFor, Low, Prios
  <2>3. /\ TableOK(queue') /\ NothingOwedIsLost'
        /\ owed' \subseteq Msgs /\ answered' \subseteq Msgs
    BY <1>18, <2>1, <2>2, EnqueueOK DEF LoopInsert, TypeOK
  <2> QED BY <1>18, <2>3 DEF LoopInsert, TypeOK, LocalsOK, TableOK, netvars, env
<1>19. CASE Tick
  <2>1. TableOK(queue') /\ Contents(queue') = Contents(queue)
    BY <1>19, AgedOK DEF Tick
  <2>2. stamp' \in Nat
    BY <1>19, StampsFinite DEF Tick, TypeOK
  <2>3. backoff' \in Nat
    BY <1>19 DEF Tick, TypeOK, LeftOf
  <2>4. sending' \in [idx : Slots, msg : Msgs \cup {NoMsg}, elapsed : 0 .. MaxSend,
                      ok : BOOLEAN] /\ sending'.msg = sending.msg
    BY <1>19, DeliveryAssumption DEF Tick, TypeOK
  <2> QED BY <1>19, <2>1, <2>2, <2>3, <2>4
             DEF Tick, TypeOK, LocalsOK, TableOK, NothingOwedIsLost, env, loopvars,
                 history
<1>20. CASE WifiLost
  BY <1>20, QuietOK DEF WifiLost, TypeOK, LocalsOK, qvars, netvars, loopvars, history
<1>21. CASE WifiBack
  BY <1>21, QuietOK DEF WifiBack, TypeOK, LocalsOK, qvars, netvars, loopvars, history
<1>22. CASE BootRelease
  BY <1>22, QuietOK DEF BootRelease, TypeOK, LocalsOK, qvars, netvars, loopvars, history
<1>23. CASE UNCHANGED vars
  BY <1>23, QuietOK DEF vars, TypeOK, LocalsOK, qvars, netvars, env, loopvars, history
<1> QED
  BY <1>1, <1>2, <1>3, <1>4, <1>5, <1>6, <1>7, <1>8, <1>9, <1>10, <1>11, <1>12, <1>13,
     <1>14, <1>15, <1>16, <1>17, <1>18, <1>19, <1>20, <1>21, <1>22, <1>23
     DEF Next, ApiStep, LoopStep

\* The invariant holds in every reachable state.
THEOREM Invariance == Spec => []IInv
BY InitOK, StepOK, PTL DEF Spec

\* Every variable of the delivery keeps its type, whatever the schedule.
THEOREM TypeCorrect == Spec => []TypeOK
<1>1. IInv => TypeOK
  BY DEF IInv
<1> QED BY <1>1, Invariance, PTL

\* No message and no alert sequence is ever pending twice.
THEOREM OnePending == Spec => []OnePendingPerAlert
<1>1. IInv => OnePendingPerAlert
  BY DEF IInv, TableOK, OnePendingPerAlert
<1> QED BY <1>1, Invariance, PTL

\* An accepted notification is pending until it is confirmed, replaced or evicted.
THEOREM NothingLost == Spec => []NothingOwedIsLost
<1>1. IInv => NothingOwedIsLost
  BY DEF IInv
<1> QED BY <1>1, Invariance, PTL

\* No POST starts before the global back-off is over.
THEOREM BackoffRespected == Spec => SilentDuringBackoff
<1>1. IInv /\ [Next]_vars => [api # "post" /\ api' = "post" => backoff = 0]_vars
  <2> SUFFICES ASSUME IInv, Next, api # "post", api' = "post"
               PROVE  backoff = 0
    OBVIOUS
  <2>1. ApiPick
    BY DEF Next, ApiStep, LoopStep, ApiEnterExclusive, ApiFetch, ApiAlert, ApiFetchDone,
           ApiWsStopped, ApiPickNothing, ApiRefused, ApiPostOk, ApiRateLimited,
           ApiPostFailed, ApiBook, ApiBookSkipped, ApiRestarted, LoopTestDue, LoopLock,
           LoopLockTimeout, LoopInsert, Tick, WifiLost, WifiBack, BootRelease
  <2> QED BY <2>1 DEF ApiPick, CanPick, BackoffActive, IInv, TypeOK
<1> QED BY <1>1, Invariance, PTL DEF Spec, SilentDuringBackoff

-----------------------------------------------------------------------------
(* What an enqueue does to the table, for the properties that compare the   *)
(* table before and after a step.                                           *)

\* The table is as it was, or one slot holds the message now, with at least the priority
\* it came with and at least that of the item it has taken the place of.
LEMMA EnqueueStep ==
    ASSUME TableOK(queue), stamp \in Nat,
           NEW m \in Msgs, NEW p \in Prios, Enqueue(m, p, SeqFor(m))
    PROVE  \/ queue' = queue
           \/ \E i \in Slots :
                 /\ Pending(queue') = Pending(queue) \cup {i}
                 /\ \A j \in Slots \ {i} : queue'[j] = queue[j]
                 /\ queue'[i].msg = m /\ queue'[i].prio \in Prios
                 /\ i \in Pending(queue) =>
                       /\ queue[i].prio <= queue'[i].prio
                       /\ SeqFor(m) = NoSeq => queue[i].prio <= p
<1> DEFINE s == SeqFor(m)
<1>1. queue \in [Slots -> Item]
  BY DEF TableOK
<1>2. CASE Carriers(queue, s) # {}
  <2> DEFINE i == Min(Carriers(queue, s))
  <2>1. i \in Slots /\ i \in Pending(queue) /\ s # NoSeq
    BY <1>2, MinIn DEF Carriers, Pending
  <2>2. queue' = Coalesced(queue, i, m, p)
    BY <1>2 DEF Enqueue
  <2> HIDE DEF i
  <2>3. queue[i].prio \in Nat /\ p \in Nat /\ queue[i].prio \in Prios
    BY <1>1, <2>1 DEF Item, Prios
  <2>4. /\ queue'[i].used = queue[i].used /\ queue'[i].msg = m
        /\ queue'[i].prio = IF p > queue[i].prio THEN p ELSE queue[i].prio
        /\ \A j \in Slots \ {i} : queue'[j] = queue[j]
    BY <1>1, <2>1, <2>2 DEF Coalesced, Item
  <2>5. Pending(queue') = Pending(queue) \cup {i}
    BY <2>1, <2>4 DEF Pending
  <2> QED BY <2>1, <2>3, <2>4, <2>5
<1>3. ASSUME NEW i \in Slots, queue' = Inserted(queue, i, m, p, s, stamp)
      PROVE  /\ Pending(queue') = Pending(queue) \cup {i}
             /\ \A j \in Slots \ {i} : queue'[j] = queue[j]
             /\ queue'[i].msg = m /\ queue'[i].prio = p
  <2>1. /\ queue'[i] = NewItem(m, p, s, stamp)
        /\ \A j \in Slots \ {i} : queue'[j] = queue[j]
    BY <1>1, <1>3 DEF Inserted
  <2> QED BY <2>1 DEF NewItem, Pending
<1>4. CASE Carriers(queue, s) = {} /\ Holding(queue, m) # {}
  BY <1>4 DEF Enqueue
<1>5. CASE Carriers(queue, s) = {} /\ Holding(queue, m) = {} /\ FreeSlots(queue) # {}
  <2> DEFINE i == Min(FreeSlots(queue))
  <2>1. i \in Slots /\ i \notin Pending(queue)
    BY <1>5, MinIn DEF FreeSlots
  <2>2. queue' = Inserted(queue, i, m, p, s, stamp)
    BY <1>5 DEF Enqueue
  <2> HIDE DEF i
  <2> QED BY <1>3, <2>1, <2>2
<1>6. CASE /\ Carriers(queue, s) = {} /\ Holding(queue, m) = {}
           /\ FreeSlots(queue) = {} /\ Evictable(queue, p) # {}
  <2> DEFINE i == Victim(queue, p)
  <2>1. i \in Slots /\ i \in Pending(queue) /\ queue[i].prio <= p
    BY <1>1, <1>6, VictimEvictable DEF Evictable, Pending
  <2>2. queue' = Inserted(queue, i, m, p, s, stamp)
    BY <1>6 DEF Enqueue
  <2> HIDE DEF i
  <2> QED BY <1>3, <2>1, <2>2
<1>7. CASE /\ Carriers(queue, s) = {} /\ Holding(queue, m) = {}
           /\ FreeSlots(queue) = {} /\ Evictable(queue, p) = {}
  BY <1>7 DEF Enqueue
<1> QED BY <1>2, <1>4, <1>5, <1>6, <1>7

\* Time passing changes neither what is pending nor its priority.
LEMMA AgedItems ==
    ASSUME NEW q \in [Slots -> Item]
    PROVE  \A i \in Slots : /\ Aged(q)[i].used = q[i].used
                            /\ Aged(q)[i].msg = q[i].msg
                            /\ Aged(q)[i].prio = q[i].prio
BY DEF Aged, Item

\* Nor does the postponement of an item.
LEMMA PostponedItems ==
    ASSUME NEW q \in [Slots -> Item], NEW i \in Slots, NEW elapsed, NEW b
    PROVE  \A j \in Slots : /\ Postponed(q, i, elapsed, b)[j].used = q[j].used
                            /\ Postponed(q, i, elapsed, b)[j].msg = q[j].msg
                            /\ Postponed(q, i, elapsed, b)[j].prio = q[j].prio
BY DEF Postponed, Item

\* What the bookkeeping leaves: without an OK the same items, with an OK all but the
\* one with the message that was sent.
LEMMA BookedItems ==
    ASSUME IInv, ApiBook
    PROVE  /\ ~sending.ok =>
                 \A j \in Slots : /\ queue'[j].used = queue[j].used
                                  /\ queue'[j].msg = queue[j].msg
                                  /\ queue'[j].prio = queue[j].prio
           /\ sending.ok =>
                 /\ Pending(queue') = Pending(queue) \ Holding(queue, sending.msg)
                 /\ \A j \in Slots \ Holding(queue, sending.msg) : queue'[j] = queue[j]
<1> DEFINE found == Booked(queue, sending.idx, sending.msg)
<1>1. queue \in [Slots -> Item]
  BY DEF IInv, TableOK
<1>2. CASE found = {} /\ queue' = queue
  <2>1. Holding(queue, sending.msg) = {}
    BY <1>2 DEF Booked
  <2> QED BY <1>2, <2>1
<1>3. ASSUME NEW i \in found, Bookkeep(i)
      PROVE  /\ ~sending.ok =>
                   \A j \in Slots : /\ queue'[j].used = queue[j].used
                                    /\ queue'[j].msg = queue[j].msg
                                    /\ queue'[j].prio = queue[j].prio
             /\ sending.ok =>
                   /\ Pending(queue') = Pending(queue) \ Holding(queue, sending.msg)
                   /\ \A j \in Slots \ Holding(queue, sending.msg) : queue'[j] = queue[j]
  <2>1. i \in Holding(queue, sending.msg) /\ i \in Pending(queue) /\ i \in Slots
        /\ queue[i].msg = sending.msg
    BY BookedHolds DEF Holding, Pending
  <2>2. Holding(queue, sending.msg) = {i}
    BY <2>1 DEF IInv, TableOK, Holding
  <2>3. CASE sending.ok
    <3>1. queue' = Cleared(queue, i)
      BY <1>3, <2>3 DEF Bookkeep
    <3>2. queue'[i] = FreeSlot /\ \A j \in Slots \ {i} : queue'[j] = queue[j]
      BY <1>1, <2>1, <3>1 DEF Cleared
    <3> QED BY <2>2, <2>3, <3>2 DEF Pending, FreeSlot
  <2>4. CASE ~sending.ok
    BY <1>1, <1>3, <2>1, <2>4, PostponedItems DEF Bookkeep
  <2> QED BY <2>3, <2>4
<1> QED BY <1>2, <1>3 DEF ApiBook

\* The steps of NtfyDelivery that may write the table.
LEMMA QueueWriters ==
    ASSUME [Next]_vars, queue' # queue
    PROVE  \/ ApiBook
           \/ \E m \in Alerts : ApiAlert(m)
           \/ LoopInsert
           \/ Tick
BY DEF Next, ApiStep, LoopStep, ApiEnterExclusive, ApiFetch, ApiFetchDone, ApiWsStopped,
       ApiPick, ApiPickNothing, ApiRefused, ApiPostOk, ApiRateLimited, ApiPostFailed,
       ApiBookSkipped, ApiRestarted, LoopTestDue, LoopLock, LoopLockTimeout, WifiLost,
       WifiBack, BootRelease, vars, qvars

\* A pending alert is taken out of its slot by a new alert or by the bookkeeping
\* of its own confirmed POST, never by a test message, the clock or the network.
THEOREM TestsNeverCost == Spec => TestsNeverCostAnAlert
<1> DEFINE Paid(i) ==
       (queue[i].used /\ queue[i].prio = High /\ queue'[i].msg # queue[i].msg)
       => \/ api = "fetch"
          \/ api = "book" /\ sending.ok /\ sending.msg = queue[i].msg
<1>1. IInv /\ [Next]_vars => [\A i \in Slots : Paid(i)]_vars
  <2> SUFFICES ASSUME IInv, [Next]_vars, queue' # queue, NEW i \in Slots
               PROVE  Paid(i)
    OBVIOUS
  <2>0. queue \in [Slots -> Item]
    BY DEF IInv, TableOK
  <2>1. CASE ApiBook
    <3>1. CASE sending.ok /\ i \in Holding(queue, sending.msg)
      BY <2>1, <3>1 DEF ApiBook, Holding
    <3>2. CASE ~(sending.ok /\ i \in Holding(queue, sending.msg))
      <4>1. queue'[i].msg = queue[i].msg
        BY <2>1, <3>2, BookedItems
      <4> QED BY <4>1
    <3> QED BY <3>1, <3>2
  <2>2. CASE \E m \in Alerts : ApiAlert(m)
    BY <2>2 DEF ApiAlert
  <2>3. CASE LoopInsert
    <3>1. loopMsg \in DiagMsgs /\ loopMsg \in Msgs
      BY <2>3, DeliveryAssumption DEF LoopInsert, IInv, LocalsOK
    <3>2. SeqFor(loopMsg) = NoSeq /\ Low \in Prios
      BY <3>1 DEF SeqFor, Alerts, Low, Prios
    <3>3. Enqueue(loopMsg, Low, SeqFor(loopMsg))
      BY <2>3, <3>2 DEF LoopInsert
    <3>4. PICK k \in Slots :
              /\ \A j \in Slots \ {k} : queue'[j] = queue[j]
              /\ k \in Pending(queue) => queue[k].prio <= Low
      BY <3>1, <3>2, <3>3, EnqueueStep DEF IInv, TypeOK
    <3>5. CASE i = k
      BY <3>4, <3>5 DEF Pending, Low, High
    <3>6. CASE i # k
      BY <3>4, <3>6
    <3> QED BY <3>5, <3>6
  <2>4. CASE Tick
    BY <2>0, <2>4, AgedItems DEF Tick
  <2> QED BY <2>1, <2>2, <2>3, <2>4, QueueWriters
<1> QED BY <1>1, Invariance, PTL DEF Spec, TestsNeverCostAnAlert

-----------------------------------------------------------------------------
(* At most once in the production build: loop() adds nothing, the mutex is  *)
(* free whenever apiTask wants it, and the bookkeeping is never skipped.    *)

ProductionOK ==
    /\ qOwner = "none"
    /\ loopPc = "idle"
    /\ answered \subseteq (IF api = "book" /\ sending.ok THEN {sending.msg} ELSE {})

\* Between two POSTs nothing that was answered OK is pending.
LEMMA ProductionStep ==
    ASSUME ~DiagRuntime, IInv, ProductionOK, [Next]_vars
    PROVE  ProductionOK'
<1> USE DEF ProductionOK
<1>1. CASE ApiBook
  <2>1. CASE sending.ok
    <3>1. sending.msg \notin Contents(queue')
      BY <1>1, <2>1, BookedItems DEF Contents, Pending, Holding
    <3> QED BY <1>1, <2>1, <3>1 DEF ApiBook, loopvars
  <2>2. CASE ~sending.ok
    BY <1>1, <2>2 DEF ApiBook, loopvars
  <2> QED BY <2>1, <2>2
<1>2. ASSUME NEW m \in Alerts, ApiAlert(m) PROVE ProductionOK'
  <2>1. answered' \subseteq answered
    BY <1>2 DEF ApiAlert, Enqueue, Accepted, history
  <2> QED BY <1>2, <2>1 DEF ApiAlert, loopvars
<1>3. CASE ApiPostOk
  BY <1>3 DEF ApiPostOk, IInv, TypeOK, qvars, loopvars
<1>4. CASE Tick
  BY <1>4 DEF Tick, IInv, TypeOK, loopvars, history
<1>5. CASE \/ ApiEnterExclusive \/ ApiFetch \/ ApiFetchDone \/ ApiWsStopped \/ ApiPick
           \/ ApiPickNothing \/ ApiRefused \/ ApiRateLimited \/ ApiPostFailed
           \/ ApiRestarted
  BY <1>5 DEF ApiEnterExclusive, ApiFetch, ApiFetchDone, ApiWsStopped, ApiPick,
              ApiPickNothing, ApiRefused, ApiRateLimited, ApiPostFailed, ApiRestarted,
              qvars, loopvars, history, IInv, LocalsOK
<1>6. CASE ApiBookSkipped \/ LoopStep \/ \E m \in DiagMsgs : LoopTestDue(m)
  BY <1>6 DEF ApiBookSkipped, LoopStep, LoopLock, LoopLockTimeout, LoopInsert,
              LoopTestDue
<1>7. CASE WifiLost \/ WifiBack \/ BootRelease \/ UNCHANGED vars
  BY <1>7 DEF WifiLost, WifiBack, BootRelease, vars, qvars, loopvars, history
<1> QED
  BY <1>1, <1>2, <1>3, <1>4, <1>5, <1>6, <1>7 DEF Next, ApiStep

\* In the production build a notification answered OK is not POSTed again unless it
\* was raised again.
THEOREM NoResend ==
    ASSUME ~DiagRuntime
    PROVE  Spec => []NeverResentAfterOk
<1>1. Init => ProductionOK
  BY DEF Init, ProductionOK
<1>2. IInv /\ ProductionOK /\ [Next]_vars => ProductionOK'
  BY ProductionStep
<1>3. ProductionOK => NeverResentAfterOk
  BY DEF ProductionOK, NeverResentAfterOk
<1> QED BY <1>1, <1>2, <1>3, Invariance, PTL DEF Spec

-----------------------------------------------------------------------------
(* The table implements the outbox: an enqueue submits, a POST answered OK  *)
(* confirms, the bookkeeping after it retires; the rest is invisible.       *)

\* The box a table stands for.
Box(q) == {[msg |-> q[i].msg, prio |-> q[i].prio] : i \in Pending(q)}

\* The message of the bookkeeping to come, when its POST was answered OK.
JustConfirmed == IF api = "book" /\ sending.ok THEN sending.msg ELSE NoMsg

\* A table never stands for more entries than it has slots.
LEMMA BoxFits ==
    ASSUME NEW q
    PROVE  Cardinality(Box(q)) <= QSize
<1>1. IsFiniteSet(Slots) /\ Cardinality(Slots) = QSize
  <2>1. \A n \in Int : /\ IsFiniteSet(0 .. n)
                       /\ Cardinality(0 .. n) = IF 0 > n THEN 0 ELSE n - 0 + 1
    BY FS_Interval
  <2>2. QSize \in Nat \ {0} /\ QSize - 1 \in Int /\ ~(0 > QSize - 1)
    BY QueueAssumption
  <2>3. IsFiniteSet(Slots) /\ Cardinality(Slots) = (QSize - 1) - 0 + 1
    BY <2>1, <2>2 DEF Slots
  <2> QED BY <2>2, <2>3
<1>2. Pending(q) \subseteq Slots
  BY DEF Pending
<1>3. /\ IsFiniteSet(Pending(q)) /\ Cardinality(Pending(q)) \in Nat
      /\ Cardinality(Pending(q)) <= QSize
  BY <1>1, <1>2, FS_Subset, FS_CardinalityType
<1> DEFINE f == [i \in Pending(q) |-> [msg |-> q[i].msg, prio |-> q[i].prio]]
<1>4. f \in Surjection(Pending(q), Box(q))
  BY DEF Surjection, Box
<1>5. /\ Cardinality(Box(q)) \in Nat
      /\ Cardinality(Box(q)) <= Cardinality(Pending(q))
  BY <1>3, <1>4, FS_Surjection, FS_CardinalityType
<1> QED BY <1>3, <1>5, QueueAssumption

\* Tables with the same messages and priorities stand for the same box.
LEMMA SameBox ==
    ASSUME NEW q, NEW r,
           \A i \in Slots : r[i].used = q[i].used /\ r[i].msg = q[i].msg
                            /\ r[i].prio = q[i].prio
    PROVE  Box(r) = Box(q)
<1>1. Pending(r) = Pending(q)
  BY DEF Pending
<1> QED BY <1>1 DEF Box, Pending

\* An accepted message is submitted to the box, and pushes out at most one entry, of
\* no more than its own priority; a refused or known one changes nothing.
LEMMA EnqueueSubmits ==
    ASSUME TableOK(queue), TableOK(queue'), stamp \in Nat,
           NEW m \in Msgs, NEW p \in Prios, Enqueue(m, p, SeqFor(m)),
           UNCHANGED JustConfirmed
    PROVE  Outbox!Next \/ UNCHANGED Outbox!vars
<1>1. CASE queue' = queue
  BY <1>1 DEF Outbox!vars, Box, JustConfirmed
<1>2. CASE \E i \in Slots :
              /\ Pending(queue') = Pending(queue) \cup {i}
              /\ \A j \in Slots \ {i} : queue'[j] = queue[j]
              /\ queue'[i].msg = m /\ queue'[i].prio \in Prios
              /\ i \in Pending(queue) => queue[i].prio <= queue'[i].prio
  <2>1. PICK i \in Slots :
              /\ Pending(queue') = Pending(queue) \cup {i}
              /\ \A j \in Slots \ {i} : queue'[j] = queue[j]
              /\ queue'[i].msg = m /\ queue'[i].prio \in Prios
              /\ i \in Pending(queue) => queue[i].prio <= queue'[i].prio
    BY <1>2
  <2>0. PICK r \in Prios : queue'[i].prio = r
    BY <2>1
  <2> DEFINE new == [msg |-> m, prio |-> r]
             old(j) == [msg |-> queue[j].msg, prio |-> queue[j].prio]
             gone == IF i \in Pending(queue) THEN {old(i)} ELSE {}
  <2>2. \A j \in Pending(queue) : j \in Slots
    BY DEF Pending
  <2>3. Box(queue) = {old(j) : j \in Pending(queue)}
    BY DEF Box
  <2>4. \A j \in Pending(queue) \ {i} : queue[j].msg # m /\ queue'[j] = queue[j]
    <3>1. i \in Pending(queue') /\ \A j \in Pending(queue) : j \in Pending(queue')
      BY <2>1
    <3> QED BY <2>1, <2>2, <3>1 DEF TableOK
  <2>5. Box(queue') = {old(j) : j \in Pending(queue) \ {i}} \cup {new}
    BY <2>0, <2>1, <2>4 DEF Box
  <2>6. \A j \in Pending(queue) \ {i} : old(j) \notin gone
    BY DEF TableOK
  <2>7. Box(queue) \ gone = {old(j) : j \in Pending(queue) \ {i}}
    BY <2>3, <2>6
  <2>8. /\ gone = {} \/ \E e \in Box(queue) : gone = {e}
        /\ \A e \in gone : e.prio <= r
    BY <2>0, <2>1, <2>3
  <2>9. \A e \in Box(queue) \ gone : e.msg # m
    BY <2>4, <2>7
  <2>10. Box(queue') = (Box(queue) \ gone) \cup {new}
    BY <2>5, <2>7
  <2>11. Outbox!Cardinality(Box(queue')) <= QSize
    BY BoxFits DEF Cardinality, Outbox!Cardinality
  <2> HIDE DEF gone
  <2>12. gone \in {{}} \cup {{e} : e \in Box(queue)}
    BY <2>8
  <2>13. Outbox!Submit(m, r)
    BY <2>8, <2>9, <2>10, <2>11, <2>12 DEF Outbox!Submit, Box, JustConfirmed
  <2> QED BY <2>13 DEF Outbox!Next
<1> QED BY <1>1, <1>2, EnqueueStep

\* The bookkeeping after a confirmed POST retires the message.
LEMMA BookRetires ==
    ASSUME IInv, ApiBook
    PROVE  Outbox!Next \/ UNCHANGED Outbox!vars
<1>1. JustConfirmed' = NoMsg
  BY DEF ApiBook, JustConfirmed
<1>2. CASE ~sending.ok
  <2>1. Box(queue') = Box(queue)
    BY <1>2, BookedItems, SameBox
  <2>2. JustConfirmed = NoMsg
    BY <1>2 DEF JustConfirmed
  <2> QED BY <1>1, <2>1, <2>2 DEF Outbox!vars, Box, JustConfirmed
<1>3. CASE sending.ok
  <2>1. JustConfirmed = sending.msg /\ sending.msg # NoMsg
    BY <1>3, QueueAssumption DEF ApiBook, JustConfirmed, IInv, LocalsOK
  <2>2. Box(queue') = {e \in Box(queue) : e.msg # sending.msg}
    <3>1. /\ Pending(queue') = Pending(queue) \ Holding(queue, sending.msg)
          /\ \A j \in Pending(queue') : queue'[j] = queue[j]
      BY <1>3, BookedItems DEF Pending
    <3> QED BY <3>1 DEF Box, Holding
  <2>3. Outbox!Retire
    BY <1>1, <2>1, <2>2 DEF Outbox!Retire, Box, JustConfirmed
  <2> QED BY <2>3 DEF Outbox!Next
<1> QED BY <1>2, <1>3

\* Every step of the delivery is a step of the outbox or leaves it alone.
LEMMA StepSimulates ==
    ASSUME IInv, IInv', [Next]_vars
    PROVE  Outbox!Next \/ UNCHANGED Outbox!vars
<1>0. ASSUME Box(queue') = Box(queue), UNCHANGED JustConfirmed
      PROVE  UNCHANGED Outbox!vars
  BY <1>0 DEF Outbox!vars, Box, JustConfirmed
<1>1. CASE ApiBook
  BY <1>1, BookRetires
<1>2. ASSUME NEW m \in Alerts, ApiAlert(m)
      PROVE  Outbox!Next \/ UNCHANGED Outbox!vars
  <2>1. m \in Msgs /\ SeqFor(m) = SeqOf[m] /\ High \in Prios
    BY DEF Alerts, SeqFor, High, Prios
  <2>2. Enqueue(m, High, SeqFor(m)) /\ UNCHANGED JustConfirmed
    BY <1>2, <2>1 DEF ApiAlert, JustConfirmed
  <2> QED BY <2>1, <2>2, EnqueueSubmits DEF IInv, TypeOK
<1>3. CASE LoopInsert
  <2>1. loopMsg \in DiagMsgs /\ loopMsg \in Msgs
    BY <1>3, DeliveryAssumption DEF LoopInsert, IInv, LocalsOK
  <2>2. SeqFor(loopMsg) = NoSeq /\ Low \in Prios
    BY <2>1 DEF SeqFor, Alerts, Low, Prios
  <2>3. Enqueue(loopMsg, Low, SeqFor(loopMsg)) /\ UNCHANGED JustConfirmed
    BY <1>3, <2>2 DEF LoopInsert, JustConfirmed
  <2> QED BY <2>1, <2>2, <2>3, EnqueueSubmits DEF IInv, TypeOK
<1>4. CASE Tick
  <2>1. Box(queue') = Box(queue)
    BY <1>4, AgedItems, SameBox DEF Tick, IInv, TableOK
  <2>2. UNCHANGED JustConfirmed
    BY <1>4 DEF Tick, JustConfirmed, IInv, TypeOK
  <2> QED BY <1>0, <2>1, <2>2
<1>5. CASE ApiPostOk
  <2>1. JustConfirmed = NoMsg /\ JustConfirmed' = sending.msg /\ sending.msg \in Msgs
    BY <1>5 DEF ApiPostOk, JustConfirmed, IInv, TypeOK, LocalsOK
  <2>2. Outbox!Confirm(sending.msg)
    BY <1>5, <2>1 DEF Outbox!Confirm, Box, JustConfirmed, ApiPostOk, qvars
  <2> QED BY <2>1, <2>2 DEF Outbox!Next
<1>6. CASE ApiBookSkipped
  <2>1. Box(queue') = Box(queue) /\ JustConfirmed' = NoMsg
    BY <1>6 DEF ApiBookSkipped, qvars, JustConfirmed
  <2>2. CASE JustConfirmed = NoMsg
    BY <1>0, <2>1, <2>2
  <2>3. CASE JustConfirmed # NoMsg
    <3>1. Outbox!Retire
      BY <2>1, <2>3 DEF Outbox!Retire, Box, JustConfirmed
    <3> QED BY <3>1 DEF Outbox!Next
  <2> QED BY <2>2, <2>3
<1>7. CASE ~(\/ ApiBook \/ LoopInsert \/ Tick \/ ApiPostOk \/ ApiBookSkipped
             \/ \E m \in Alerts : ApiAlert(m))
  <2>1. queue' = queue
    BY <1>7, QueueWriters
  <2>2. UNCHANGED JustConfirmed
    BY <1>7 DEF JustConfirmed, Next, ApiStep, LoopStep, ApiEnterExclusive, ApiFetch,
           ApiFetchDone, ApiWsStopped, ApiPick, ApiPickNothing, ApiRefused,
           ApiRateLimited, ApiPostFailed, ApiRestarted, LoopTestDue, LoopLock,
           LoopLockTimeout, WifiLost, WifiBack, BootRelease, vars, IInv, LocalsOK
  <2> QED BY <1>0, <2>1, <2>2
<1> QED BY <1>1, <1>2, <1>3, <1>4, <1>5, <1>6, <1>7

\* The table with its tasks, locks, retries and clocks implements the outbox: a
\* message leaves only confirmed or in favour of one of at least its priority.
THEOREM Implements == Spec => ImplementsOutbox
<1>1. Init => Outbox!Init
  <2> SUFFICES ASSUME Init PROVE Outbox!Init
    OBVIOUS
  <2>1. Pending(queue) = {}
    BY DEF Init, EmptyQueue, Pending, FreeSlot
  <2> QED BY <2>1 DEF Init, Outbox!Init
<1>2. IInv /\ IInv' /\ [Next]_vars => [Outbox!Next]_Outbox!vars
  BY StepSimulates
<1> QED BY <1>1, <1>2, Invariance, PTL DEF ImplementsOutbox, Outbox!Spec, Spec
=============================================================================
