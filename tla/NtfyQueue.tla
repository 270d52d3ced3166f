------------------------------ MODULE NtfyQueue ------------------------------
(***************************************************************************)
(* The table of pending push notifications, s_ntfyQ, as a value, with the  *)
(* look-ups and the updates the firmware performs on it while it holds     *)
(* s_ntfyQMutex.  NtfyDelivery adds the tasks that call them.              *)
(*                                                                         *)
(* Title, body and colour tag are one message.  A slot that is free        *)
(* (used = false, or delivered = true) is FreeSlot: the code overwrites    *)
(* every field on insertion and reads none before.                         *)
(*                                                                         *)
(* Time is relative.  `wait' is nextAttemptMs minus the present, in ticks, *)
(* 0 when the item is eligible.  `created' is the rank of createdMs among  *)
(* the creation times present in the table: the code only ever compares    *)
(* two of them.  Aged re-expresses both when the clock advances.           *)
(***************************************************************************)
EXTENDS Naturals, FiniteSets, FiniteSetsExt

CONSTANTS
    QSize,       \* NTFY_PENDING_Q_SIZE
    Msgs,        \* the notifications that can be raised
    NoMsg,       \* "no notification"
    SeqIds,      \* sequence ids ntfyBuildSequenceId() can return
    NoSeq,       \* the empty sequence id
    SeqOf,       \* ntfyBuildSequenceId(), a function of title and body
    RetryMod,    \* 2^8: retryCount is a uint8_t
    RetryDelay   \* ntfyRetryDelayMs() in ticks, for 0..4 (4: "daarna")

ASSUME QueueAssumption ==
    /\ QSize \in Nat \ {0}
    /\ NoMsg \notin Msgs
    /\ NoSeq \notin SeqIds
    /\ SeqOf \in [Msgs -> SeqIds \cup {NoSeq}]
    /\ RetryMod \in Nat \ {0}
    /\ RetryDelay \in [0..4 -> Nat]

Slots == 0 .. QSize - 1

Low  == 0
High == 2
Prios == 0 .. 2

Item == [used: BOOLEAN, prio: Prios, retry: 0 .. RetryMod - 1, created: Nat,
         wait: Nat, msg: Msgs \cup {NoMsg}, seq: SeqIds \cup {NoSeq}]

FreeSlot == [used |-> FALSE, prio |-> Low, retry |-> 0, created |-> 0,
             wait |-> 0, msg |-> NoMsg, seq |-> NoSeq]

EmptyQueue == [i \in Slots |-> FreeSlot]

-----------------------------------------------------------------------------
(* Look-ups *)

Pending(q) == {i \in Slots : q[i].used}

Contents(q) == {q[i].msg : i \in Pending(q)}

\* Faulty: an item waiting for its retry is not found.
CarriersNotWaiting(q, s) ==
    {i \in Pending(q) : s # NoSeq /\ q[i].seq = s /\ q[i].wait = 0}

\* Pending items of the sequence s; the empty id belongs to no sequence.
Carriers(q, s) == {i \in Pending(q) : s # NoSeq /\ q[i].seq = s}

\* ntfyPendingEquals: pending items with this title, body and tag.
Holding(q, m) == {i \in Pending(q) : q[i].msg = m}

FreeSlots(q) == Slots \ Pending(q)

Older(q, i, j) ==
    \/ q[i].created < q[j].created
    \/ q[i].created = q[j].created /\ i <= j

\* Faulty: no regard for priority.
EvictableAny(q, p) == Pending(q)

\* What an incoming item of priority p may push out ...
Evictable(q, p) == {i \in Pending(q) : q[i].prio <= p}

\* ... of which the lowest priority goes first, and of that the oldest.
Victim(q, p) ==
    CHOOSE i \in Evictable(q, p) : \A j \in Evictable(q, p) :
        \/ q[i].prio < q[j].prio
        \/ q[i].prio = q[j].prio /\ Older(q, i, j)

Eligible(q) == {i \in Pending(q) : q[i].wait = 0}

\* Highest priority first, then the oldest.
PickNext(q) ==
    CHOOSE i \in Eligible(q) : \A j \in Eligible(q) :
        \/ q[i].prio > q[j].prio
        \/ q[i].prio = q[j].prio /\ Older(q, i, j)

\* Faulty: by index, whatever the slot holds by now.
BookedByIndex(q, idx, m) == {idx} \cap Pending(q)

\* The slot the bookkeeping after a POST of m, picked at idx, refers to: idx
\* itself if it still holds m, else the first slot that does.
Booked(q, idx, m) ==
    IF idx \in Holding(q, m) THEN {idx}
    ELSE IF Holding(q, m) = {} THEN {} ELSE {Min(Holding(q, m))}

-----------------------------------------------------------------------------
(* Updates *)

NewItem(m, p, s, t) ==
    [used |-> TRUE, prio |-> p, retry |-> 0, created |-> t, wait |-> 0,
     msg |-> m, seq |-> s]

Inserted(q, i, m, p, s, t) == [q EXCEPT ![i] = NewItem(m, p, s, t)]

\* Seq-coalescing: new text, the higher priority, eligible at once; retryCount,
\* createdMs and the sequence id stay.
Coalesced(q, i, m, p) ==
    [q EXCEPT ![i].msg = m, ![i].prio = IF p > @ THEN p ELSE @, ![i].wait = 0]

Cleared(q, i) == [q EXCEPT ![i] = FreeSlot]

DelayAfter(retry) == RetryDelay[IF retry < 4 THEN retry ELSE 4]

LeftOf(ticks, elapsed) == IF ticks > elapsed THEN ticks - elapsed ELSE 0

LaterOf(a, b) == IF a > b THEN a ELSE b

\* Faulty: retryCount as if it were unbounded.
PostponedUnwrapped(q, i, elapsed, backoff) ==
    LET n == q[i].retry + 1
    IN  [q EXCEPT ![i].retry = n,
                  ![i].wait = LaterOf(LeftOf(DelayAfter(n), elapsed), backoff)]

\* The next attempt is computed from the time the send STARTED, `elapsed'
\* ticks ago, and is never before the global back-off ends.
Postponed(q, i, elapsed, backoff) ==
    LET n == (q[i].retry + 1) % RetryMod
    IN  [q EXCEPT ![i].retry = n,
                  ![i].wait = LaterOf(LeftOf(DelayAfter(n), elapsed), backoff)]

Stamps(q) == {q[i].created : i \in Pending(q)}

Rank(q, t) == Cardinality({x \in Stamps(q) : x < t})

\* One tick later.
Aged(q) ==
    [i \in Slots |->
        IF q[i].used
        THEN [q[i] EXCEPT !.created = Rank(q, @), !.wait = LeftOf(@, 1)]
        ELSE q[i]]
=============================================================================
