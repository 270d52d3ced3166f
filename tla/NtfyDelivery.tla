---------------------------- MODULE NtfyDelivery ----------------------------
(***************************************************************************)
(* Delivery of push notifications: apiTask raises alerts during a price    *)
(* fetch, and, when an eligible item is pending, runs one exclusive cycle  *)
(* (stop the WebSocket, POST one item, restart it).  In a build with       *)
(* CRYPTO_ALERT_NTFY_DIAGNOSTICS_RUNTIME the Arduino loop() task adds test *)
(* messages of low priority.  The table is shared under s_ntfyQMutex,      *)
(* which is NOT held during the POST: apiTask works on a copy.             *)
(***************************************************************************)
EXTENDS NtfyQueue

CONSTANTS
    DiagRuntime,  \* is loop() built with the test messages?
    DiagMsgs,     \* the messages loop() sends; the others are alerts
    MaxStreak,    \* ntfyFailStreak saturates here (6)
    Backoff,      \* streak -> ticks of global back-off after a failed POST
    RateLimits,   \* ticks of back-off a 429 may ask for
    MaxSend       \* bound: ticks a POST with its second attempt can take

ASSUME DeliveryAssumption ==
    /\ DiagRuntime \in BOOLEAN
    /\ DiagMsgs \subseteq Msgs
    /\ MaxStreak \in Nat \ {0}
    /\ Backoff \in [1 .. MaxStreak -> Nat]
    /\ RateLimits \subseteq Nat
    /\ MaxSend \in Nat

VARIABLES
    queue,      \* s_ntfyQ
    stamp,      \* rank of the present among the creation times in queue
    qOwner,     \* who holds s_ntfyQMutex: "none" or "loop"
    backoff,    \* ntfyNextAllowedMs, in ticks from now
    streak,     \* ntfyFailStreak
    wifi,       \* WiFi.status() == WL_CONNECTED
    bootHold,   \* bootShouldBlockNtfyExclusiveWs()
    api,        \* where apiTask is
    sending,    \* apiTask's copy of the picked item and the POST's result
    loopPc,     \* where loop() is in enqueueNtfyPending
    loopMsg,    \* the test message it is about to enqueue
    owed,       \* history: accepted, not yet confirmed, replaced or evicted
    answered    \* history: pending, accepted, and answered OK since

qvars == <<queue, stamp, qOwner>>
netvars == <<backoff, streak>>
env == <<wifi, bootHold>>
loopvars == <<loopPc, loopMsg>>
history == <<owed, answered>>
vars == <<qvars, netvars, env, api, sending, loopvars, history>>

Alerts == Msgs \ DiagMsgs

ApiStates == {"cycle", "fetch", "stop", "pick", "post", "book", "restart"}

NotSending == [idx |-> 0, msg |-> NoMsg, elapsed |-> 0, ok |-> FALSE]

\* g_netExclusiveNtfyMode != NET_MODE_NORMAL
Exclusive == api \notin {"cycle", "fetch"}

\* Faulty: one tick early.
BackoffNearlyOver == backoff > 1

BackoffActive == backoff > 0

Init ==
    /\ queue = EmptyQueue
    /\ stamp = 0
    /\ qOwner = "none"
    /\ backoff = 0
    /\ streak = 0
    /\ wifi = TRUE
    /\ bootHold = TRUE
    /\ api = "cycle"
    /\ sending = NotSending
    /\ loopPc = "idle"
    /\ loopMsg = NoMsg
    /\ owed = {}
    /\ answered = {}

-----------------------------------------------------------------------------
(* enqueueNtfyPending, run by the holder of the mutex.  It returns true in  *)
(* all cases but the last.                                                  *)

Accepted(m, gone) ==
    /\ owed' = (owed \ gone) \cup {m}
    /\ answered' = answered \ (gone \cup {m})

Enqueue(m, p, s) ==
    \/ /\ Carriers(queue, s) # {}
       /\ LET i == Min(Carriers(queue, s))
          IN  /\ queue' = Coalesced(queue, i, m, p)
              /\ Accepted(m, {queue[i].msg})
    \/ /\ Carriers(queue, s) = {}
       /\ Holding(queue, m) # {}
       /\ UNCHANGED queue
       /\ Accepted(m, {})
    \/ /\ Carriers(queue, s) = {}
       /\ Holding(queue, m) = {}
       /\ FreeSlots(queue) # {}
       /\ queue' = Inserted(queue, Min(FreeSlots(queue)), m, p, s, stamp)
       /\ Accepted(m, {})
    \/ /\ Carriers(queue, s) = {}
       /\ Holding(queue, m) = {}
       /\ FreeSlots(queue) = {}
       /\ Evictable(queue, p) # {}
       /\ LET i == Victim(queue, p)
          IN  /\ queue' = Inserted(queue, i, m, p, s, stamp)
              /\ Accepted(m, {queue[i].msg})
    \/ /\ Carriers(queue, s) = {}
       /\ Holding(queue, m) = {}
       /\ FreeSlots(queue) = {}
       /\ Evictable(queue, p) = {}
       /\ UNCHANGED <<queue, history>>

-----------------------------------------------------------------------------
(* apiTask *)

\* ntfyHasFlushablePendingForExclusive: a try-lock that fails counts as "no".
Flushable == qOwner = "none" /\ ~BackoffActive /\ Eligible(queue) # {}

ApiEnterExclusive ==
    /\ api = "cycle"
    /\ wifi
    /\ Flushable
    /\ ~bootHold
    /\ api' = "stop"
    /\ UNCHANGED <<qvars, netvars, env, sending, loopvars, history>>

ApiFetch ==
    /\ api = "cycle"
    /\ wifi
    /\ ~Flushable \/ bootHold
    /\ api' = "fetch"
    /\ UNCHANGED <<qvars, netvars, env, sending, loopvars, history>>

\* sendNotification: always priority HIGH, with the sequence id of the text.
\* While loop() holds the mutex it waits up to 50 ms, then gives up (no step).
ApiAlert(m) ==
    /\ api = "fetch"
    /\ qOwner = "none"
    /\ Enqueue(m, High, SeqOf[m])
    /\ UNCHANGED <<stamp, qOwner, netvars, env, api, sending, loopvars>>

ApiFetchDone ==
    /\ api = "fetch"
    /\ api' = "cycle"
    /\ UNCHANGED <<qvars, netvars, env, sending, loopvars, history>>

\* STOPPING_WS ends: the socket is down or its deadline passed.
ApiWsStopped ==
    /\ api = "stop"
    /\ wifi
    /\ api' = "pick"
    /\ UNCHANGED <<qvars, netvars, env, sending, loopvars, history>>

\* First half of ntfyExclusiveSendOnePendingFromQueue: pick, copy, unlock.
CanPick == ~BackoffActive /\ wifi /\ qOwner = "none" /\ Eligible(queue) # {}

ApiPick ==
    /\ api = "pick"
    /\ CanPick
    /\ LET i == PickNext(queue)
       IN  sending' = [idx |-> i, msg |-> queue[i].msg, elapsed |-> 0, ok |-> FALSE]
    /\ api' = "post"
    /\ UNCHANGED <<qvars, netvars, env, loopvars, history>>

ApiPickNothing ==
    /\ api = "pick"
    /\ ~CanPick
    /\ api' = "restart"
    /\ UNCHANGED <<qvars, netvars, env, sending, loopvars, history>>

\* sendNtfyNotification returns before the POST: WiFi was lost since the pick.
\* Its other refusals cannot occur: the settings and the web page replace an
\* empty topic by a default, and texts are built within the length limits.
ApiRefused ==
    /\ api = "post"
    /\ ~wifi
    /\ api' = "book"
    /\ UNCHANGED <<qvars, netvars, env, sending, loopvars, history>>

\* 200 or 201 on either attempt.
ApiPostOk ==
    /\ api = "post"
    /\ sending' = [sending EXCEPT !.ok = TRUE]
    /\ backoff' = 0
    /\ streak' = 0
    /\ answered' = answered \cup {sending.msg}
    /\ api' = "book"
    /\ UNCHANGED <<qvars, env, loopvars, owed>>

\* 429: no second attempt; counted from the answer, the streak stays.
ApiRateLimited ==
    /\ api = "post"
    /\ \E w \in RateLimits : backoff' = w
    /\ api' = "book"
    /\ UNCHANGED <<qvars, streak, env, sending, loopvars, history>>

\* Both attempts failed.  The server may still have taken either of them.
ApiPostFailed ==
    /\ api = "post"
    /\ streak' = IF streak < MaxStreak THEN streak + 1 ELSE streak
    /\ backoff' = LeftOf(Backoff[streak'], sending.elapsed)
    /\ api' = "book"
    /\ UNCHANGED <<qvars, env, sending, loopvars, history>>

\* Faulty: a confirmed POST booked as a failure.
BookkeepFailure(i) == queue' = Postponed(queue, i, sending.elapsed, backoff)

\* Faulty: the item is given up after its first attempt.
BookkeepGiveUp(i) == queue' = Cleared(queue, i)

Bookkeep(i) ==
    IF sending.ok THEN queue' = Cleared(queue, i)
    ELSE queue' = Postponed(queue, i, sending.elapsed, backoff)

\* Second half of ntfyExclusiveSendOnePendingFromQueue.
ApiBook ==
    /\ api = "book"
    /\ qOwner = "none"
    /\ LET found == Booked(queue, sending.idx, sending.msg)
       IN  \/ found = {} /\ UNCHANGED queue
           \/ \E i \in found : Bookkeep(i)
    /\ owed' = IF sending.ok THEN owed \ {sending.msg} ELSE owed
    /\ api' = "restart"
    /\ sending' = NotSending
    /\ answered' = answered \cap Contents(queue')
    /\ UNCHANGED <<stamp, qOwner, netvars, env, loopvars>>

\* The mutex could not be had in 200 ms: "bookkeeping skipped".
ApiBookSkipped ==
    /\ api = "book"
    /\ qOwner # "none"
    /\ api' = "restart"
    /\ sending' = NotSending
    /\ UNCHANGED <<qvars, netvars, env, loopvars, history>>

\* RESTARTING_WS ends: the socket is back or the attempts are used up.
ApiRestarted ==
    /\ api = "restart"
    /\ wifi
    /\ api' = "cycle"
    /\ UNCHANGED <<qvars, netvars, env, sending, loopvars, history>>

-----------------------------------------------------------------------------
(* loop(), in a diagnostics build *)

LoopTestDue(m) ==
    /\ DiagRuntime
    /\ loopPc = "idle"
    /\ ~Exclusive
    /\ ~BackoffActive
    /\ loopPc' = "lock"
    /\ loopMsg' = m
    /\ UNCHANGED <<qvars, netvars, env, api, sending, history>>

LoopLock ==
    /\ loopPc = "lock"
    /\ qOwner = "none"
    /\ qOwner' = "loop"
    /\ loopPc' = "insert"
    /\ UNCHANGED <<queue, stamp, netvars, env, api, sending, loopMsg, history>>

\* 50 ms without the mutex: enqueueNtfyPending returns false.
LoopLockTimeout ==
    /\ loopPc = "lock"
    /\ loopPc' = "idle"
    /\ loopMsg' = NoMsg
    /\ UNCHANGED <<qvars, netvars, env, api, sending, history>>

LoopInsert ==
    /\ loopPc = "insert"
    /\ Enqueue(loopMsg, Low, NoSeq)
    /\ qOwner' = "none"
    /\ loopPc' = "idle"
    /\ loopMsg' = NoMsg
    /\ UNCHANGED <<stamp, netvars, env, api, sending>>

-----------------------------------------------------------------------------
(* Time and the network *)

Tick ==
    /\ api \in {"post", "book"} => sending.elapsed < MaxSend
    /\ queue' = Aged(queue)
    /\ stamp' = Cardinality(Stamps(queue))
    /\ backoff' = LeftOf(backoff, 1)
    /\ sending' = IF api \in {"post", "book"}
                  THEN [sending EXCEPT !.elapsed = @ + 1]
                  ELSE sending
    /\ UNCHANGED <<qOwner, streak, env, api, loopvars, history>>

WifiLost ==
    /\ wifi
    /\ wifi' = FALSE
    /\ UNCHANGED <<qvars, netvars, bootHold, api, sending, loopvars, history>>

WifiBack ==
    /\ ~wifi
    /\ wifi' = TRUE
    /\ UNCHANGED <<qvars, netvars, bootHold, api, sending, loopvars, history>>

\* The first ticker arrived, or BOOT_NTFY_EXCL_BLOCK_TIMEOUT_MS is over.
BootRelease ==
    /\ bootHold
    /\ bootHold' = FALSE
    /\ UNCHANGED <<qvars, netvars, wifi, api, sending, loopvars, history>>

ApiStep ==
    \/ ApiEnterExclusive \/ ApiFetch \/ ApiFetchDone
    \/ ApiWsStopped \/ ApiPick \/ ApiPickNothing
    \/ ApiRefused \/ ApiPostOk \/ ApiRateLimited \/ ApiPostFailed
    \/ ApiBook \/ ApiBookSkipped \/ ApiRestarted

LoopStep == LoopLock \/ LoopLockTimeout \/ LoopInsert

Next ==
    \/ ApiStep
    \/ \E m \in Alerts : ApiAlert(m)
    \/ \E m \in DiagMsgs : LoopTestDue(m)
    \/ LoopStep
    \/ Tick
    \/ WifiLost
    \/ WifiBack
    \/ BootRelease

Spec == Init /\ [][Next]_vars

\* apiTask and loop() are scheduled and time passes.  Alerts, test messages, the
\* outcomes of a POST and WiFi are not fair.
Fairness ==
    /\ WF_vars(ApiStep)
    /\ WF_vars(LoopStep)
    /\ WF_vars(Tick)
    /\ WF_vars(BootRelease)

FairSpec == Spec /\ Fairness

\* ... and a notification POSTed again and again is answered OK in the end.
AnsweringSpec == FairSpec /\ \A m \in Msgs : SF_vars(sending.msg = m /\ ApiPostOk)

-----------------------------------------------------------------------------
(* Properties *)

\* The type invariant.
TypeOK ==
    /\ queue \in [Slots -> Item]
    /\ stamp \in Nat
    /\ qOwner \in {"none", "loop"}
    /\ backoff \in Nat
    /\ streak \in 0 .. MaxStreak
    /\ wifi \in BOOLEAN
    /\ bootHold \in BOOLEAN
    /\ api \in ApiStates
    /\ sending \in [idx : Slots, msg : Msgs \cup {NoMsg}, elapsed : 0 .. MaxSend,
                    ok : BOOLEAN]
    /\ loopPc \in {"idle", "lock", "insert"}
    /\ loopMsg \in DiagMsgs \cup {NoMsg}
    /\ owed \subseteq Msgs
    /\ answered \subseteq Msgs

\* Two pending slots never carry the same message, nor two alerts of one
\* sequence: the coalescing of enqueueNtfyPending, across retries, evictions
\* and items updated in place.
OnePendingPerAlert ==
    \A i, j \in Pending(queue) : i # j =>
        /\ queue[i].msg # queue[j].msg
        /\ queue[i].seq # NoSeq => queue[i].seq # queue[j].seq

\* A notification that was accepted stays pending until its own POST is answered
\* OK, a newer text of its sequence replaces it, or it is evicted.  The hazard is
\* the bookkeeping after the POST, which runs on a table that may have changed.
NothingOwedIsLost == owed \subseteq Contents(queue)

\* A pending HIGH notification is only ever cleared or overwritten by apiTask:
\* by the bookkeeping of its own confirmed POST, or by another alert.  Test
\* traffic from loop() never costs an alert.
TestsNeverCostAnAlert ==
    [][\A i \in Slots :
          (queue[i].used /\ queue[i].prio = High /\ queue'[i].msg # queue[i].msg)
          => \/ api = "fetch"
             \/ api = "book" /\ sending.ok /\ sending.msg = queue[i].msg]_vars

\* No POST starts while the global back-off runs (a 429's Retry-After, or the
\* streak's), whatever a coalesced update made eligible at once.
SilentDuringBackoff ==
    [][api # "post" /\ api' = "post" => backoff = 0]_vars

\* In the production build a notification answered OK is never POSTed again
\* unless it was raised again.
NeverResentAfterOk == api = "post" => sending.msg \notin answered

\* The table implements the outbox.
Outbox ==
    INSTANCE NtfyOutbox WITH
        Capacity <- QSize,
        box <- {[msg |-> queue[i].msg, prio |-> queue[i].prio] : i \in Pending(queue)},
        confirmed <- IF api = "book" /\ sending.ok THEN sending.msg ELSE NoMsg

\* Each step of tasks, clock and network is a step of the outbox or invisible to it.
ImplementsOutbox == Outbox!Spec

\* WiFi may flap, but not for ever: a drop in every single exclusive cycle,
\* between the check at its start and the pick, would keep apiTask out of a fetch.
WifiSettles == <>[]wifi

\* Under AnsweringSpec every pending alert leaves the table in the end: confirmed,
\* replaced by a newer text or evicted by other alerts.  None is starved.
AlertsLeave ==
    WifiSettles => \A m \in Alerts : m \in Contents(queue) ~> m \notin Contents(queue)

\* Under AnsweringSpec notifications never keep apiTask from fetching prices for
\* good: whatever is pending, and whatever fails or is rate-limited in between, a
\* fetch comes again.
FetchNeverStarved == WifiSettles => []<>(api = "fetch")

\* "daarna 30000ms": from the fourth failure on the delay stays at its longest.
LongDelayStays ==
    [][\A i \in Slots :
          (queue[i].retry >= 4 /\ queue'[i].retry # queue[i].retry /\ queue'[i].used)
          => \/ DelayAfter(queue'[i].retry) = DelayAfter(4)
             \/ queue'[i].msg # queue[i].msg]_vars
=============================================================================
