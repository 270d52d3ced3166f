-------------------------------- MODULE Anchor --------------------------------
(***************************************************************************)
(* The anchor price: requests to set it come from webTask, from the MQTT   *)
(* callback in loop() and, on boards with a button, from uiTask.  They go  *)
(* through a mailbox of three volatile fields, pendingAnchorSetting,       *)
(* without a lock, to apiTask, which serves it after each price fetch.     *)
(* Each fetch also tests the anchor for take profit and max loss.          *)
(*                                                                         *)
(* What happens under dataMutex is one step.  The copies of the anchor in  *)
(* global variables are written together with the AnchorSystem's and are   *)
(* left out, as are texts and MQTT events.                                 *)
(***************************************************************************)
EXTENDS Integers, FiniteSets

CONSTANTS
    Askers,     \* the tasks that ask for an anchor: "web", "mqtt"
    Buttons,    \* the values of HAS_PHYSICAL_BUTTON: where it is TRUE, uiTask asks
                \* too, and may fetch a price itself
    Prices,     \* valid prices
    Trends,     \* TrendState
    TakeProfit, \* settings: anchorTakeProfit in percent, times the multiplier of
    MaxLoss     \* the trend; the same for anchorMaxLoss

ASSUME AnchorAssumption ==
    /\ "ui" \notin Askers
    /\ Buttons \subseteq BOOLEAN
    /\ Prices \subseteq Nat \ {0}
    /\ TakeProfit \in [Trends -> Int]
    /\ MaxLoss \in [Trends -> Int]

VARIABLES
    box,        \* pendingAnchorSetting
    asker,      \* where each asking task is in queueAnchorSetting, and its request
    price,      \* prices[0]; 0: none yet
    anchor,     \* the state of AnchorSystem
    fetcher,    \* where apiTask, and uiTask after a button press, are
    copy,       \* apiTask's local copy of the mailbox
    raised,     \* history: alerts raised for the present anchor, counted to 3
    waiting     \* history: the last request that was answered OK, until it is taken

vars == <<box, asker, price, anchor, fetcher, copy, raised, waiting>>

Current == 0    \* the request "use the current price" has no value of its own
NoRequest == -1

Requests == Prices \cup {Current}

Asking == Askers \cup {"ui"}

\* fetchPrice runs in apiTask and, after a button press without a price, in uiTask.
Fetching(hasButton) == IF hasButton THEN {"api", "ui"} ELSE {"api"}
Fetchers == DOMAIN fetcher
HasButton == "ui" \in Fetchers

Events == {"tp", "ml"}

NoneSent == [e \in Events |-> FALSE]

NoAnchor == [active |-> FALSE, at |-> 0, max |-> 0, min |-> 0, sent |-> NoneSent]

NoneRaised == [e \in Events |-> 0]

NoCopy == [value |-> 0, current |-> FALSE]

Init ==
    /\ box = [value |-> 0, current |-> FALSE, pending |-> FALSE]
    /\ asker = [w \in Asking |-> [pc |-> "idle", req |-> Current]]
    /\ price \in Prices \cup {0}
    /\ anchor = NoAnchor
    /\ \E hasButton \in Buttons : fetcher = [t \in Fetching(hasButton) |-> "idle"]
    /\ copy = NoCopy
    /\ raised = NoneRaised
    /\ waiting = NoRequest

-----------------------------------------------------------------------------
(* queueAnchorSetting: three stores, pending last *)

Store(w, r) ==
    /\ asker[w].pc = "idle"
    /\ box' = [box EXCEPT !.value = r]
    /\ asker' = [asker EXCEPT ![w] = [pc |-> "current", req |-> r]]

Ask(w, r) ==
    /\ Store(w, r)
    /\ UNCHANGED <<price, anchor, fetcher, copy, raised, waiting>>

StoreCurrent(w) ==
    /\ asker[w].pc = "current"
    /\ box' = [box EXCEPT !.current = (asker[w].req = Current)]
    /\ asker' = [asker EXCEPT ![w].pc = "pending"]
    /\ UNCHANGED <<price, anchor, fetcher, copy, raised, waiting>>

\* ... and the user is told it worked.
StorePending(w) ==
    /\ asker[w].pc = "pending"
    /\ box' = [box EXCEPT !.pending = TRUE]
    /\ asker' = [asker EXCEPT ![w] = [pc |-> "idle", req |-> Current]]
    /\ waiting' = asker[w].req
    /\ UNCHANGED <<price, anchor, fetcher, copy, raised>>

-----------------------------------------------------------------------------
(* uiTask: checkButton *)

\* No price yet, and WiFi is up: fetch one first, in this task.
ButtonFetch ==
    /\ HasButton
    /\ fetcher["ui"] = "idle"
    /\ asker["ui"].pc = "idle"
    /\ price = 0
    /\ fetcher' = [fetcher EXCEPT !["ui"] = "fetch"]
    /\ UNCHANGED <<box, asker, price, anchor, copy, raised, waiting>>

\* A press asks at once, also when WiFi is down or dataMutex is busy.
ButtonAsk ==
    /\ HasButton
    /\ fetcher["ui"] \in {"idle", "fetched"}
    /\ Store("ui", Current)
    /\ fetcher' = [fetcher EXCEPT !["ui"] = "idle"]
    /\ UNCHANGED <<price, anchor, copy, raised, waiting>>

-----------------------------------------------------------------------------
(* fetchPrice and the anchor's share of it *)

ApiFetch ==
    /\ fetcher["api"] = "idle"
    /\ fetcher' = [fetcher EXCEPT !["api"] = "fetch"]
    /\ UNCHANGED <<box, asker, price, anchor, copy, raised, waiting>>

\* No price could be had, or dataMutex could not.
FetchFailed(t) ==
    /\ fetcher[t] = "fetch"
    /\ fetcher' = [fetcher EXCEPT ![t] = "fetched"]
    /\ UNCHANGED <<box, asker, price, anchor, copy, raised, waiting>>

\* updateAnchorMinMax
Tracked(a, p) ==
    IF a.active
    THEN [a EXCEPT !.max = IF p > @ THEN p ELSE @, !.min = IF p < @ THEN p ELSE @]
    ELSE a

FetchStored(t, p) ==
    /\ fetcher[t] = "fetch"
    /\ price' = p
    /\ anchor' = Tracked(anchor, p)
    /\ fetcher' = [fetcher EXCEPT ![t] = "check"]
    /\ UNCHANGED <<box, asker, copy, raised, waiting>>

Clamp(lo, hi, x) == IF x < lo THEN lo ELSE IF x > hi THEN hi ELSE x

\* calculateEffectiveAnchorThresholds
EffectiveTakeProfit(trend) == Clamp(2, 10, TakeProfit[trend])
EffectiveMaxLoss(trend) == Clamp(-6, -1, MaxLoss[trend])

\* p is as many percent above or below the anchor as the event asks for.
Reached(e, p, trend) ==
    IF e = "tp" THEN (p - anchor.at) * 100 >= EffectiveTakeProfit(trend) * anchor.at
    ELSE (p - anchor.at) * 100 <= EffectiveMaxLoss(trend) * anchor.at

Due(e, p, trend) == anchor.active /\ ~anchor.sent[e] /\ Reached(e, p, trend)

\* checkAnchorAlerts against p, the last second's close or prices[0].  The clamps
\* leave at most one event due.
CheckNothing(t, p, trend) ==
    /\ fetcher[t] = "check"
    /\ \A e \in Events : ~Due(e, p, trend)
    /\ fetcher' = [fetcher EXCEPT ![t] = "fetched"]
    /\ UNCHANGED <<box, asker, price, anchor, copy, raised, waiting>>

CheckDue(t, p, trend, e) ==
    /\ fetcher[t] = "check"
    /\ Due(e, p, trend)
    /\ raised' = [raised EXCEPT ![e] = IF @ < 3 THEN @ + 1 ELSE @]
    /\ fetcher' = [fetcher EXCEPT ![t] = e]
    /\ UNCHANGED <<box, asker, price, anchor, copy, waiting>>

\* Faulty: a notification that was refused leaves the flag down.
FlagSentUnlessRefused(t, e) ==
    /\ fetcher[t] = e
    /\ \E accepted \in BOOLEAN : anchor' = [anchor EXCEPT !.sent[e] = accepted]
    /\ fetcher' = [fetcher EXCEPT ![t] = "fetched"]
    /\ UNCHANGED <<box, asker, price, copy, raised, waiting>>

\* sendAnchorAlert: the flag goes up after the notification, accepted or not.
FlagSent(t, e) ==
    /\ fetcher[t] = e
    /\ anchor' = [anchor EXCEPT !.sent[e] = TRUE]
    /\ fetcher' = [fetcher EXCEPT ![t] = "fetched"]
    /\ UNCHANGED <<box, asker, price, copy, raised, waiting>>

-----------------------------------------------------------------------------
(* apiTask: the mailbox, after its fetch *)

ApiBoxEmpty ==
    /\ fetcher["api"] = "fetched"
    /\ ~box.pending
    /\ fetcher' = [fetcher EXCEPT !["api"] = "idle"]
    /\ UNCHANGED <<box, asker, price, anchor, copy, raised, waiting>>

ApiReadValue ==
    /\ fetcher["api"] = "fetched"
    /\ box.pending
    /\ copy' = [copy EXCEPT !.value = box.value]
    /\ fetcher' = [fetcher EXCEPT !["api"] = "current"]
    /\ UNCHANGED <<box, asker, price, anchor, raised, waiting>>

ApiReadCurrent ==
    /\ fetcher["api"] = "current"
    /\ copy' = [copy EXCEPT !.current = box.current]
    /\ fetcher' = [fetcher EXCEPT !["api"] = "clear"]
    /\ UNCHANGED <<box, asker, price, anchor, raised, waiting>>

Copied == IF copy.current THEN Current ELSE copy.value

\* Faulty: the request stays in the mailbox.
ApiClearKept ==
    /\ fetcher["api"] = "clear"
    /\ waiting' = IF waiting = Copied THEN NoRequest ELSE waiting
    /\ fetcher' = [fetcher EXCEPT !["api"] = "set"]
    /\ UNCHANGED <<box, asker, price, anchor, copy, raised>>

ApiClear ==
    /\ fetcher["api"] = "clear"
    /\ box' = [box EXCEPT !.pending = FALSE]
    /\ waiting' = IF waiting = Copied THEN NoRequest ELSE waiting
    /\ fetcher' = [fetcher EXCEPT !["api"] = "set"]
    /\ UNCHANGED <<asker, price, anchor, copy, raised>>

\* A value of 0 means the current price, too.
Target == IF Copied > 0 THEN Copied ELSE price

\* Faulty: the extremes of the last anchor stay.
AnchorAtRangeKept(p) == [anchor EXCEPT !.active = TRUE, !.at = p, !.sent = NoneSent]

AnchorAt(p) == [active |-> TRUE, at |-> p, max |-> p, min |-> p, sent |-> NoneSent]

SetTo(a) ==
    /\ fetcher["api"] = "set"
    /\ anchor' = a
    /\ raised' = NoneRaised
    /\ copy' = NoCopy
    /\ fetcher' = [fetcher EXCEPT !["api"] = "idle"]
    /\ UNCHANGED <<box, asker, price, waiting>>

\* Faulty: the flags of the last anchor stay.
ApiSetFlagsKept == Target > 0 /\ SetTo([AnchorAt(Target) EXCEPT !.sent = anchor.sent])

\* Faulty: there need not be a price.
ApiSetUnchecked == SetTo(AnchorAt(Target))

\* setAnchorPrice; then the settings are saved and the user is told.
ApiSet == Target > 0 /\ SetTo(AnchorAt(Target))

\* dataMutex not had in 500 ms, or no price: the request is dropped.
ApiSetFailed ==
    /\ fetcher["api"] = "set"
    /\ copy' = NoCopy
    /\ fetcher' = [fetcher EXCEPT !["api"] = "idle"]
    /\ UNCHANGED <<box, asker, price, anchor, raised, waiting>>

-----------------------------------------------------------------------------
AskStep(w) == StoreCurrent(w) \/ StorePending(w)

FetchStep(t) ==
    \/ FetchFailed(t)
    \/ \E p \in Prices : FetchStored(t, p)
    \/ \E p \in Prices, trend \in Trends :
          \/ CheckNothing(t, p, trend)
          \/ \E e \in Events : CheckDue(t, p, trend, e)
    \/ \E e \in Events : FlagSent(t, e)

ApiStep ==
    \/ ApiFetch \/ FetchStep("api")
    \/ ApiBoxEmpty \/ ApiReadValue \/ ApiReadCurrent \/ ApiClear
    \/ ApiSet \/ ApiSetFailed

Next ==
    \/ \E w \in Askers, r \in Requests : Ask(w, r)
    \/ \E w \in Asking : AskStep(w)
    \/ ButtonFetch
    \/ ButtonAsk
    \/ \E t \in Fetchers \ {"api"} : FetchStep(t)
    \/ ApiStep

Spec == Init /\ [][Next]_vars

\* apiTask runs, outside the exclusive mode of NtfyExclusive, and a task that has
\* begun to store a request goes on with it.  Users need not ask, nor press.
Fairness ==
    /\ WF_vars(ApiStep)
    /\ \A w \in Asking : WF_vars(AskStep(w))

FairSpec == Spec /\ Fairness

-----------------------------------------------------------------------------
(* Properties *)

\* The type invariant; an anchor that is set is a valid price, also when the request
\* for the current price comes before there is one.
TypeOK ==
    /\ box \in [value : Requests, current : BOOLEAN, pending : BOOLEAN]
    /\ asker \in [Asking -> [pc : {"idle", "current", "pending"}, req : Requests]]
    /\ price \in Prices \cup {0}
    /\ anchor \in {NoAnchor} \cup [active : {TRUE}, at : Prices, max : Prices,
                                   min : Prices, sent : [Events -> BOOLEAN]]
    /\ Fetchers \in {Fetching(b) : b \in Buttons}
    /\ fetcher \in [Fetchers -> {"idle", "fetch", "check", "tp", "ml", "fetched",
                                 "current", "clear", "set"}]
    /\ copy \in [value : Requests, current : BOOLEAN]
    /\ raised \in [Events -> 0 .. 3]
    /\ waiting \in Requests \cup {NoRequest}

\* The flags hold alerts back per task that checks them: an anchor gives at most one
\* take profit and one max loss alert for every task that fetches prices, whatever
\* fetches, trend changes and requests come in between.
OneAlertPerFetcher == \A e \in Events : raised[e] <= Cardinality(Fetchers)

\* "Flag om te voorkomen dat take profit meerdere keren wordt verzonden": an anchor
\* gives each alert once.
OneAlertPerAnchor == \A e \in Events : raised[e] <= 1

\* On a board without a button, a new anchor is never silenced by the alert of the
\* one before: its flag is up only if an alert was raised for this anchor.
NewAnchorNotSilenced ==
    ~HasButton => \A e \in Events : anchor.sent[e] => raised[e] >= 1

\* The extremes the display shows enclose the anchor and the newest price, from the
\* first fetch after the anchor was set.
RangeEnclosesPrice ==
    anchor.active =>
        /\ anchor.min <= anchor.at /\ anchor.at <= anchor.max
        /\ fetcher["api"] \in {"check"} \cup Events =>
              anchor.min <= price /\ price <= anchor.max

\* A request is served once and the mailbox comes to rest when nobody asks: a race
\* between asking and serving never keeps apiTask setting anchors for good.
MailboxRests ==
    (<>[](\A w \in Asking : asker[w].pc = "idle")) => <>[](~box.pending)

\* "Thread-safe: kopieer waarde lokaal om race conditions te voorkomen": the last
\* request that was answered OK is in the mailbox until it is taken.
LastRequestIsTaken == waiting # NoRequest => box.pending
=============================================================================
