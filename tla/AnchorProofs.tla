----------------------------- MODULE AnchorProofs -----------------------------
(***************************************************************************)
(* Proofs about Anchor: for every set of askers, of prices and of trends,  *)
(* every table of thresholds, and boards with and without a button.        *)
(***************************************************************************)
EXTENDS Anchor, FiniteSetTheorems, TLAPS

\* How many tasks may raise an alert, and how many have raised e and not yet put its
\* flag up.
Size == IF HasButton THEN 2 ELSE 1
At(t, e) == IF t \in Fetchers /\ fetcher[t] = e THEN 1 ELSE 0
InHand(e) == At("api", e) + At("ui", e)

\* While the flag of e is down, whoever raised it is still on the way to the flag.
RaisedInHand ==
    \A e \in Events :
        /\ raised[e] <= Size
        /\ ~anchor.sent[e] => raised[e] <= InHand(e)

\* Without a button, an alert on its way is one of the present anchor.
InHandRaised ==
    ~HasButton => \A e \in Events : fetcher["api"] = e => raised[e] >= 1

\* Whoever has an alert in hand has an anchor: no anchor is ever taken back.
AlertHasAnchor == \A t \in Fetchers : fetcher[t] \in Events => anchor.active

\* The inductive invariant.
IInv ==
    /\ TypeOK
    /\ AlertHasAnchor
    /\ RangeEnclosesPrice
    /\ RaisedInHand
    /\ InHandRaised
    /\ NewAnchorNotSilenced

-----------------------------------------------------------------------------
\* Who fetches never changes: apiTask always, uiTask on boards with a button.
LEMMA TheFetchers ==
    ASSUME TypeOK
    PROVE  /\ Fetchers = Fetching(HasButton)
           /\ HasButton \in BOOLEAN
           /\ fetcher["api"] \in {"idle", "fetch", "check", "tp", "ml", "fetched",
                                  "current", "clear", "set"}
           /\ Cardinality(Fetchers) = Size
<1>1. Fetchers \in {Fetching(TRUE), Fetching(FALSE)}
    BY AnchorAssumption DEF TypeOK, AnchorAssumption
<1>2. Fetching(TRUE) = {"api", "ui"} /\ Fetching(FALSE) = {"api"}
    BY DEF Fetching
<1>3. \/ Fetchers = {"api", "ui"} /\ HasButton
      \/ Fetchers = {"api"} /\ ~HasButton
    <2>1. ASSUME Fetchers = {"api", "ui"} PROVE HasButton
        BY <2>1 DEF HasButton
    <2>2. ASSUME Fetchers = {"api"} PROVE ~HasButton
        BY <2>2 DEF HasButton
    <2>. QED
        BY <1>1, <1>2, <2>1, <2>2
<1>4. Cardinality({"api", "ui"}) = 2 /\ Cardinality({"api"}) = 1
    <2>1. Cardinality({"api"}) = 1
        BY FS_Singleton
    <2>2. IsFiniteSet({"api"})
        BY FS_Singleton
    <2>3. Cardinality({"api"} \cup {"ui"}) = 2
        BY <2>1, <2>2, FS_AddElement
    <2>. QED
        BY <2>1, <2>3
<1>5. Fetchers = Fetching(HasButton)
    BY <1>3 DEF Fetching
<1>6. HasButton \in BOOLEAN
    BY DEF HasButton
<1>7. Cardinality(Fetchers) = Size
    BY <1>3, <1>4 DEF Size
<1>8. "api" \in Fetchers
    BY <1>3
<1>. QED
    BY <1>5, <1>6, <1>7, <1>8 DEF TypeOK

\* The initial states satisfy the invariant.
LEMMA InitIInv == Init => IInv
<1>. SUFFICES ASSUME Init PROVE IInv
    OBVIOUS
<1>1. PICK b \in Buttons : fetcher = [t \in Fetching(b) |-> "idle"]
    BY DEF Init
<1>2. Fetchers = Fetching(b) /\ \A t \in Fetchers : fetcher[t] = "idle"
    BY <1>1 DEF Fetchers
<1>3. "api" \in Fetchers
    BY <1>2 DEF Fetching
<1>4. TypeOK
    <2>1. fetcher \in [Fetchers -> {"idle"}]
        BY <1>1, <1>2
    <2>2. Fetchers \in {Fetching(c) : c \in Buttons}
        BY <1>2
    <2>3. anchor = NoAnchor /\ raised \in [Events -> 0 .. 3]
        BY DEF Init, NoneRaised
    <2>4. box \in [value : Requests, current : BOOLEAN, pending : BOOLEAN]
        BY DEF Init, Requests, Current
    <2>5. asker \in [Asking -> [pc : {"idle", "current", "pending"}, req : Requests]]
        BY DEF Init, Requests, Current
    <2>6. copy \in [value : Requests, current : BOOLEAN]
        BY DEF Init, NoCopy, Requests, Current
    <2>. QED
        BY <2>1, <2>2, <2>3, <2>4, <2>5, <2>6 DEF Init, TypeOK
<1>5. RangeEnclosesPrice /\ NewAnchorNotSilenced
    BY DEF Init, RangeEnclosesPrice, NewAnchorNotSilenced, NoAnchor, NoneSent
<1>6. RaisedInHand
    BY <1>2 DEF Init, RaisedInHand, NoneRaised, NoAnchor, NoneSent, Size, InHand, At
<1>7. InHandRaised /\ AlertHasAnchor
    BY <1>2, <1>3 DEF InHandRaised, AlertHasAnchor, Events
<1>. QED
    BY <1>4, <1>5, <1>6, <1>7 DEF IInv

\* A step that leaves the anchor, the price and the alerts alone, and moves a fetching
\* task only between points where it has no alert in hand, keeps all but the types.
LEMMA QuietStep ==
    ASSUME IInv, TypeOK',
           UNCHANGED <<anchor, raised, price>>,
           Fetchers' = Fetchers,
           \A t \in Fetchers : \/ fetcher'[t] = fetcher[t]
                               \/ /\ fetcher[t] \notin Events
                                  /\ fetcher'[t] \notin Events \cup {"check"}
    PROVE  IInv'
<1>. "api" \in Fetchers
    BY TheFetchers DEF IInv, Fetching
<1>1. \A e \in Events : InHand(e)' = InHand(e)
    BY DEF InHand, At
<1>2. Size' = Size /\ HasButton' = HasButton
    BY DEF Size, HasButton
<1>3. RaisedInHand'
    BY <1>1, <1>2 DEF IInv, RaisedInHand
<1>4. InHandRaised' /\ NewAnchorNotSilenced'
    BY <1>2 DEF IInv, InHandRaised, NewAnchorNotSilenced
<1>5. RangeEnclosesPrice'
    BY DEF IInv, RangeEnclosesPrice
<1>6. AlertHasAnchor'
    BY DEF IInv, AlertHasAnchor
<1>. QED
    BY <1>3, <1>4, <1>5, <1>6 DEF IInv

Points == {"idle", "fetch", "check", "tp", "ml", "fetched", "current", "clear", "set"}

\* A fetching task that moves leaves the others where they are.
LEMMA FetcherMoves ==
    ASSUME TypeOK, NEW t \in Fetchers, NEW x \in Points,
           fetcher' = [fetcher EXCEPT ![t] = x]
    PROVE  /\ Fetchers' = Fetchers
           /\ HasButton' = HasButton
           /\ Fetchers' \in {Fetching(b) : b \in Buttons}
           /\ fetcher' \in [Fetchers' -> Points]
           /\ \A u \in Fetchers : fetcher'[u] = IF u = t THEN x ELSE fetcher[u]
<1>1. fetcher \in [Fetchers -> Points]
    BY DEF TypeOK, Points
<1>2. Fetchers' = Fetchers
    BY DEF Fetchers
<1>3. HasButton' = HasButton
    BY <1>2 DEF HasButton
<1>. QED
    BY <1>1, <1>2, <1>3 DEF TypeOK

\* The steps of an asking task keep the types.
LEMMA AskTypes ==
    ASSUME TypeOK, NEW w \in Asking, NEW r \in Requests,
           Ask(w, r) \/ AskStep(w)
    PROVE  TypeOK'
<1>. UNCHANGED <<price, anchor, fetcher, copy, raised>>
    BY DEF Ask, Store, AskStep, StoreCurrent, StorePending
<1>. Fetchers' = Fetchers
    BY DEF Fetchers
<1>1. CASE Ask(w, r)
    <2>1. box' \in [value : Requests, current : BOOLEAN, pending : BOOLEAN]
        BY <1>1 DEF Ask, Store, TypeOK
    <2>2. asker' \in [Asking -> [pc : {"idle", "current", "pending"}, req : Requests]]
        BY <1>1 DEF Ask, Store, TypeOK
    <2>. QED
        BY <1>1, <2>1, <2>2 DEF Ask, TypeOK
<1>2. CASE StoreCurrent(w)
    <2>1. box' \in [value : Requests, current : BOOLEAN, pending : BOOLEAN]
        BY <1>2 DEF StoreCurrent, TypeOK
    <2>2. asker' \in [Asking -> [pc : {"idle", "current", "pending"}, req : Requests]]
        BY <1>2 DEF StoreCurrent, TypeOK
    <2>. QED
        BY <1>2, <2>1, <2>2 DEF StoreCurrent, TypeOK
<1>3. CASE StorePending(w)
    <2>1. Current \in Requests
        BY DEF Requests
    <2>. QED
        BY <1>3, <2>1 DEF StorePending, TypeOK
<1>. QED
    BY <1>1, <1>2, <1>3 DEF AskStep

\* So do the steps of the button.
LEMMA ButtonTypes ==
    ASSUME TypeOK, ButtonFetch \/ ButtonAsk
    PROVE  TypeOK'
<1>. "ui" \in Fetchers
    BY DEF ButtonFetch, ButtonAsk, HasButton
<1>1. CASE ButtonFetch
    <2>1. fetcher' \in [Fetchers' -> Points] /\ Fetchers' \in {Fetching(b) : b \in Buttons}
        BY <1>1, FetcherMoves DEF ButtonFetch, Points
    <2>. QED
        BY <1>1, <2>1 DEF ButtonFetch, TypeOK, Points
<1>2. CASE ButtonAsk
    <2>1. fetcher' \in [Fetchers' -> Points] /\ Fetchers' \in {Fetching(b) : b \in Buttons}
        BY <1>2, FetcherMoves DEF ButtonAsk, Points
    <2>2. Current \in Requests /\ "ui" \in Asking
        BY DEF Requests, Asking
    <2>. QED
        BY <1>2, <2>1, <2>2 DEF ButtonAsk, Store, TypeOK, Points
<1>. QED
    BY <1>1, <1>2

\* Prices are natural numbers; a set anchor is one of them, with its extremes.
LEMMA AnchorTypes ==
    ASSUME NEW p \in Prices
    PROVE  LET a == AnchorAt(p) IN
           /\ a \in [active : {TRUE}, at : Prices, max : Prices, min : Prices,
                     sent : [Events -> BOOLEAN]]
           /\ a.at = p /\ a.max = p /\ a.min = p
           /\ \A e \in Events : a.sent[e] = FALSE
<1>1. NoneSent \in [Events -> BOOLEAN] /\ \A e \in Events : NoneSent[e] = FALSE
    BY DEF NoneSent
<1>. QED
    BY <1>1 DEF AnchorAt

\* So do the steps of a fetch.
LEMMA FetchTypes ==
    ASSUME TypeOK, AlertHasAnchor, NEW t \in Fetchers, FetchStep(t)
    PROVE  TypeOK'
<1>1. CASE FetchFailed(t)
    BY <1>1, FetcherMoves DEF FetchFailed, TypeOK, Points
<1>2. ASSUME NEW p \in Prices, FetchStored(t, p)
      PROVE  TypeOK'
    <2>1. fetcher' \in [Fetchers' -> Points] /\ Fetchers' \in {Fetching(b) : b \in Buttons}
        BY <1>2, FetcherMoves DEF FetchStored, Points
    <2>2. anchor' \in {NoAnchor} \cup [active : {TRUE}, at : Prices, max : Prices,
                                       min : Prices, sent : [Events -> BOOLEAN]]
        <3>1. CASE anchor = NoAnchor
            BY <1>2, <3>1 DEF FetchStored, Tracked, NoAnchor
        <3>2. CASE anchor \in [active : {TRUE}, at : Prices, max : Prices,
                               min : Prices, sent : [Events -> BOOLEAN]]
            BY <1>2, <3>2 DEF FetchStored, Tracked
        <3>. QED
            BY <3>1, <3>2 DEF TypeOK
    <2>. QED
        BY <1>2, <2>1, <2>2 DEF FetchStored, TypeOK, Points
<1>3. ASSUME NEW p \in Prices, NEW trend \in Trends, CheckNothing(t, p, trend)
      PROVE  TypeOK'
    BY <1>3, FetcherMoves DEF CheckNothing, TypeOK, Points
<1>4. ASSUME NEW p \in Prices, NEW trend \in Trends, NEW e \in Events,
             CheckDue(t, p, trend, e)
      PROVE  TypeOK'
    <2>1. fetcher' \in [Fetchers' -> Points] /\ Fetchers' \in {Fetching(b) : b \in Buttons}
        BY <1>4, FetcherMoves DEF CheckDue, Points, Events
    <2>2. raised' \in [Events -> 0 .. 3]
        BY <1>4 DEF CheckDue, TypeOK
    <2>. QED
        BY <1>4, <2>1, <2>2 DEF CheckDue, TypeOK, Points
<1>5. ASSUME NEW e \in Events, FlagSent(t, e)
      PROVE  TypeOK'
    <2>1. fetcher' \in [Fetchers' -> Points] /\ Fetchers' \in {Fetching(b) : b \in Buttons}
        BY <1>5, FetcherMoves DEF FlagSent, Points
    <2>2. anchor \in [active : {TRUE}, at : Prices, max : Prices,
                      min : Prices, sent : [Events -> BOOLEAN]]
        <3>1. anchor.active
            BY <1>5 DEF FlagSent, AlertHasAnchor
        <3>2. ~NoAnchor.active
            BY DEF NoAnchor
        <3>. QED
            BY <3>1, <3>2 DEF TypeOK
    <2>3. anchor' \in [active : {TRUE}, at : Prices, max : Prices,
                      min : Prices, sent : [Events -> BOOLEAN]]
        BY <1>5, <2>2 DEF FlagSent
    <2>. QED
        BY <1>5, <2>1, <2>3 DEF FlagSent, TypeOK, Points
<1>. QED
    BY <1>1, <1>2, <1>3, <1>4, <1>5 DEF FetchStep

\* So do the steps of apiTask at the mailbox.
LEMMA BoxTypes ==
    ASSUME TypeOK, "api" \in Fetchers,
           \/ ApiFetch \/ ApiBoxEmpty \/ ApiReadValue \/ ApiReadCurrent
           \/ ApiClear \/ ApiSet \/ ApiSetFailed
    PROVE  TypeOK'
<1>1. CASE ApiFetch
    BY <1>1, FetcherMoves DEF ApiFetch, TypeOK, Points
<1>2. CASE ApiBoxEmpty
    BY <1>2, FetcherMoves DEF ApiBoxEmpty, TypeOK, Points
<1>3. CASE ApiReadValue
    <2>1. fetcher' \in [Fetchers' -> Points] /\ Fetchers' \in {Fetching(b) : b \in Buttons}
        BY <1>3, FetcherMoves DEF ApiReadValue, Points
    <2>. QED
        BY <1>3, <2>1 DEF ApiReadValue, TypeOK, Points
<1>4. CASE ApiReadCurrent
    <2>1. fetcher' \in [Fetchers' -> Points] /\ Fetchers' \in {Fetching(b) : b \in Buttons}
        BY <1>4, FetcherMoves DEF ApiReadCurrent, Points
    <2>. QED
        BY <1>4, <2>1 DEF ApiReadCurrent, TypeOK, Points
<1>5. CASE ApiClear
    <2>1. fetcher' \in [Fetchers' -> Points] /\ Fetchers' \in {Fetching(b) : b \in Buttons}
        BY <1>5, FetcherMoves DEF ApiClear, Points
    <2>. QED
        BY <1>5, <2>1 DEF ApiClear, TypeOK, Points
<1>6. NoCopy \in [value : Requests, current : BOOLEAN]
    BY DEF NoCopy, Requests, Current
<1>7. CASE ApiSet
    <2>1. fetcher' \in [Fetchers' -> Points] /\ Fetchers' \in {Fetching(b) : b \in Buttons}
        BY <1>7, FetcherMoves DEF ApiSet, SetTo, Points
    <2>2. Target \in Prices
        BY <1>7, AnchorAssumption
        DEF ApiSet, Target, Copied, TypeOK, Requests, Current, AnchorAssumption
    <2>3. raised' \in [Events -> 0 .. 3]
        BY <1>7 DEF ApiSet, SetTo, NoneRaised
    <2>. QED
        BY <1>6, <1>7, <2>1, <2>2, <2>3, AnchorTypes DEF ApiSet, SetTo, TypeOK, Points
<1>8. CASE ApiSetFailed
    BY <1>6, <1>8, FetcherMoves DEF ApiSetFailed, TypeOK, Points
<1>. QED
    BY <1>1, <1>2, <1>3, <1>4, <1>5, <1>7, <1>8

-----------------------------------------------------------------------------
\* Steps without an alert in hand keep the invariant: asking, the button, a fetch that
\* fails, a check that finds nothing due, and the mailbox up to the new anchor.
LEMMA QuietSteps ==
    ASSUME IInv,
           \/ \E w \in Askers, r \in Requests : Ask(w, r)
           \/ \E w \in Asking : AskStep(w)
           \/ ButtonFetch \/ ButtonAsk
           \/ \E t \in Fetchers : FetchFailed(t)
           \/ \E t \in Fetchers, p \in Prices, trend \in Trends : CheckNothing(t, p, trend)
           \/ ApiFetch \/ ApiBoxEmpty \/ ApiReadValue \/ ApiReadCurrent
           \/ ApiClear \/ ApiSetFailed
    PROVE  IInv'
<1>. TypeOK /\ AlertHasAnchor /\ "api" \in Fetchers
    BY TheFetchers DEF IInv, Fetching
<1>1. CASE (\E w \in Askers, r \in Requests : Ask(w, r)) \/ (\E w \in Asking : AskStep(w))
    <2>1. TypeOK'
        BY <1>1, AskTypes DEF Asking, Requests
    <2>2. UNCHANGED <<anchor, raised, price, fetcher>>
        BY <1>1 DEF Ask, Store, AskStep, StoreCurrent, StorePending
    <2>3. Fetchers' = Fetchers
        BY <2>2 DEF Fetchers
    <2>. QED
        BY <2>1, <2>2, <2>3, QuietStep
<1>2. CASE ButtonFetch \/ ButtonAsk
    <2>1. PICK x \in {"fetch", "idle"} : fetcher' = [fetcher EXCEPT !["ui"] = x]
        BY <1>2 DEF ButtonFetch, ButtonAsk
    <2>2. "ui" \in Fetchers /\ fetcher["ui"] \notin Events
        BY <1>2 DEF ButtonFetch, ButtonAsk, HasButton, Events
    <2>3. Fetchers' = Fetchers /\ \A u \in Fetchers : fetcher'[u] = IF u = "ui" THEN x ELSE fetcher[u]
        BY <2>1, <2>2, FetcherMoves DEF Points
    <2>4. x \notin Events \cup {"check"}
        BY DEF Events
    <2>5. UNCHANGED <<anchor, raised, price>>
        BY <1>2 DEF ButtonFetch, ButtonAsk
    <2>6. TypeOK'
        BY <1>2, ButtonTypes
    <2>. QED
        BY <2>2, <2>3, <2>4, <2>5, <2>6, QuietStep
<1>3. ASSUME NEW t \in Fetchers,
             FetchFailed(t) \/ \E p \in Prices, trend \in Trends : CheckNothing(t, p, trend)
      PROVE  IInv'
    <2>1. fetcher' = [fetcher EXCEPT ![t] = "fetched"] /\ fetcher[t] \notin Events
        BY <1>3 DEF FetchFailed, CheckNothing, Events
    <2>2. Fetchers' = Fetchers /\ \A u \in Fetchers : fetcher'[u] = IF u = t THEN "fetched" ELSE fetcher[u]
        BY <2>1, FetcherMoves DEF Points
    <2>3. UNCHANGED <<anchor, raised, price>>
        BY <1>3 DEF FetchFailed, CheckNothing
    <2>4. TypeOK'
        BY <1>3, FetchTypes DEF FetchStep
    <2>5. "fetched" \notin Events \cup {"check"}
        BY DEF Events
    <2>. QED
        BY <2>1, <2>2, <2>3, <2>4, <2>5, QuietStep
<1>4. CASE ApiFetch \/ ApiBoxEmpty \/ ApiReadValue \/ ApiReadCurrent \/ ApiClear \/ ApiSetFailed
    <2>1. PICK x \in {"fetch", "idle", "current", "clear", "set"} :
              fetcher' = [fetcher EXCEPT !["api"] = x]
        BY <1>4 DEF ApiFetch, ApiBoxEmpty, ApiReadValue, ApiReadCurrent, ApiClear, ApiSetFailed
    <2>2. fetcher["api"] \notin Events
        BY <1>4
        DEF ApiFetch, ApiBoxEmpty, ApiReadValue, ApiReadCurrent, ApiClear, ApiSetFailed, Events
    <2>3. Fetchers' = Fetchers /\ \A u \in Fetchers : fetcher'[u] = IF u = "api" THEN x ELSE fetcher[u]
        BY <2>1, FetcherMoves DEF Points
    <2>4. x \notin Events \cup {"check"}
        BY DEF Events
    <2>5. UNCHANGED <<anchor, raised, price>>
        BY <1>4 DEF ApiFetch, ApiBoxEmpty, ApiReadValue, ApiReadCurrent, ApiClear, ApiSetFailed
    <2>6. TypeOK'
        BY <1>4, BoxTypes
    <2>. QED
        BY <2>2, <2>3, <2>4, <2>5, <2>6, QuietStep
<1>. QED
    BY <1>1, <1>2, <1>3, <1>4

\* A price that is stored keeps the invariant: the extremes follow it.
LEMMA StoredStep ==
    ASSUME IInv, NEW t \in Fetchers, NEW p \in Prices, FetchStored(t, p)
    PROVE  IInv'
<1>. TypeOK /\ AlertHasAnchor /\ "api" \in Fetchers
    BY TheFetchers DEF IInv, Fetching
<1>1. TypeOK'
    BY FetchTypes DEF FetchStep
<1>2. /\ fetcher' = [fetcher EXCEPT ![t] = "check"] /\ fetcher[t] \notin Events
      /\ "check" \notin Events
    BY DEF FetchStored, Events
<1>3. /\ Fetchers' = Fetchers /\ HasButton' = HasButton
      /\ \A u \in Fetchers : fetcher'[u] = IF u = t THEN "check" ELSE fetcher[u]
    BY <1>2, FetcherMoves DEF Points
<1>4. /\ anchor'.active = anchor.active /\ anchor'.sent = anchor.sent
      /\ anchor.active => /\ anchor'.at = anchor.at
                          /\ anchor'.max = IF p > anchor.max THEN p ELSE anchor.max
                          /\ anchor'.min = IF p < anchor.min THEN p ELSE anchor.min
    <2>1. CASE anchor = NoAnchor
        BY <2>1 DEF FetchStored, Tracked, NoAnchor
    <2>2. CASE anchor \in [active : {TRUE}, at : Prices, max : Prices, min : Prices,
                           sent : [Events -> BOOLEAN]]
        BY <2>2 DEF FetchStored, Tracked
    <2>. QED
        BY <2>1, <2>2 DEF TypeOK
<1>5. UNCHANGED raised /\ price' = p
    BY DEF FetchStored
<1>6. \A e \in Events : InHand(e)' = InHand(e)
    BY <1>2, <1>3 DEF InHand, At
<1>7. RaisedInHand'
    BY <1>3, <1>4, <1>5, <1>6 DEF IInv, RaisedInHand, Size
<1>8. InHandRaised' /\ NewAnchorNotSilenced' /\ AlertHasAnchor'
    BY <1>2, <1>3, <1>4, <1>5 DEF IInv, InHandRaised, NewAnchorNotSilenced, AlertHasAnchor
<1>9. RangeEnclosesPrice'
    <2>1. SUFFICES ASSUME anchor.active
                   PROVE  /\ anchor'.min <= anchor'.at /\ anchor'.at <= anchor'.max
                          /\ anchor'.min <= p /\ p <= anchor'.max
        BY <1>4, <1>5 DEF RangeEnclosesPrice
    <2>2. anchor.at \in Nat /\ anchor.min \in Nat /\ anchor.max \in Nat /\ p \in Nat
        <3>1. ~NoAnchor.active
            BY DEF NoAnchor
        <3>2. anchor.at \in Prices /\ anchor.min \in Prices /\ anchor.max \in Prices
            BY <2>1, <3>1 DEF TypeOK
        <3>. QED
            BY <3>2, AnchorAssumption DEF AnchorAssumption
    <2>. QED
        BY <1>4, <2>1, <2>2 DEF IInv, RangeEnclosesPrice
<1>. QED
    BY <1>1, <1>7, <1>8, <1>9 DEF IInv

\* An alert that is raised keeps the invariant: its flag was down.
LEMMA DueStep ==
    ASSUME IInv, NEW t \in Fetchers, NEW p \in Prices, NEW trend \in Trends,
           NEW e \in Events, CheckDue(t, p, trend, e)
    PROVE  IInv'
<1>. TypeOK /\ AlertHasAnchor /\ "api" \in Fetchers /\ Fetchers = Fetching(HasButton)
    BY TheFetchers DEF IInv, Fetching
<1>1. TypeOK'
    BY FetchTypes DEF FetchStep
<1>2. /\ fetcher[t] = "check" /\ fetcher' = [fetcher EXCEPT ![t] = e]
      /\ "check" \notin Events
      /\ UNCHANGED <<anchor, price>>
      /\ anchor.active /\ ~anchor.sent[e]
    BY DEF CheckDue, Due, Events
<1>3. /\ Fetchers' = Fetchers /\ HasButton' = HasButton
      /\ \A u \in Fetchers : fetcher'[u] = IF u = t THEN e ELSE fetcher[u]
    BY <1>2, FetcherMoves DEF Points, Events
<1>4. InHand(e)' = InHand(e) + 1 /\ InHand(e)' <= Size /\ InHand(e) \in Nat
    <2>1. CASE HasButton
        <3>1. Fetchers = {"api", "ui"} /\ Fetchers' = {"api", "ui"} /\ Size = 2
            BY <1>3, <2>1 DEF Fetching, Size
        <3>2. At(t, e) = 0 /\ At(t, e)' = 1
            BY <1>2, <1>3 DEF At
        <3>3. \A u \in {"api", "ui"} \ {t} : At(u, e)' = At(u, e) /\ At(u, e) \in 0 .. 1
            BY <1>3, <3>1 DEF At
        <3>. QED
            BY <3>1, <3>2, <3>3 DEF InHand
    <2>2. CASE ~HasButton
        <3>1. Fetchers = {"api"} /\ Fetchers' = {"api"} /\ Size = 1 /\ t = "api"
            BY <1>3, <2>2 DEF Fetching, Size
        <3>2. At("api", e) = 0 /\ At("api", e)' = 1
            BY <1>2, <1>3, <3>1 DEF At
        <3>3. At("ui", e) = 0 /\ At("ui", e)' = 0
            BY <3>1 DEF At
        <3>. QED
            BY <3>1, <3>2, <3>3 DEF InHand
    <2>. QED
        BY <2>1, <2>2
<1>5. \A f \in Events \ {e} : InHand(f)' = InHand(f)
    BY <1>2, <1>3 DEF InHand, At
<1>6. /\ raised'[e] = raised[e] + 1 /\ \A f \in Events \ {e} : raised'[f] = raised[f]
      /\ \A f \in Events : raised[f] \in Nat
    <2>1. raised[e] <= Size /\ Size \in 1 .. 2
        BY DEF IInv, RaisedInHand, Size
    <2>. QED
        BY <2>1 DEF CheckDue, TypeOK
<1>7. RaisedInHand'
    <2>1. Size' = Size /\ Size \in 1 .. 2
        BY <1>3 DEF Size
    <2>2. raised[e] <= InHand(e)
        BY <1>2 DEF IInv, RaisedInHand
    <2>3. raised'[e] <= InHand(e)' /\ raised'[e] <= Size'
        BY <1>4, <1>6, <2>1, <2>2
    <2>4. \A f \in Events \ {e} :
              raised'[f] <= Size' /\ (~anchor'.sent[f] => raised'[f] <= InHand(f)')
        BY <1>2, <1>5, <1>6, <2>1 DEF IInv, RaisedInHand
    <2>. QED
        BY <2>3, <2>4 DEF RaisedInHand
<1>8. InHandRaised' /\ NewAnchorNotSilenced'
    BY <1>2, <1>3, <1>6 DEF IInv, InHandRaised, NewAnchorNotSilenced
<1>9. AlertHasAnchor' /\ RangeEnclosesPrice'
    BY <1>2, <1>3 DEF IInv, AlertHasAnchor, RangeEnclosesPrice
<1>. QED
    BY <1>1, <1>7, <1>8, <1>9 DEF IInv

\* The flag that goes up keeps the invariant.
LEMMA FlagStep ==
    ASSUME IInv, NEW t \in Fetchers, NEW e \in Events, FlagSent(t, e)
    PROVE  IInv'
<1>. TypeOK /\ AlertHasAnchor /\ "api" \in Fetchers /\ Fetchers = Fetching(HasButton)
    BY TheFetchers DEF IInv, Fetching
<1>1. TypeOK'
    BY FetchTypes DEF FetchStep
<1>2. /\ fetcher[t] = e /\ fetcher' = [fetcher EXCEPT ![t] = "fetched"]
      /\ "fetched" \notin Events \cup {"check"}
      /\ UNCHANGED <<raised, price>>
    BY DEF FlagSent, Events
<1>3. /\ Fetchers' = Fetchers /\ HasButton' = HasButton
      /\ \A u \in Fetchers : fetcher'[u] = IF u = t THEN "fetched" ELSE fetcher[u]
    BY <1>2, FetcherMoves DEF Points
<1>4. /\ anchor'.active = anchor.active /\ anchor'.at = anchor.at
      /\ anchor'.max = anchor.max /\ anchor'.min = anchor.min
      /\ \A f \in Events : anchor'.sent[f] = (f = e \/ anchor.sent[f])
    <2>1. anchor.active /\ ~NoAnchor.active
        BY <1>2 DEF AlertHasAnchor, NoAnchor
    <2>2. anchor \in [active : {TRUE}, at : Prices, max : Prices, min : Prices,
                      sent : [Events -> BOOLEAN]]
        BY <2>1 DEF TypeOK
    <2>. QED
        BY <2>2 DEF FlagSent
<1>5. \A f \in Events \ {e} : InHand(f)' = InHand(f)
    BY <1>2, <1>3 DEF InHand, At
<1>6. RaisedInHand'
    <2>1. Size' = Size
        BY <1>3 DEF Size
    <2>2. \A f \in Events : raised'[f] <= Size'
        BY <1>2, <2>1 DEF IInv, RaisedInHand
    <2>3. ASSUME NEW f \in Events, ~anchor'.sent[f] PROVE raised'[f] <= InHand(f)'
        <3>1. f # e /\ ~anchor.sent[f]
            BY <1>4, <2>3
        <3>. QED
            BY <1>2, <1>5, <3>1 DEF IInv, RaisedInHand
    <2>. QED
        BY <2>2, <2>3 DEF RaisedInHand
<1>7. InHandRaised' /\ NewAnchorNotSilenced'
    <2>1. ~HasButton => t = "api"
        BY DEF Fetching
    <2>. QED
        <3>1. InHandRaised'
            BY <1>2, <1>3, <2>1 DEF InHandRaised
        <3>2. ASSUME ~HasButton, NEW f \in Events, anchor'.sent[f] PROVE raised'[f] >= 1
            <4>1. CASE f = e
                BY <1>2, <2>1, <3>2, <4>1 DEF IInv, InHandRaised
            <4>2. CASE f # e
                BY <1>2, <1>4, <3>2, <4>2 DEF IInv, NewAnchorNotSilenced
            <4>. QED
                BY <4>1, <4>2
        <3>. QED
            BY <1>3, <3>1, <3>2 DEF NewAnchorNotSilenced
<1>8. AlertHasAnchor' /\ RangeEnclosesPrice'
    BY <1>2, <1>3, <1>4 DEF IInv, AlertHasAnchor, RangeEnclosesPrice
<1>. QED
    BY <1>1, <1>6, <1>7, <1>8 DEF IInv

\* A new anchor keeps the invariant: it starts with no alerts and no flags.
LEMMA SetStep ==
    ASSUME IInv, ApiSet
    PROVE  IInv'
<1>. TypeOK /\ AlertHasAnchor /\ "api" \in Fetchers /\ Fetchers = Fetching(HasButton)
    BY TheFetchers DEF IInv, Fetching
<1>1. TypeOK'
    BY BoxTypes
<1>2. Target \in Prices /\ Target \in Nat
    BY AnchorAssumption
    DEF ApiSet, Target, Copied, TypeOK, Requests, Current, AnchorAssumption
<1>3. /\ anchor'.active /\ anchor'.at = Target /\ anchor'.max = Target /\ anchor'.min = Target
      /\ \A e \in Events : ~anchor'.sent[e]
    BY <1>2, AnchorTypes DEF ApiSet, SetTo
<1>4. \A e \in Events : raised'[e] = 0
    BY DEF ApiSet, SetTo, NoneRaised
<1>5. /\ fetcher' = [fetcher EXCEPT !["api"] = "idle"]
      /\ "idle" \notin Events \cup {"check"}
    BY DEF ApiSet, SetTo, Events
<1>6. /\ Fetchers' = Fetchers /\ HasButton' = HasButton
      /\ fetcher'["api"] = "idle"
    BY <1>5, FetcherMoves DEF Points
<1>7. RaisedInHand'
    BY <1>4 DEF RaisedInHand, Size, InHand, At
<1>8. InHandRaised' /\ NewAnchorNotSilenced' /\ AlertHasAnchor' /\ RangeEnclosesPrice'
    BY <1>2, <1>3, <1>5, <1>6
    DEF InHandRaised, NewAnchorNotSilenced, AlertHasAnchor, RangeEnclosesPrice
<1>. QED
    BY <1>1, <1>7, <1>8 DEF IInv

\* Every step keeps the invariant.
LEMMA NextIInv == IInv /\ [Next]_vars => IInv'
<1>. SUFFICES ASSUME IInv, [Next]_vars PROVE IInv'
    OBVIOUS
<1>. "api" \in Fetchers
    BY TheFetchers DEF IInv, Fetching
<1>1. ASSUME NEW t \in Fetchers, FetchStep(t) PROVE IInv'
    BY <1>1, QuietSteps, StoredStep, DueStep, FlagStep DEF FetchStep
<1>2. CASE ApiStep
    BY <1>1, <1>2, QuietSteps, SetStep DEF ApiStep
<1>3. CASE UNCHANGED vars
    <2>1. TypeOK'
        BY <1>3 DEF vars, IInv, TypeOK, Fetchers
    <2>2. Fetchers' = Fetchers
        BY <1>3 DEF vars, Fetchers
    <2>. QED
        BY <1>3, <2>1, <2>2, QuietStep DEF vars
<1>. QED
    BY <1>1, <1>2, <1>3, QuietSteps DEF Next

-----------------------------------------------------------------------------
\* The invariant holds in every state.
THEOREM Invariance == Spec => []IInv
<1>. QED
    BY InitIInv, NextIInv, PTL DEF Spec

\* Every value keeps its type, and an anchor that is set is a valid price with its
\* extremes, whatever was asked and whether or not there was a price.
THEOREM TypeCorrect == Spec => []TypeOK
<1>1. IInv => TypeOK
    BY DEF IInv
<1>. QED
    BY <1>1, Invariance, PTL

\* An anchor gives at most one take profit and one max loss alert for every task that
\* runs checkAnchorAlerts: one on boards without a button, two on boards with one.
THEOREM AlertsBounded == Spec => []OneAlertPerFetcher
<1>1. IInv => OneAlertPerFetcher
    BY TheFetchers DEF IInv, RaisedInHand, OneAlertPerFetcher
<1>. QED
    BY <1>1, Invariance, PTL

\* On a board without a button, setAnchorPrice never inherits an alert's flag.
THEOREM NewAnchorHeard == Spec => []NewAnchorNotSilenced
<1>1. IInv => NewAnchorNotSilenced
    BY DEF IInv
<1>. QED
    BY <1>1, Invariance, PTL

\* The extremes that updateAnchorMinMax keeps enclose the anchor, and the newest price
\* while apiTask checks it.
THEOREM RangeKept == Spec => []RangeEnclosesPrice
<1>1. IInv => RangeEnclosesPrice
    BY DEF IInv
<1>. QED
    BY <1>1, Invariance, PTL
===============================================================================
