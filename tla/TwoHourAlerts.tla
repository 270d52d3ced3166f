---------------------------- MODULE TwoHourAlerts ----------------------------
(***************************************************************************)
(* The alerts on two hours and longer: trend changes (TrendDetector) and   *)
(* the five families of check2HNotifications, which share one dispatcher   *)
(* with a throttle, one pending alert and a coalescing window.  A fetch    *)
(* runs them in a fixed order, one step each here; fetches are seconds or, *)
(* when the network is away, hours apart.                                  *)
(*                                                                         *)
(* An alert is its type.  Times are minutes since an event, counted until  *)
(* the cooldown is over (Cap, for the pairs of types), and they pass       *)
(* between fetches, in steps of Minutes.  Percentages are integers.        *)
(* Whether the queue takes a message makes no difference here: the         *)
(* throttle moves on either way.                                           *)
(***************************************************************************)
EXTENDS Integers

CONSTANTS
    Minutes,            \* the step of the clock
    Cap,                \* the longest cooldown of a pair of types
    GlobalCd,           \* twoHSecondaryGlobalCooldownSec
    FamilyCd,           \* breakCooldownMs, compressCooldownMs, ...: one per family
    TrendThreshold,     \* trendThreshold, in hundredths of a percent
    TrendExit,          \* the same times trendHysteresisFactor
    Ret2h, Ret30m,      \* returns that may be measured
    Ret1d, Ret7d

Scopes == {"2h", "1d", "7d"}
Primary == {"up", "down"}                               \* isPrimary2HAlert
Secondary == {"trend", "anchor", "mean", "compress"}
Families == {"up", "down", "compress", "mean", "anchor"}
Trends == {"UP", "DOWN", "SIDEWAYS"}
Steps == {"idle", "trend", "medium", "long", "check", "break", "compress", "mean", "anchor"}

ASSUME TwoHourAssumption ==
    /\ Minutes \in Nat \ {0}
    /\ Cap \in Nat /\ Cap >= 180
    /\ GlobalCd \in Nat
    /\ FamilyCd \in [Families -> Nat]
    /\ TrendThreshold \in Nat \ {0} /\ TrendExit \in 0 .. TrendThreshold
    /\ Ret2h \subseteq Int /\ Ret30m \subseteq Int /\ Ret1d \subseteq Int /\ Ret7d \subseteq Int

VARIABLES
    place,      \* which part of the fetch comes next
    disp,       \* the statics of the dispatcher
    armed,      \* gAlert2H: the families that may fire
    wasFar,     \* gAlert2H.meanWasFar
    age,        \* minutes since each family fired, or since the start
    trend,      \* the trend of each scope
    prev,       \* previousTrendState of the two-hour scope
    recent,     \* the scopes that announced a change less than ten minutes ago
    filled,     \* two hours of minute averages are there
    booting     \* the first 45 seconds

twoHourVars == <<place, disp, armed, wasFar, age, trend, prev, recent, filled, booting>>

TwoHourInit ==
    /\ place = "idle"
    /\ disp = [pend |-> "none", late |-> FALSE, last |-> "none", since |-> 0,
               sinceSecondary |-> GlobalCd, gap |-> GlobalCd, waiting |-> {}]
    /\ armed = Families
    /\ wasFar = FALSE
    /\ age = [f \in Families |-> 0]
    /\ trend \in [Scopes -> Trends]
    /\ trend["1d"] = "SIDEWAYS" /\ trend["7d"] = "SIDEWAYS"
    /\ prev = "SIDEWAYS"
    /\ recent = {}
    /\ filled \in BOOLEAN
    /\ booting = TRUE

-----------------------------------------------------------------------------
(* The throttle *)

Priority == [s \in Secondary |->
    CASE s = "trend" -> 4 [] s = "anchor" -> 3 [] s = "mean" -> 2 [] s = "compress" -> 1]

\* Any alert before this one ...
FallbackCd == [s \in Secondary |->
    CASE s \in {"anchor", "compress"} -> 120 [] s = "mean" -> 60 [] s = "trend" -> 180]

\* ... and the pairs with a rule of their own.
SecondaryCd(last, s) ==
    CASE <<last, s>> \in {<<"mean", "compress">>, <<"compress", "mean">>} -> 90
      [] <<last, s>> = <<"anchor", "anchor">> -> 180
      [] OTHER -> FallbackCd[s]

\* The older, configurable rules, with their defaults.
LegacyCd(last, s) ==
    CASE <<last, s>> \in {<<"trend", "trend">>, <<"compress", "compress">>} -> 180
      [] <<last, s>> = <<"mean", "mean">> -> 120
      [] <<last, s>> = <<"trend", "mean">> -> 60
      [] OTHER -> 0

\* shouldThrottle2HAlert, for a secondary alert
Throttled(d, s) ==
    \/ d.sinceSecondary < GlobalCd
    \/ /\ d.last # "none"
       /\ d.since < SecondaryCd(d.last, s) \/ d.since < LegacyCd(d.last, s)

-----------------------------------------------------------------------------
(* The dispatcher.  gap and waiting are history: the minutes between the last two  *)
(* secondary alerts that left, and the alerts it has accepted and not yet sent,    *)
(* dropped by the throttle or replaced by a more important one.                    *)

\* Faulty: a pending alert is sent whatever has left since it was accepted.
FlushUnchecked(d) ==
    IF d.pend = "none" THEN d
    ELSE [d EXCEPT !.pend = "none", !.late = FALSE, !.waiting = @ \ {d.pend},
                   !.last = d.pend, !.since = 0, !.sinceSecondary = 0, !.gap = d.sinceSecondary]

\* flushPendingSecondaryAlertInternal
Flush(d) ==
    IF d.pend = "none" THEN d
    ELSE LET gone == [d EXCEPT !.pend = "none", !.late = FALSE, !.waiting = @ \ {d.pend}]
         IN  IF Throttled(d, d.pend) THEN gone
             ELSE [gone EXCEPT !.last = d.pend, !.since = 0,
                               !.sinceSecondary = 0, !.gap = d.sinceSecondary]

\* A primary alert is never throttled; the pending one goes first.
SendPrimary(d, p) == [Flush(d) EXCEPT !.last = p, !.since = 0]

Store(d, s) == [d EXCEPT !.pend = s, !.late = FALSE, !.waiting = @ \cup {s}]

\* Is a secondary alert accepted?
Accepts(d, s) ==
    /\ ~Throttled(d, s)
    /\ d.pend = "none" \/ d.late \/ Priority[s] > Priority[d.pend]

\* Faulty: a pending alert that has waited too long is overwritten.
PutLost(d, s) ==
    IF d.pend # "none" /\ ~d.late
    THEN Store([d EXCEPT !.waiting = @ \ {d.pend}], s)
    ELSE Store(d, s)

\* Within the window a more important alert replaces the pending one; after it the
\* pending one is flushed first.
Put(d, s) ==
    IF d.pend # "none" /\ ~d.late
    THEN Store([d EXCEPT !.waiting = @ \ {d.pend}], s)
    ELSE Store(Flush(d), s)

-----------------------------------------------------------------------------
(* Trends *)

\* determineTrendState, with its hysteresis
DetermineTrend(current, r2h, r30m) ==
    CASE current = "UP" ->
            IF r2h < TrendExit \/ r30m < 0 THEN "SIDEWAYS" ELSE "UP"
      [] current = "DOWN" ->
            IF r2h > -TrendExit \/ r30m > 0 THEN "SIDEWAYS" ELSE "DOWN"
      [] OTHER ->
            IF r2h >= TrendThreshold /\ r30m >= 0 THEN "UP"
            ELSE IF r2h <= -TrendThreshold /\ r30m <= 0 THEN "DOWN" ELSE "SIDEWAYS"

\* determineMediumTrendState, determineLongTermTrendState
PlainTrend(r, threshold) ==
    IF r >= threshold THEN "UP" ELSE IF r <= -threshold THEN "DOWN" ELSE "SIDEWAYS"

\* What the three checks do once they have seen a change: an alert, unless there was
\* one in the last ten minutes, data are missing, or the device has just started.
Announce(scope, enough) ==
    IF scope \notin recent /\ enough /\ ~booting /\ Accepts(disp, "trend")
    THEN /\ disp' = Put(disp, "trend")
         /\ recent' = recent \cup {scope}
    ELSE UNCHANGED <<disp, recent>>

\* fetchPrice: the two-hour trend, then checkTrendChange.
TwoHourTrend(r2h, r30m) ==
    LET now == DetermineTrend(trend["2h"], r2h, r30m)
    IN  /\ place = "trend"
        /\ IF now = prev THEN UNCHANGED <<disp, recent>> ELSE Announce("2h", r2h # 0 /\ filled)
        /\ trend' = [trend EXCEPT !["2h"] = now]
        /\ prev' = now
        /\ place' = "medium"
        /\ UNCHANGED <<armed, wasFar, age, filled, booting>>

\* Not enough history for the two returns: the state of the warm start stays, and a
\* change it made is found now, and forgotten when ret_2h is 0.
NoTwoHourTrend ==
    /\ place = "trend"
    /\ prev' = trend["2h"]
    /\ place' = "medium"
    /\ UNCHANGED <<disp, recent, trend, armed, wasFar, age, filled, booting>>

\* checkMediumTrendChange and checkLongTermTrendChange.  A return of zero is taken for
\* none; the day is not announced without the four hours either (fours).
SlowTrend(at, next, scope, threshold, returns, fours) ==
    /\ place = at
    /\ place' = next
    /\ \/ UNCHANGED <<disp, recent, trend>>        \* the return is not known yet
       \/ \E r \in returns, known \in fours :
             LET now == PlainTrend(r, threshold)
             IN  /\ now # trend[scope]
                 /\ Announce(scope, known /\ r # 0)
                 /\ trend' = [trend EXCEPT ![scope] = now]
    /\ UNCHANGED <<armed, wasFar, age, prev, filled, booting>>

MediumTrend == SlowTrend("medium", "long", "1d", 200, Ret1d, BOOLEAN)
LongTrend == SlowTrend("long", "check", "7d", 100, Ret7d, {TRUE})

-----------------------------------------------------------------------------
(* check2HNotifications *)

\* Faulty: without WiFi or metrics it returns at once.
NothingToCheckHangs ==
    /\ place = "check"
    /\ place' = "idle"
    /\ UNCHANGED <<disp, armed, wasFar, age, trend, prev, recent, filled, booting>>

\* WiFi is gone, or there are no two-hour metrics.
NothingToCheck ==
    /\ place = "check"
    /\ disp' = Flush(disp)
    /\ place' = "idle"
    /\ UNCHANGED <<armed, wasFar, age, trend, prev, recent, filled, booting>>

BeginCheck ==
    /\ place = "check"
    /\ disp' = Flush(disp)
    /\ place' = "break"
    /\ UNCHANGED <<armed, wasFar, age, trend, prev, recent, filled, booting>>

\* Where the price is: beyond the breakout threshold, within the reset margin of the
\* high or the low, or between.  In a narrow range it may be within both margins.
Zones == {"above", "top", "middle", "bottom", "below", "narrow"}

Fires(f) == f \in armed /\ age[f] >= FamilyCd[f]

\* A and B: sent at once, and disarmed even when the queue refuses it.
Breakout(zone) ==
    LET fire == IF zone = "above" /\ Fires("up") THEN {"up"}
                ELSE IF zone = "below" /\ Fires("down") THEN {"down"} ELSE {}
        rearm == (IF zone \in {"middle", "bottom", "below"} THEN {"up"} ELSE {})
                 \cup (IF zone \in {"middle", "top", "above"} THEN {"down"} ELSE {})
    IN  /\ place = "break"
        /\ \/ fire = {} /\ UNCHANGED disp
           \/ \E p \in fire : disp' = SendPrimary(disp, p)
        /\ age' = [f \in Families |-> IF f \in fire THEN 0 ELSE age[f]]
        /\ armed' = (armed \ fire) \cup rearm
        /\ place' = "compress"
        /\ UNCHANGED <<wasFar, trend, prev, recent, filled, booting>>

\* C, D and E: a family is disarmed only when its alert was accepted; it is armed again
\* when the condition is clearly over.
Offer(f, due, over) ==
    LET taken == due /\ Fires(f) /\ Accepts(disp, f)
    IN  /\ disp' = IF taken THEN Put(disp, f) ELSE disp
        /\ age' = IF taken THEN [age EXCEPT ![f] = 0] ELSE age
        /\ armed' = IF over THEN armed \cup {f} ELSE IF taken THEN armed \ {f} ELSE armed

Compression(range) ==
    /\ place = "compress"
    /\ Offer("compress", range = "small", range = "large")
    /\ place' = "mean"
    /\ UNCHANGED <<wasFar, trend, prev, recent, filled, booting>>

\* The price touches the average after it has been far from it.
MeanTouch(dist) ==
    LET far == wasFar \/ dist = "far"
    IN  /\ place = "mean"
        /\ Offer("mean", far /\ dist = "touch", dist \in {"apart", "far"})
        /\ wasFar' = (far /\ ("mean" \in armed => "mean" \in armed'))
        /\ place' = "anchor"
        /\ UNCHANGED <<trend, prev, recent, filled, booting>>

\* The anchor lies outside the range of two hours; without an anchor nothing happens.
\* getActiveAnchorPrice may give an automatic anchor of an older build, while the
\* re-arming looks at the manual one.
AnchorContext(where) ==
    /\ place = "anchor"
    /\ Offer("anchor", where \in {"outside", "automatic"}, where \in {"inside", "automatic"})
    /\ place' = "idle"
    /\ UNCHANGED <<wasFar, trend, prev, recent, filled, booting>>

-----------------------------------------------------------------------------
BeginFetch ==
    /\ place = "idle"
    /\ place' = "trend"
    /\ UNCHANGED <<disp, armed, wasFar, age, trend, prev, recent, filled, booting>>

\* Time between two fetches: longer than the coalescing window and the start-up
\* suppression, perhaps longer than the ten minutes of a trend ...
Lull ==
    /\ place = "idle"
    /\ disp' = [disp EXCEPT !.late = (disp.pend # "none")]
    /\ recent' \in {recent, {}}
    /\ booting' = FALSE
    /\ UNCHANGED <<place, armed, wasFar, age, trend, prev, filled>>

Later(n, cap) == IF n + Minutes < cap THEN n + Minutes ELSE cap

\* ... or long enough for cooldowns.
Wait ==
    /\ place = "idle"
    /\ disp' = [disp EXCEPT !.late = (disp.pend # "none"), !.since = Later(@, Cap),
                            !.sinceSecondary = Later(@, GlobalCd)]
    /\ age' = [f \in Families |-> Later(age[f], FamilyCd[f])]
    /\ recent' = {}
    /\ filled' \in {filled, TRUE}
    /\ booting' = FALSE
    /\ UNCHANGED <<place, armed, wasFar, trend, prev>>

Fetch ==
    \/ BeginFetch
    \/ \E r2h \in Ret2h, r30m \in Ret30m : TwoHourTrend(r2h, r30m)
    \/ NoTwoHourTrend
    \/ MediumTrend
    \/ LongTrend
    \/ NothingToCheck
    \/ BeginCheck
    \/ \E zone \in Zones : Breakout(zone)
    \/ \E range \in {"small", "between", "large"} : Compression(range)
    \/ \E dist \in {"touch", "near", "apart", "far"} : MeanTouch(dist)
    \/ \E where \in {"outside", "automatic", "inside", "none"} : AnchorContext(where)

TwoHourNext == Fetch \/ Lull \/ Wait

\* apiTask fetches again and again (see NtfyDelivery for that).
TwoHourSpec == TwoHourInit /\ [][TwoHourNext]_twoHourVars /\ WF_twoHourVars(Fetch)

-----------------------------------------------------------------------------
(* Properties *)

\* The type invariant.
TwoHourTypeOK ==
    /\ place \in Steps
    /\ disp \in [pend : Secondary \cup {"none"}, late : BOOLEAN,
                 last : Primary \cup Secondary \cup {"none"}, since : 0 .. Cap,
                 sinceSecondary : 0 .. GlobalCd, gap : 0 .. GlobalCd, waiting : SUBSET Secondary]
    /\ armed \subseteq Families
    /\ wasFar \in BOOLEAN
    /\ age \in [Families -> Nat] /\ \A f \in Families : age[f] <= FamilyCd[f]
    /\ trend \in [Scopes -> Trends]
    /\ prev \in Trends
    /\ recent \subseteq Scopes
    /\ filled \in BOOLEAN
    /\ booting \in BOOLEAN

\* "Hard cap": two secondary alerts never leave within the global cooldown, although
\* each is checked when it is accepted and sent at another time, behind others that
\* were accepted later or sent in between.
SecondariesSpaced == disp.gap >= GlobalCd

\* An alert whose family has been told "accepted", and has therefore disarmed itself
\* for hours, is the pending one until it is sent, dropped by the throttle or replaced
\* by a more important one: no order of windows, primary alerts and fetches without
\* metrics overwrites it unseen.
AcceptedIsPending == disp.waiting = IF disp.pend = "none" THEN {} ELSE {disp.pend}

\* A pending alert does not wait for another alert to push it: every fetch flushes,
\* also one without WiFi or metrics.
PendingLeaves == disp.pend # "none" ~> disp.pend = "none"

\* "Within the window, multiple secondary candidates are merged; the one with the
\* highest priority is sent when the window is flushed (e.g. by a primary alert or a
\* timer)": check2HNotifications does not flush before the window is over.
WindowRespected ==
    [][place = "check" /\ disp.pend # "none" /\ ~disp.late => disp'.pend = disp.pend]_twoHourVars
=============================================================================
