---------------------------- MODULE MinuteAlerts ----------------------------
(***************************************************************************)
(* The alerts on one to thirty minutes: checkAndNotify of AlertEngine with *)
(* its three paths (1m spike or stand-alone burst, 30m move, 5m move), the *)
(* confluence alert the first and the last of them may raise instead, and  *)
(* the regime (RegimeEngine), which stretches their cooldowns.             *)
(*                                                                         *)
(* Returns are reduced to what the paths test: whether a move is over its  *)
(* threshold (scaled by volatility, night and regime) and its direction.   *)
(* The unit of time is the volume-event cooldown of one minute; every age  *)
(* is in such units, up to the largest one it is compared with.            *)
(***************************************************************************)
EXTENDS Integers, Sequences

CONSTANTS
    Window,             \* CONFLUENCE_TIME_WINDOW_MS
    Hour,               \* how long the counters run before they are reset
    MaxPerHour,         \* MAX_1M_ALERTS_PER_HOUR, MAX_30M_..., MAX_5M_...
    Cooldown,           \* per kind and regime: notificationCooldowns, scaled
    Dwell,              \* regimeMinDwellSec
    NightCooldown,      \* nightCooldown5Sec, which replaces the one of five
    CooldownCap         \* the largest cooldown

Directions == {"up", "down"}
Kinds == {"one", "thirty", "five"}
Regimes == {"slap", "geladen", "energiek"}
\* The row of the multipliers that selectRegimeRuntimeMultipliers takes; "off" has ones.
Rows == Regimes \cup {"off"}

ASSUME MinuteAssumption ==
    /\ Window \in Nat \ {0}
    /\ Hour \in Nat \ {0}
    /\ MaxPerHour \in [Kinds -> Nat \ {0}]
    /\ CooldownCap \in Nat \ {0}
    /\ Cooldown \in [Kinds -> [Rows -> 0 .. CooldownCap]]
    /\ NightCooldown \in [Rows -> 0 .. CooldownCap]
    /\ Dwell \in Nat \ {0}

VARIABLES
    pc,         \* the next path of the round, or "idle"
    round,      \* what the later paths of a round need to know of the earlier ones
    ev,         \* last1mEvent and last5mEvent: direction, age, usedInConfluence
    quiet,      \* lastVolumeEventMs, by its age: a minute has passed
    since,      \* lastNotification1Min, ...30Min, ...5Min, by their ages
    sinceConf,  \* lastConfluenceAlert, by its age
    hour,       \* the age of hourStartTime
    count,      \* alerts1MinThisHour, ...
    enabled,    \* regimeEngineEnabled
    committed,  \* g_committed
    pend,       \* g_pendingRegime and g_pendingSinceMs, by its age
    other,      \* history: the age of the last tick that proposed something else
    sent        \* history: what has been sent in the last minute, in order

alertVars == <<round, ev, quiet, since, sinceConf, hour, count, sent>>
regimeVars == <<enabled, committed, pend, other>>
vars == <<pc, alertVars, regimeVars>>

NoEvent == [dir |-> "none", age |-> Window + 1, used |-> FALSE]
NoRound == [dir |-> "any", confirms |-> {}, confluence |-> FALSE]

Init ==
    /\ pc = "idle"
    /\ round = NoRound
    /\ ev = [one |-> NoEvent, five |-> NoEvent]
    /\ quiet = TRUE
    /\ since = [k \in Kinds |-> CooldownCap]
    /\ sinceConf = Window
    /\ hour = Hour
    /\ count = [k \in Kinds |-> 0]
    /\ enabled \in BOOLEAN
    /\ committed = "geladen"
    /\ pend = [to |-> "none", age |-> 0]
    /\ other = [r \in Regimes |-> 0]
    /\ sent = <<>>

-----------------------------------------------------------------------------
(* The regime *)

\* Scores, in hundredths.  The thresholds to enter and to leave a regime differ, so
\* that what is proposed depends on the committed one.
Scores == {[energy |-> e, loaded |-> l] : e \in {20, 45, 80, 100}, l \in {20, 40, 60}}

\* classifyProposed, with the default thresholds
ClassifyProposed(current, s) ==
    CASE current = "energiek" ->
            IF s.energy >= 78 THEN "energiek" ELSE IF s.loaded >= 35 THEN "geladen" ELSE "slap"
      [] current = "slap" ->
            IF s.energy <= 52 /\ s.loaded < 45 THEN "slap"
            ELSE IF s.energy >= 95 THEN "energiek" ELSE "geladen"
      [] OTHER ->
            IF s.energy >= 95 THEN "energiek"
            ELSE IF s.energy <= 38 /\ s.loaded <= 35 THEN "slap" ELSE "geladen"

\* Faulty: a change of the pending regime does not start the dwell again.
ApplyDwellKept(proposed) ==
    IF proposed = committed
    THEN pend' = [to |-> "none", age |-> 0] /\ UNCHANGED committed
    ELSE IF pend.to # proposed
    THEN pend' = [pend EXCEPT !.to = proposed] /\ UNCHANGED committed
    ELSE IF pend.age >= Dwell
    THEN pend' = [to |-> "none", age |-> 0] /\ committed' = proposed
    ELSE UNCHANGED <<pend, committed>>

\* applyDwellAndCommit
ApplyDwell(proposed) ==
    IF proposed = committed
    THEN pend' = [to |-> "none", age |-> 0] /\ UNCHANGED committed
    ELSE IF pend.to # proposed
    THEN pend' = [to |-> proposed, age |-> 0] /\ UNCHANGED committed
    ELSE IF pend.age >= Dwell
    THEN pend' = [to |-> "none", age |-> 0] /\ committed' = proposed
    ELSE UNCHANGED <<pend, committed>>

\* regimeEngineTick, before every round.  A disabled engine keeps what is pending.
RegimeTick ==
    /\ pc = "idle"
    /\ pc' = "begin"
    /\ \/ ~enabled /\ UNCHANGED <<committed, pend, other>>
       \/ /\ enabled
          /\ \E s \in Scores :
                LET proposed == ClassifyProposed(committed, s)
                IN  /\ ApplyDwell(proposed)
                    /\ other' = [r \in Regimes |-> IF r = proposed THEN other[r] ELSE 0]
    /\ UNCHANGED <<alertVars, enabled>>

-----------------------------------------------------------------------------
(* What the paths share *)

\* selectRegimeRuntimeMultipliers
Row == IF enabled THEN committed ELSE "off"

\* checkAlertConditions
Allowed(k, cooldown) == since[k] >= cooldown /\ count[k] < MaxPerHour[k]

\* update1mEvent and update5mEvent, when the move is confirmed by volume and range
Happened(dir) == [dir |-> dir, age |-> 0, used |-> FALSE]

\* How far two events are apart, which eventsWithinTimeWindow compares
Apart(a, b) == IF a.age > b.age THEN a.age - b.age ELSE b.age - a.age

\* Would checkAndSendConfluenceAlert send?  round.confirms has the directions that the
\* volume of the 5m candle and the two-hour trend support.
Confluent(one, five) ==
    /\ one.dir # "none" /\ five.dir # "none"
    /\ ~one.used /\ ~five.used
    /\ one.dir = five.dir
    /\ Apart(one, five) <= Window
    /\ one.dir \in round.confirms
    /\ sinceConf >= Window
    /\ quiet

\* An alert that is due is sent, or refused by the queue: then nothing has happened.
Offered(due) == IF due THEN BOOLEAN ELSE {FALSE}

\* What a path leaves behind when it has sent a confluence alert, one of its own kind,
\* both or nothing.
Leave(confluence, own, k) ==
    /\ sinceConf' = IF confluence THEN 0 ELSE sinceConf
    /\ since' = IF own THEN [since EXCEPT ![k] = 0] ELSE since
    /\ count' = IF own THEN [count EXCEPT ![k] = @ + 1] ELSE count
    /\ quiet' = (quiet /\ ~confluence /\ ~own)
    /\ sent' = sent \o (IF confluence THEN <<"confluence">> ELSE <<>>)
                    \o (IF own THEN <<k>> ELSE <<>>)

-----------------------------------------------------------------------------
(* checkAndNotify *)

\* The counters start again every hour.
BeginRound(confirms) ==
    /\ pc = "begin"
    /\ round' = [NoRound EXCEPT !.confirms = confirms]
    /\ IF hour = Hour THEN hour' = 0 /\ count' = [k \in Kinds |-> 0]
       ELSE UNCHANGED <<hour, count>>
    /\ pc' = "one"
    /\ UNCHANGED <<ev, quiet, since, sinceConf, sent, regimeVars>>

\* Not a number, or no return at all.
SkipRound ==
    /\ pc = "begin"
    /\ pc' = "idle"
    /\ UNCHANGED <<alertVars, regimeVars>>

\* What the first path may find: a spike the 5m return confirms, the same on a second of
\* poor quality, or, in the energetic regime, a burst of its own with or without enough
\* direction.
Finds == {"spike", "noisy", "burst", "weak"}

\* Faulty: a confluence alert does not keep the 1m alert back.
OneMinuteBoth(find, dir) ==
    LET one == Happened(dir)
    IN  /\ pc = "one"
        /\ find \in {"burst", "weak"} => Row = "energiek"
        /\ \E conf \in Offered(find # "noisy" /\ Confluent(one, ev.five)),
              own \in Offered(find \in {"spike", "burst"} /\ quiet /\ Allowed("one", Cooldown["one"][Row])) :
              /\ ev' = [ev EXCEPT !.one = [one EXCEPT !.used = conf]]
              /\ round' = [round EXCEPT !.dir = IF find \in {"spike", "noisy"} THEN dir ELSE "any",
                                        !.confluence = conf]
              /\ Leave(conf, own, "one")
        /\ pc' = "thirty"
        /\ UNCHANGED <<hour, regimeVars>>

\* A confluence alert goes in the place of the 1m alert.
OneMinute(find, dir) ==
    LET one == Happened(dir)
    IN  /\ pc = "one"
        /\ find \in {"burst", "weak"} => Row = "energiek"
        /\ \E conf \in Offered(find # "noisy" /\ Confluent(one, ev.five)),
              own \in Offered(find \in {"spike", "burst"} /\ quiet /\ Allowed("one", Cooldown["one"][Row])) :
              /\ ~(conf /\ own)
              /\ ev' = [ev EXCEPT !.one = [one EXCEPT !.used = conf]]
              /\ round' = [round EXCEPT !.dir = IF find \in {"spike", "noisy"} THEN dir ELSE "any",
                                        !.confluence = conf]
              /\ Leave(conf, own, "one")
        /\ pc' = "thirty"
        /\ UNCHANGED <<hour, regimeVars>>

NoOneMinute ==
    /\ pc = "one"
    /\ pc' = "thirty"
    /\ UNCHANGED <<alertVars, regimeVars>>

\* A 30m move that the 5m return confirms.
ThirtyMinute ==
    /\ pc = "thirty"
    /\ \E own \in Offered(quiet /\ Allowed("thirty", Cooldown["thirty"][Row])) :
          Leave(FALSE, own, "thirty")
    /\ pc' = "five"
    /\ UNCHANGED <<round, ev, hour, regimeVars>>

\* Faulty: at night the 5m event is not recorded.
FiveMinuteUnrecorded(dir, night) ==
    LET five == IF night THEN ev.five ELSE Happened(dir)
        cooldown == IF night THEN NightCooldown[Row] ELSE Cooldown["five"][Row]
    IN  /\ pc = "five"
        /\ round.dir \in {"any", dir}
        /\ \E conf \in Offered(Confluent(ev.one, five)), matches \in BOOLEAN :
              \E own \in Offered(/\ round.confluence \/ conf \/ quiet
                                 /\ ~night \/ matches
                                 /\ Allowed("five", cooldown)) :
                 /\ ev' = [one |-> [ev.one EXCEPT !.used = @ \/ conf], five |-> five]
                 /\ Leave(conf, own, "five")
        /\ round' = NoRound
        /\ pc' = "idle"
        /\ UNCHANGED <<hour, regimeVars>>

\* A 5m move.  It may follow the confluence alert of its own round, is checked against
\* another cooldown at night, and then also against the direction of the 30m return.
FiveMinute(dir, night) ==
    LET five == Happened(dir)
        cooldown == IF night THEN NightCooldown[Row] ELSE Cooldown["five"][Row]
    IN  /\ pc = "five"
        /\ round.dir \in {"any", dir}
        /\ \E conf \in Offered(Confluent(ev.one, five)), matches \in BOOLEAN :
              \E own \in Offered(/\ round.confluence \/ conf \/ quiet
                                 /\ ~night \/ matches
                                 /\ Allowed("five", cooldown)) :
                 /\ ev' = [one |-> [ev.one EXCEPT !.used = @ \/ conf], five |-> five]
                 /\ Leave(conf, own, "five")
        /\ round' = NoRound
        /\ pc' = "idle"
        /\ UNCHANGED <<hour, regimeVars>>

NoFiveMinute ==
    /\ pc = "five"
    /\ round' = NoRound
    /\ pc' = "idle"
    /\ UNCHANGED <<ev, quiet, since, sinceConf, hour, count, sent, regimeVars>>

-----------------------------------------------------------------------------
(* Between two rounds *)

\* The engine is switched on or off, in the web page or over MQTT.
Toggle ==
    /\ pc = "idle"
    /\ enabled' = ~enabled
    /\ UNCHANGED <<pc, alertVars, committed, pend, other>>

Older(n, cap) == IF n < cap THEN n + 1 ELSE cap

\* A minute.  There are many rounds in one, and perhaps none.
Minute ==
    /\ pc = "idle"
    /\ quiet' = TRUE
    /\ sent' = <<>>
    /\ ev' = [e \in DOMAIN ev |-> [ev[e] EXCEPT !.age = Older(@, Window + 1)]]
    /\ since' = [k \in Kinds |-> Older(since[k], CooldownCap)]
    /\ sinceConf' = Older(sinceConf, Window)
    /\ hour' = Older(hour, Hour)
    /\ pend' = [pend EXCEPT !.age = IF pend.to = "none" THEN 0 ELSE Older(@, Dwell)]
    /\ other' = [r \in Regimes |-> Older(other[r], Dwell)]
    /\ UNCHANGED <<pc, round, count, enabled, committed>>

Next ==
    \/ RegimeTick
    \/ \E confirms \in SUBSET Directions : BeginRound(confirms)
    \/ SkipRound
    \/ \E find \in Finds, dir \in Directions : OneMinute(find, dir)
    \/ NoOneMinute
    \/ ThirtyMinute
    \/ \E dir \in Directions, night \in BOOLEAN : FiveMinute(dir, night)
    \/ NoFiveMinute
    \/ Toggle
    \/ Minute

Spec == Init /\ [][Next]_vars

-----------------------------------------------------------------------------
(* Properties *)

\* The type invariant.
TypeOK ==
    /\ pc \in {"idle", "begin", "one", "thirty", "five"}
    /\ round \in [dir : Directions \cup {"any"}, confirms : SUBSET Directions, confluence : BOOLEAN]
    /\ ev \in [{"one", "five"} -> [dir : Directions \cup {"none"}, age : 0 .. Window + 1, used : BOOLEAN]]
    /\ quiet \in BOOLEAN
    /\ since \in [Kinds -> 0 .. CooldownCap]
    /\ sinceConf \in 0 .. Window
    /\ hour \in 0 .. Hour
    /\ count \in [Kinds -> Nat] /\ \A k \in Kinds : count[k] <= MaxPerHour[k]
    /\ enabled \in BOOLEAN
    /\ committed \in Regimes
    /\ pend \in [to : Regimes \cup {"none"}, age : 0 .. Dwell]
    /\ other \in [Regimes -> 0 .. Dwell]
    /\ sent \in Seq(Kinds \cup {"confluence"})

\* Four paths share one quiet minute: whatever they find and the queue refuses, one alert
\* leaves in it, or a confluence alert and the 5m alert of the same round, never a 1m
\* alert beside a confluence alert.
OneWordPerMinute == Len(sent) <= 1 \/ sent = <<"confluence", "five">>

\* The two events of a confluence alert are both recent when it is sent, although the
\* code only compares them with each other and never with the clock.
ConfluenceIsFresh ==
    [][Len(sent') > Len(sent) /\ sent'[Len(sent) + 1] = "confluence"
         => ev'.one.age <= Window /\ ev'.five.age <= Window]_vars

\* A regime is only committed when no tick of the dwell time, however the proposals
\* alternate and whether the engine was switched off in between, proposed another.
RegimeDwells == [][committed' # committed => other[committed'] >= Dwell]_vars
=============================================================================
