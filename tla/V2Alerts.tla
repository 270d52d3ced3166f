------------------------------ MODULE V2Alerts ------------------------------
(***************************************************************************)
(* alert_engine of firmware V2 in the main loop of app_core.  A round is   *)
(*   alert_engine::tick()  - confluence, loose gate, 1m, 5m, status page - *)
(*   service_outbound::poll()                                              *)
(* and then a pause.  A dispatch may block for half a minute, so any time  *)
(* may pass between two rounds; within a tick the engine uses one reading  *)
(* of the clock and one reading of the timing settings, but it looks at    *)
(* the confluence policy again at every use (a reference into              *)
(* config_store), while the web server's task may save another one.        *)
(*                                                                         *)
(* Times are relative: "since" is the age of the last alert of a path, cut *)
(* off where no cooldown reaches, which also stands for "never"; "window"  *)
(* is what is left of the suppression window.                              *)
(***************************************************************************)
EXTENDS Integers, Sequences, FiniteSetsExt, V2Outbound

CONSTANTS TimingValues,   \* per timing setting, the values it may be saved with
          Policies,       \* the confluence policies that may be saved
          Vols,           \* volatility readings in bps
          CalmMax, HotMin,          \* CONFIG_ALERT_REGIME_CALM_MAX_STEP_BPS, ..HOT_MIN..
          ScaleOf,        \* per regime the factor in permille
          ScaleMin, ScaleMax,       \* CONFIG_ALERT_REGIME_THR_SCALE_MIN/MAX_PERMILLE
          Bases,          \* per path the basic threshold in bps
          Moves,          \* price moves in bps, with their sign
          MaxJump         \* bound on the time between two ticks

Paths == {"one", "five"}                    \* the loose alerts: 1m and 5m
Settings == {"one", "five", "conf", "sup"}  \* fields of AlertPolicyTimingConfig
Old == Max(UNION {TimingValues[s] : s \in Settings})

Timings == {t \in [Settings -> UNION {TimingValues[s] : s \in Settings}] :
               \A s \in Settings : t[s] \in TimingValues[s]}

ASSUME TimingAssumption ==
    \A s \in Settings : TimingValues[s] \subseteq Nat \ {0} /\ TimingValues[s] # {}

\* A poll hands over, and the queue holds, at least two events (the code: 2 and 8).
ASSUME RoundAssumption == Depth >= 2 /\ PerPoll >= 2

VARIABLES pc,        \* where the main loop is
          timing,    \* g_policy_cache
          policy,    \* g_conf_policy_cache
          tm,        \* the tick's own copy of timing
          warm,      \* the paths whose history reaches back far enough
          move,      \* per path [ready, up, over] of this tick
          since,     \* per path and for "conf": age of s_last_fire_..._ms
          window,    \* what is left until s_suppress_loose_until_ms
          windowUp,  \* s_suppress_loose_dir_up
          fired,     \* the alerts of this tick: fired_..._this_tick
          blocked,   \* loose_blocked_by_conf_policy
          steady     \* no other policy was saved since the confluence block

engineVars == <<timing, policy, tm, warm, move, since, window, windowUp, fired,
                blocked, steady>>
vars == <<pc, engineVars, outboundVars>>

NotReady == [ready |-> FALSE, up |-> FALSE, over |-> FALSE]

Unread == [p \in Paths |-> NotReady]

Init ==
    /\ OutboundInit
    /\ pc = "tick"
    /\ timing \in Timings
    /\ policy \in Policies
    /\ tm = timing
    /\ warm = {}
    /\ move = Unread
    /\ since = [a \in Paths \cup {"conf"} |-> Old]
    /\ window = 0
    /\ windowUp = TRUE
    /\ fired = {}
    /\ blocked = FALSE
    /\ steady = TRUE

-----------------------------------------------------------------------------
\* The volatility regime only scales the thresholds; while the volatility is
\* not known (-1) the factor is that of "normal".
Regime(vol) ==
    IF vol < 0 THEN "normal"
    ELSE IF vol < CalmMax THEN "calm"
    ELSE IF vol >= HotMin THEN "hot" ELSE "normal"

Scale(vol) == Max({ScaleMin, Min({ScaleMax, ScaleOf[Regime(vol)]})})

Abs(n) == IF n < 0 THEN -n ELSE n

\* The reading of a path: over its effective threshold or not, and where to.
Reading(p, m, vol) ==
    [ready |-> TRUE, up |-> m >= 0, over |-> 1000 * Abs(m) >= Bases[p] * Scale(vol)]

Cooling(a) == since[a] < tm[IF a = "conf" THEN "conf" ELSE a]

\* (mutant) The window is forgotten.
SuppressedNever(p) == FALSE

\* loose_suppressed_after_confluence
Suppressed(p) == window > 0 /\ move[p].up = windowUp

\* confluence_thresholds_pass
ThresholdsPass(pol) ==
    IF pol.both THEN \A p \in Paths : move[p].over ELSE \E p \in Paths : move[p].over

BothReady == \A p \in Paths : move[p].ready
Apart == move["one"].up # move["five"].up

-----------------------------------------------------------------------------
\* What the two paths may read.  The per-second ring has no holes and 5m looks
\* back further than 1m.
Readings ==
    {[p \in Paths |-> IF p \in ready THEN Reading(p, m[p], vol) ELSE NotReady] :
        ready \in {{}, {"one"}, Paths}, vol \in Vols \cup {-1}, m \in [Paths -> Moves]}

\* Start of tick(): the clock has moved on, the settings are copied, and the
\* readings of the two paths are taken; a path that was ready stays ready.
TickStart ==
    /\ pc = "tick"
    /\ \E d \in 0 .. MaxJump :
         /\ since' = [a \in DOMAIN since |-> Min({Old, since[a] + d})]
         /\ window' = Max({0, window - d})
    /\ tm' = timing
    /\ move' \in Readings
    /\ warm' = {p \in Paths : move'[p].ready}
    /\ warm \subseteq warm'
    /\ pc' = "confluence"
    /\ UNCHANGED <<timing, policy, windowUp, fired, blocked, steady, outboundVars>>

\* The confluence block.  Firing opens the suppression window, in the direction
\* of 1m, and queues the alert.
ConfluenceFires ==
    /\ policy.enabled /\ BothReady /\ ThresholdsPass(policy)
    /\ ~(policy.same /\ Apart)
    /\ ~Cooling("conf")

Confluence ==
    /\ pc = "confluence"
    /\ steady' = TRUE
    /\ \/ /\ ConfluenceFires
          /\ since' = [since EXCEPT !["conf"] = 0]
          /\ window' = tm["sup"]
          /\ windowUp' = move["one"].up
          /\ fired' = fired \cup {"conf"}
          /\ Emit("conf")
       \/ /\ ~ConfluenceFires
          /\ UNCHANGED <<since, window, windowUp, fired, queue, dropped>>
    /\ pc' = "gate"
    /\ UNCHANGED <<timing, policy, tm, warm, move, blocked, taken>>

\* A policy may hold loose alerts back when the confluence was over its
\* thresholds and did not fire: directions apart, or cooling down.
LooseGate ==
    /\ pc = "gate"
    /\ blocked' = /\ policy.enabled /\ ~policy.loose /\ BothReady
                  /\ ThresholdsPass(policy)
                  /\ \/ policy.same /\ Apart
                     \/ "conf" \notin fired /\ Cooling("conf")
    /\ pc' = "one"
    /\ UNCHANGED <<timing, policy, tm, warm, move, since, window, windowUp, fired,
                   steady, outboundVars>>

\* One loose path, 1m and then 5m.
LooseFires(p) ==
    /\ move[p].ready /\ move[p].over
    /\ ~Cooling(p)
    /\ ~blocked
    /\ ~Suppressed(p)

Loose(p, next) ==
    /\ pc = p
    /\ \/ /\ LooseFires(p)
          /\ since' = [since EXCEPT ![p] = 0]
          /\ fired' = fired \cup {p}
          /\ Emit(p)
       \/ /\ ~LooseFires(p)
          /\ UNCHANGED <<since, fired, queue, dropped>>
    /\ pc' = next
    /\ UNCHANGED <<timing, policy, tm, warm, move, window, windowUp, blocked, steady, taken>>

-----------------------------------------------------------------------------
\* refresh_decision_observability: the same decisions once more, for the page,
\* after the ages and the window have been updated.
LooseStatusFirst(p) ==   \* (mutant) forgets that the alert of this tick has set its age
    CASE ~move[p].ready -> "not_ready"
      [] move[p].ready /\ ~move[p].over -> "below_threshold"
      [] OTHER -> IF Cooling(p) THEN "cooldown" ELSE IF p \in fired THEN "fired" ELSE "suppressed"

LooseStatus(p) ==
    CASE ~move[p].ready -> "not_ready"
      [] move[p].ready /\ ~move[p].over -> "below_threshold"
      [] OTHER ->
           IF p \notin fired /\ Cooling(p) THEN "cooldown"
           ELSE IF p \notin fired /\ (blocked \/ Suppressed(p)) THEN "suppressed"
           ELSE IF p \in fired THEN "fired" ELSE "internal"

ConfluenceStatus ==
    CASE ~policy.enabled -> "disabled"
      [] policy.enabled /\ ~BothReady -> "not_ready"
      [] OTHER ->
           IF ~ThresholdsPass(policy) THEN "below_threshold"
           ELSE IF policy.same /\ Apart THEN "direction_mismatch"
           ELSE IF "conf" \notin fired /\ Cooling("conf") THEN "cooldown"
           ELSE IF "conf" \in fired THEN "fired" ELSE "internal"

\* The page keeps the answers and nothing else reads them, so they are not part
\* of the state.  The locals of tick() end with it.
Observe ==
    /\ pc = "observe"
    /\ tm' = timing
    /\ move' = Unread
    /\ fired' = {}
    /\ blocked' = FALSE
    /\ steady' = TRUE
    /\ pc' = "poll"
    /\ UNCHANGED <<timing, policy, warm, since, window, windowUp, outboundVars>>

\* poll() at the end of the round; the loop then waits and starts the next one.
Poll ==
    /\ pc = "poll"
    /\ \/ Dispatch /\ UNCHANGED pc
       \/ PollReturns /\ pc' = "tick"
    /\ UNCHANGED engineVars

\* The web server's task saves settings that are in range; persist_... copies
\* them over the cached ones member by member, and a save that fails in flash
\* changes nothing.
SaveTimingUnchecked ==   \* (mutant) a save that is not checked against the ranges
    /\ \E s \in Settings : timing' = [timing EXCEPT ![s] = 0]
    /\ tm' = IF pc \in {"tick", "poll"} THEN timing' ELSE tm
    /\ UNCHANGED <<pc, policy, warm, move, since, window, windowUp, fired, blocked, steady,
                   outboundVars>>

SaveTiming ==
    /\ \E s \in Settings : \E v \in TimingValues[s] : timing' = [timing EXCEPT ![s] = v]
    /\ tm' = IF pc \in {"tick", "poll"} THEN timing' ELSE tm
    /\ UNCHANGED <<pc, policy, warm, move, since, window, windowUp, fired, blocked, steady,
                   outboundVars>>

SavePolicy ==
    /\ policy' \in Policies
    /\ steady' = (policy' = policy \/ pc \in {"tick", "confluence", "poll"}) /\ steady
    /\ UNCHANGED <<pc, timing, tm, warm, move, since, window, windowUp, fired,
                   blocked, outboundVars>>

Next ==
    \/ TickStart \/ Confluence \/ LooseGate
    \/ Loose("one", "five") \/ Loose("five", "observe")
    \/ Observe \/ Poll
    \/ SaveTiming \/ SavePolicy

Spec == Init /\ [][Next]_vars

-----------------------------------------------------------------------------
TypeOK ==
    /\ pc \in {"tick", "confluence", "gate", "one", "five", "observe", "poll"}
    /\ {timing, tm} \subseteq Timings
    /\ policy \in Policies /\ steady \in BOOLEAN
    /\ warm \in {{}, {"one"}, Paths} /\ move \in Readings
    /\ since \in [Paths \cup {"conf"} -> 0 .. Old]
    /\ window \in 0 .. Old /\ windowUp \in BOOLEAN
    /\ fired \subseteq Paths \cup {"conf"} /\ blocked \in BOOLEAN
    /\ \A i \in DOMAIN queue : queue[i] \in Paths \cup {"conf"}
    /\ dropped \in BOOLEAN /\ taken \in 0 .. PerPoll

\* Whatever the market does and whatever is saved during a tick, one poll() hands
\* over all that the tick queued: every round starts with an empty queue, so an
\* alert never waits for a later round and never finds the queue full.  It rests
\* on the suppression window: the confluence and both loose alerts of one tick
\* would be one more than a poll takes.
RoundDrains == ~dropped /\ (pc = "tick" => queue = <<>>)

\* The page tells what the tick did.  The decisions are written twice, in tick()
\* and in refresh_decision_observability, the second time with ages and window
\* the first has just changed: a path reads "fired" exactly when its alert is in
\* the queue, "cooldown" or "suppressed" only when it was held back, and never
\* "internal"; for the confluence as long as its policy was not changed between.
StatusMirrors ==
    pc = "observe" =>
        LET queued == {queue[i] : i \in DOMAIN queue} IN
        /\ \A p \in Paths : /\ LooseStatus(p) = "fired" <=> p \in queued
                            /\ LooseStatus(p) # "internal"
        /\ steady => /\ ConfluenceStatus = "fired" <=> "conf" \in queued
                     /\ ConfluenceStatus # "internal"
=============================================================================
