# Crypto Alert: TLA+ verification project

TLA+ modules, TLC configurations and TLAPS proofs for the firmware in this
repository: the Arduino firmware for the ESP32 (`ESP32-Crypto-Alert.ino` with the
modules in `src/`, called V1 below) and its successor on ESP-IDF (`firmware-v2/`, V2).

The device watches one crypto price, computes returns over several windows and
sends push notifications (NTFY) when a price moves; a user sets an *anchor* price
and thresholds through a web page, MQTT or a button. It runs unattended for weeks
on one WiFi link, one TLS-capable heap and a few FreeRTOS tasks that share plain
global variables. What goes wrong in such a program goes wrong between tasks and
after failures. That is what the modules are about: the control of the program,
with its data reduced to what the properties tell apart.

Contents: [components](#1-components), [modules](#2-modules-and-how-they-correspond-to-the-code),
[runs](#3-runs), [fairness](#4-fairness), [proofs](#5-proofs),
[findings](#6-findings), [limits](#7-what-is-not-modelled), [plan](#8-plan).

To check everything: `tlc -config MCX_y.cfg MCX` for each configuration, and
`tlapm M.tla` for the eight `*Proofs` modules.

## 1. Components

### V1: tasks

| task | where | does |
|---|---|---|
| `apiTask` | `.ino` 10858 | every ~2 s: exclusive NTFY mode **or** price fetch, alerts, first start of the WebSocket, anchor mailbox |
| `loop()` | `.ino` 11640 | MQTT, WebSocket library calls, WiFi reconnect, diagnostics |
| `webTask` | `WebServer.cpp` | HTTP server: pages, settings, anchor requests |
| `uiTask` | `.ino` ~11400 | screen and button; a button press may fetch a price |
| `priceRepeatTask` | `.ino` 11142 | 1 Hz sampler that feeds the ring buffers |
| WiFi events | `.ino` 9964 | callback that records connect and disconnect |

All tasks but the events have the same priority; a task runs until it blocks or its time slice ends.

### V1: parts

Each entry: state; operations; interaction; what is hard; what makes it correct.

* **NTFY pending queue.** `s_ntfyQ` (8 slots) with priority, `retryCount` (uint8_t),
  `nextAttemptMs`, `createdMs`, sequence id. `enqueueNtfyPending` (sequence
  coalescing, duplicate check, eviction), pick, bookkeeping after the POST. Filled
  by `apiTask` (alerts) and by `loop()` (test messages, diagnostics builds), emptied
  by `apiTask`. Hard: the mutex is not held during the POST, waiting for it times out,
  slots change in between. Correct: nothing accepted is lost or doubled, tests do
  not displace alerts, alerts leave in the end.
* **NTFY transport.** `ntfyNextAllowedMs`, `ntfyFailStreak`. One POST of two attempts, 429
  with Retry-After, a growing global back-off. Correct: no POST while a back-off runs.
* **Exclusive network mode.** `g_netExclusiveNtfyMode`, `wsPauseForNtfySend`, a deadline, a
  count of restart windows. `apiTask` steps the machine (stop the WebSocket, send,
  restart it), `loop()` reads two of the flags without a lock. Hard: stores of one task
  between two looks of the other; restarts that fail. Correct: pause and mode agree,
  the mode is always left, the socket comes back.
* **Anchor.** Mailbox of three volatile fields; anchor price, extremes and two "sent" flags in
  `AnchorSystem`. Writers: `webTask`, MQTT callback, button; reader: `apiTask`. Hard: no
  lock around the mailbox, test-then-set of the flags. Correct: a request that was answered
  OK is served once, each alert comes once per anchor, a new anchor starts fresh.
* **Settings.** Globals plus `Preferences` (NVS). Saved key by key from `webTask`, `loop()` and
  `apiTask` through one shared handle; copied into components at start. Hard: concurrent
  saves, a reset in the middle, stale copies, a key NVS does not take. Correct: what is stored was set; what is set takes effect.
* **MQTT link.** Ring of 8 queued messages, which refuses a new one while it is full; connect gate, reconnect
  counter. Hard: `apiTask` and `loop()` both fill and empty the ring without a lock, and either may be preempted anywhere; gate conditions
  that are set and never reset. Correct: bounded, ordered, and the link returns when the broker does.
* **WiFi reconnect.** Counter and interval in `loop()`, flags from the event callback.
* **Price sampling.** `prices[]`, latest WebSocket text in one buffer, 1 Hz sampler. Correct: freshness
  and the order of sources.
* **Averages and rings.** Second and minute rings with index and "full" flag, averages, returns.
  Correct: equal to their definition over a window, at every fill level.
* **AlertEngine.** Cooldowns, hourly limits, 2-hour throttling, confluence. State in globals and statics
  used by `apiTask` (and, on boards with a button, `uiTask`). Hard: four paths share one quiet minute, and one
  pending slot serves five families over windows, cooldowns and gaps between fetches. Correct: limits hold, what
  a family was told is accepted is the pending alert, and what is pending leaves.
* **TrendDetector, RegimeEngine.** Small state machines over metrics, with hysteresis, cooldown and dwell time.
* **WarmStart.** `setup()` fetches candles of seven timeframes, with retries, into arrays that may be smaller than what was
  asked for, seeds the rings with them and computes stand-in returns. Hard: every subset of the answers may fail
  or break off, or come in another order. Correct: candles stay in order, and "full" means that the alerts have what they need.
* **VolatilityTracker.** A window of absolute moves and a factor for thresholds.
* **WebServer, UIController, displays, ApiClient/HttpFetch, OTA, HeapMon, notification log.** Input and output;
  only their effects on the parts above matter.

### V2: parts

* **service_outbound**: one FreeRTOS queue of fixed depth between the domain and the sinks
  (`mqtt_bridge`, `ntfy_client`); drops when full. Correct: order kept, drops counted.
* **exchange_bitvavo, market_data**: one snapshot under a mutex, written by a REST fetch in `tick()` and by
  WebSocket events. Correct: the newest price wins; REST resumes when the socket is silent.
* **net_runtime, wifi_onboarding**: station retry with back-off; hand-over from the access point.
* **alert_engine, domain_metrics, alert_observability**: 1 and 5 minute moves, confluence, cooldown and
  suppression windows. Correct: a confluence alert replaces and never doubles its parts.
* **config_store**: versioned NVS record. **webui, ota_service, app_core, ui, display_port, bsp, diagnostics**:
  input, output and start-up order.

`PROJECT.json` lists every component with its status, and every hazard at its line.

## 2. Modules and how they correspond to the code

```
V1   NtfyQueue -> NtfyDelivery           the queue, and apiTask, loop(), clock, WiFi around it
                    refines NtfyOutbox   what the queue promises
     NtfyExclusive                       apiTask's state machine against loop(), store by store
     Anchor                              mailbox, alerts, extremes; webTask, loop(), uiTask, apiTask
     Settings                            globals, flash, one Preferences object; three tasks, resets
     PriceRings -> WarmStart -> PricePath   rings; candles at start; socket, REST, sampler, fetch
     TwoHourAlerts                       trends and alerts of two hours and longer
     MinuteAlerts                        alerts of one to thirty minutes, confluence, regime
     NetLinks                            WiFi reconnect, MQTT gate and connect
     MqttQueue                           the ring of MQTT messages, one step per access

V2   V2Outbound -> V2Alerts              bounded queue; alert engine and main loop around it
     V2Feed                              REST, socket, station on one snapshot
     V2Device                            flash, forms, upload, start, the MQTT word
     V2System                            all three in one firmware

     A -> B: B EXTENDS A.  Each full specification has an MC module (V2Alerts and
     V2Device: that of V2System).  *Proofs modules: NtfyDelivery, NtfyExclusive, Anchor,
     Settings, V2System, PricePath (with WarmStart and PriceRings), Alert (TwoHourAlerts
     and MinuteAlerts) and Link (NetLinks and MqttQueue).
```

The modules cut the system where its parts read each other. `NtfyDelivery` contains the exclusive
mode as one state per phase (`stop`, `pick`, `post`, `book`, `restart`), because the queue only sees
that phases take time and end; `NtfyExclusive` opens those phases up and forgets which message is
sent. What the first assumes of the second (a cycle that was begun ends, WiFi given) is
`ExclusiveEnds` there. `Anchor`, `PricePath`, `TwoHourAlerts` and `MinuteAlerts` run inside apiTask's
fetch, and assume the same; the alerts hand their message to the queue, whose answer they
get as a choice. `V2System` composes the parts of V2 as `app_core` does.

**NtfyQueue / NtfyDelivery.** One operator per helper of the code (`PickNext` is
`ntfyPickNextPending_NoLock`, `Victim` is `ntfyFindEvictCandidate_NoLock`, ...), one disjunct of
`Enqueue` per exit of `enqueueNtfyPending`. A title with body and tag is one message value. A
slot that is not in use has one value: the code overwrites all fields on insertion. Time is
relative: `wait` is `nextAttemptMs` minus now, `created` is the *rank* of
`createdMs` among those in the table, so that the state space is finite without a bound on the run.
`millis()` wrap-around is thereby abstracted. The POST is a pair of actions around free steps of all
others; its outcomes are OK, 429 with any of `RateLimits`, failure, and the refusal when WiFi is gone.
`api` stays in `post` for up to `MaxSend` ticks. The queue mutex is only held across steps by
`loop()`; `apiTask` uses it within one step, and its 200 ms timeout is `ApiBookSkipped`.
`owed` and `answered` are history variables: they are written and never guard an action.

**NtfyOutbox** is the abstract specification: a bounded set of messages with priorities. A message
leaves when it has been confirmed, or in favour of one new message of at least its priority. Under
the refinement mapping `box` is the set of pending slots and `confirmed` is the message of a POST that
was answered OK and not booked yet. `Retire` may leave the message in the box: delivery is at least once.

**NtfyExclusive.** Every store that the other task can see is a step: pause before disconnect,
disconnect under `gNetMutex`, flags after it without. `late` and `age` model the time `apiTask` reads once per
cycle: deadlines are computed from it even after a POST. The WebSocket library is external: it is down,
in handshake or open, and a call of its `loop()` may move it one step and raise the event whose handler
writes `wsConnected`, `wsConnecting` and the subscribe flag. A burst of 40 calls may perform a whole connect.
`loop()` looks at the mode twice, then at the pause, then waits for the mutex, then calls.

**Anchor.** `queueAnchorSetting` is three stores, `pending` last; `apiTask` reads `pending`, `value`,
`useCurrentPrice`, then clears. What runs under `dataMutex` (the set, the extremes) is one step. `CheckDue` and
`FlagSent` are two: the notification is sent between them. `Buttons` holds the values of `HAS_PHYSICAL_BUTTON`; with one, `uiTask` is a second fetcher. `raised` and `waiting` are history.
Its thresholds are parameters: they are the copy `AnchorSystem` took at start (see `Settings`).

**Settings.** A setting is a number, in the order in which the code copies, stores and loads it; each copy of a global,
each `put` and each `get` is a step. `handle` is the state of the `Preferences` object of `SettingsStore`: `begin()` on one that is
open changes nothing, `put` on one that is closed or read-only does nothing, nor does `put` with a key NVS does not take (`TooLong`: more than 15 characters, as
`chartColorManual` has, `SettingsStore.cpp` 171 and 835; the code does not look at what `put` returns), `get` on one that is closed returns the default. Where each task
is says what it does next (`copy`, `begin`, `put`, `end`; `loadBegin` .. `resetEnd` for the reset of the topic). `phase` is the
start: `anchorSystem.begin()`, then `loadSettings()`, then the tasks. `Restart` is possible everywhere. `disturbed` and `clean`
are history: whether another save ran during the last one. A value of several bytes is read and written as a whole.

**PriceRings / WarmStart / PricePath.** A ring is its index, its "full" flag and its entries; an entry is the number of
the price it holds, and each reader of the code is an operator that returns the *slots* it reads, in the order it
reads them. `WarmStart` is `performWarmStart` step by step: `Fetch` is one call of
`fetchBitvavoCandles` with its candles in any order, any of them missing and the answer cut off anywhere (`Answers`, `Written`, `Kept`), the `Use...`
actions are what becomes of the answer (sorted by `ByTime` where the code sorts it), `WarmStartEnds` computes mode and status. `PricePath` adds the tasks: `loop()`
with the one-slot buffer and the aggregates per second, the sampler, and the fetch of `apiTask` over socket or REST in its steps, each
with the branch it takes when `dataMutex` was not had in time. A candle is the number of its period; entries of a ring that
the warm start seeded are numbered in the order they were stored. A price is the number of its trade; `best`, `late` and `missed` are history.

**TwoHourAlerts.** `place` is the place in a fetch: three trend detectors, then the families of
`check2HNotifications` in their order. `disp` holds the statics of the dispatcher: pending alert, whether its coalescing
window is over (`late`), last type sent and its age. An alert is its type. `disp.waiting` and `disp.gap` are history.

**MinuteAlerts.** One action per path of `checkAndNotify`, in its order. A return is "over its threshold or not" and a direction. `ev` are the two events
confluence looks for; `sent` (history) is what left in the current minute. `RegimeTick` is `regimeEngineTick` with proposal,
dwell and commit; the scores are inputs.

**NetLinks.** The event callback runs in a task of its own and writes flags `loop()` reads; a `loop()` pass is split
where it waits (connect, begin, 10 s of joining). Intervals are not counted: an attempt may be due or not. `slipped` is history.

**MqttQueue.** `loop()` and `apiTask` on one ring. Each reading and each writing of the ring, its indices or its count is a step
of its own, in the order of the program: `x++` is two (`ReadToAdd`, `CountUp`), with the value that was read in `reg`; a slot is taken (`TakeTail`,
`TakeHead`), and its topic, payload and `valid` are written in three. Two things are one step: the copy of a text that the client library
makes before it sends, and the copy of a topic or payload by `strncpy`. Memory is taken to show stores in program order. `raced` is history:
it says whether the tasks have stored at once, taken at once, or one has written the count that the other had read and not yet
written back; no action looks at it. The branch for a slot that is not valid (`LookValid`) is only reached after such a race.

**V2Outbound / V2Alerts.** A round is confluence, loose gate, 1m, 5m, status page, then `poll()`. A tick uses one copy of the timing settings
(`tm`) and reads the policy again at every use, while `SaveTiming` and `SavePolicy` run in the server's task. The status page's decision
is a second translation (`LooseStatus`, `ConfluenceStatus`), as it is in the code.

**V2Feed.** `exchange_bitvavo::tick()`, the WebSocket events and the station's back-off, on one snapshot of four fields.

**V2Device.** A group of settings has two keys, the first and last written. A form stores key by key, each may
fail; the power may fail anywhere (`PowerCut`). `torn` and `made` are history. An upload writes the other slot; the MQTT word is `pending`, taken by two tasks.

**V2System.** `SystemNext` interleaves the parts; it over-approximates in three places, named there: requests and the broker do not wait for the
network, settings reach the engine at any time, and two ticks of the engine may fall between two of the feed.

Definitions whose comment starts with "Faulty:" are variants with a plausible bug. No specification uses
them; put in place of the definition below them, they make the property fail that is
named for them in `PROJECT.json`.

## 3. Runs

| run | shows | bounds |
|---|---|---|
| `ntfy_diag` | two producers, all outcomes: nothing accepted is lost (`NothingOwedIsLost`), one pending item per alert (`OnePendingPerAlert`), tests never displace alerts (`TestsNeverCostAnAlert`), silence in a back-off (`SilentDuringBackoff`), refinement (`ImplementsOutbox`) | 2 slots; 2 texts of one sequence, 1 alert without one, 2 tests; retry counter modulo 2; back-off 1 tick |
| `ntfy_answer` | production build: no message is sent again after an OK (`NeverResentAfterOk`), alerts leave (`AlertsLeave`), fetches go on (`FetchNeverStarved`) | 2 slots, 4 alerts, streak to 2 |
| `excl_mode` | all interleavings: `PauseOnlyExclusive`, `LatePumpAtMostOnce`; and `ExclusiveEnds`, `SocketReturns` | 2 restart windows of 2 ticks, 1 self-heal, stop limit of 1 tick |
| `anchor_alerts` | `OneAlertPerFetcher`, `NewAnchorNotSilenced`, `RangeEnclosesPrice`, `MailboxRests` | 2 prices 5 % apart, 2 trends, web and button, boards with and without one |
| `settings_saves` | three tasks save at once, with resets: the object is never left open (`HandleHasUser`), a save no other overlaps stores every setting whose key NVS takes (`SavedUnlessDisturbed`) | 3 settings (the topic, an anchor threshold, one whose key is too long), 2 values |
| `twohour_alerts` | two secondary alerts are a global cooldown apart (`SecondariesSpaced`), what was accepted is what is pending (`AcceptedIsPending`), it leaves in the end (`PendingLeaves`) | clock in steps of 90 min, cooldowns 90 and 180 |
| `minute_alerts` | one alert per quiet minute, but for confluence with a 5m alert (`OneWordPerMinute`); both halves of a confluence are recent (`ConfluenceIsFresh`); a regime changes only after its dwell time (`RegimeDwells`) | window, hour, dwell and largest cooldown of 2 units |
| `net_links` | a lost station is looked for once its events are handled (`LossIsWorkedOn`), WiFi comes back (`WifiReturns`), MQTT comes back while WiFi and gate hold (`MqttReturns`) | access point after 2 attempts, counter modulo 4, 2 REST fetches, 2 events on the way |
| `mqtt_ring` | two tasks fill and empty the ring, access by access: until the first of three kinds of race no message is lost and at rest the ring holds what its count says (`SafeUnlessRaced`) | ring of 3, batch of 2, 5 messages; nothing is explored behind a race |
| `price_path` | every return is computed from the newest entries in order (`SeriesInOrder`), candles keep the order they came in, and are sorted where a return needs it but for that of four hours (`CandlesInOrder`), a "full" warm start has what the alerts need (`FullIsBacked`), samples run with time (`SampledInOrder`) | rings of 2, 4, 4 and 2; live share 60 %; 3 trades |
| `v2` | a poll hands over all a tick queued (`RoundDrains`), the page tells what the tick did (`StatusMirrors`), settings are of one form (`SettingsWhole`), the boot slot is whole (`BootsWhole`), the MQTT word goes out (`ReadyNotForgotten`) | queue 8, 2 per poll; 2 keys per group; 3 volatilities, 6 moves |
| `v2_frozen` | counterexample: `RestWithoutSocket` | REST after 2, sanity after 4 |

`ntfy_diag`, `excl_mode` and `anchor_alerts` check their type invariant as well. The other modules have one that holds under the same configuration with
`INVARIANT TypeOK` (`TwoHourTypeOK`, `LinksTypeOK`, `FeedTypeOK`, `DeviceTypeOK`) in place of its properties; all but the last two are proved too.

More configurations beside the runs reproduce a counterexample each; section 6 names them.

Why the bounds are enough:

* *Two slots.* Eviction needs a full table, order needs two items; bookkeeping on a moved item needs one slot
  to be reused. Five messages over two slots reach all exits of `enqueueNtfyPending`, among them
  the refusal (a test arrives, both slots hold alerts). The proofs cover every size.
* *Counter modulo 2.* Safety must not depend on its value; the small modulus makes the wrap-around frequent. The real
  width is used where it matters, in `MCNtfyDelivery_wrap.cfg`.
* *Ticks.* Delays only matter as "passed or not" and in their order; 1 and 2 ticks give every order of POST duration,
  retry delay and back-off.
* *Windows.* The code has three restart windows and many self-heals. A second window begins where the first ended; a third repeats it from the same
  states. The proofs cover the safety properties for every number.
* *Settings.* Two settings that are stored are needed for a mixture, and two values to tell old from new; the proofs cover every number. In V2 a group is torn between its first and its last key.
* *Prices.* 100 and 105 make both alerts due: +5 % one way, and −4.8 % the other, against −3 %. The second trend has thresholds outside the
  clamps 2..10 and −6..−1, which turns an alert on and off without a price change.
* *Two-hour alerts.* The pairs of types have cooldowns of 60, 90, 120 and 180 minutes. With 90-minute steps one step is
  enough for the first two, and two for the others, so that every pair of alerts meets both answers of the throttle.
* *Minute alerts.* Two units let an age be inside, at the edge and outside of every limit; the hourly limits are 2 and 1, so that they bind within an hour.
* *Rings.* Each ring is shorter than the code's but keeps the relations the code relies on: the five minutes are at least as long as the
  minute, half an hour fits the ring of minutes, a day that of hours. Seconds, minutes and hours run until every ring has turned; entry numbers are
  modulo twice the ring, so that a stale entry cannot pass for a new one. A 60 % share of 2 or 4 entries lies between counts, as 80 % of 120 does.
* *`MCFocus` of `price_path`.* Warm starts come in every form, but only three kinds of outcome go on into the run (nothing, the two hours alone, everything),
  and several trades happen only before the rings have turned: the rings do not look at prices, and the sampling not at the rings.
* *MQTT ring.* A ring of three with five messages fills, refuses, turns and is emptied by either task in the middle; two messages per call end a call with the ring not empty. Counterexamples
  need a ring of two and four messages.
* *Candles.* Three candles of an answer in any order, any of them missing, over room for two or three: every order and every turn of the circle.
* *`MCV2System`.* One part at a time goes to its depths while the others stand at the start of a run (`MCNext`); forms touch one group
  away from the factory at a time. The parts share only the phase of the device and the network, which every part still sees change.

`MaxSend` (ticks a POST takes), the 3 of `raised`, the 2 of `latePumps`, `MaxTrade`, `EventCap`, `MaxJump` and `Blocked` are bounds of the models;
the code has no such counters. None of them hides a violation: the
properties compare with smaller values, or hold in each state on its own. Deadlock is checked in every run; users, networks and the clock never stop.

## 4. Fairness

* `NtfyDelivery`: weak fairness of `apiTask`, `loop()` and the clock (tasks of equal priority
  under a preemptive scheduler; every wait has a timeout), and of the boot gate, which has a timeout. Alerts, tests, POST outcomes
  and WiFi are not fair. `AnsweringSpec` adds that a message POSTed again and again is answered OK in the end. Liveness is
  conditional on `WifiSettles`: a drop in every single cycle, between the check at its start and the
  pick, would repeat the exclusive mode without POST or fetch for ever.
* `NtfyExclusive`: strong fairness of the two tasks. Both block between uses of `gNetMutex` (`loop()`
  in `vTaskDelay`, `apiTask` until its next interval), the holder gives it back after a bounded call, and FreeRTOS gives a mutex to its longest waiting task,
  so neither is kept out of it for ever. `Reachable` (for `excl_mode`): the exchange accepts a connection in the end.
* `Settings`: none, it has safety properties only.
* `Anchor`: weak fairness of `apiTask` and of a task in the middle of storing a request. Users are not fair.
* `TwoHourAlerts`: weak fairness of the steps of a fetch; `apiTask` fetches again and again (that it does is `FetchNeverStarved`). Trends and returns are not fair.
* `NetLinks`: weak fairness of `loop()` and of the event task. Strong fairness of the attempts that an interval makes due (`LoopMqttTry`, `LoopWifiTry`: an interval always ends, while `loop()` passes the test
  many times in between), of the look at a request for a new connection (`LoopApplyPending`: the exclusive mode that skips it ends), and of the two answers from outside: a station that is looked for again and again
  joins (`Join`), and a broker that is asked again and again accepts (`ConnectOk`). Losses are not fair, and nothing says the gate opens.
* `MinuteAlerts`, `MqttQueue`, `PricePath`, `V2System`: none, they have safety properties only.

## 5. Proofs

TLAPS proves, for every value of the constants that satisfies the named assumptions of the module, every safety property and every action
property that a passing run checks, and the refinement of `NtfyOutbox`:

| module | theorem | states |
|---|---|---|
| `NtfyDeliveryProofs` | `TypeCorrect`, `OnePending`, `NothingLost`, `BackoffRespected` | `TypeOK`, `OnePendingPerAlert`, `NothingOwedIsLost`, `SilentDuringBackoff` |
| | `TestsNeverCost`, `NoResend`, `Implements` | `TestsNeverCostAnAlert`, `NeverResentAfterOk`, `ImplementsOutbox` |
| `NtfyExclusiveProofs` | `TypeCorrect`, `PauseInside`, `LatePumpOnce` | `TypeOK`, `PauseOnlyExclusive`, `LatePumpAtMostOnce` |
| `AnchorProofs` | `TypeCorrect`, `AlertsBounded`, `NewAnchorHeard`, `RangeKept` | `TypeOK`, `OneAlertPerFetcher`, `NewAnchorNotSilenced`, `RangeEnclosesPrice` |
| `SettingsProofs` | `TypeCorrect`, `HandleReleased`, `UndisturbedSaves` | `TypeOK`, `HandleHasUser`, `SavedUnlessDisturbed` |
| `AlertProofs` | `TwoHourTypes`, `HardCap`, `NothingOverwritten` | `TwoHourTypeOK`, `SecondariesSpaced`, `AcceptedIsPending` |
| | `MinuteTypes`, `OneVoice`, `ConfluenceTimely`, `RegimeSteady` | `TypeOK`, `OneWordPerMinute`, `ConfluenceIsFresh`, `RegimeDwells` |
| `LinkProofs` | `RingTypes`, `SafeWithoutRaces` | `TypeOK` of the ring, `SafeUnlessRaced` |
| | `LinkTypes`, `LossesWorkedOn` | `LinksTypeOK`, `LossIsWorkedOn` |
| `PricePathProofs` | `PathTypes`, `SamplesRunWithTime`, `CandlesStayInOrder` | `TypeOK`, `SampledInOrder`, `CandlesInOrder` |
| | `FullStaysBacked`, `SeriesStayInOrder` | `FullIsBacked`, `SeriesInOrder` |
| `V2SystemProofs` | `EveryRoundDrains`, `PageMirrorsTick`, `SettingsStayWhole` | `RoundDrains`, `StatusMirrors`, `SettingsWhole` |
| | `DeviceBootsWhole`, `WordNotForgotten` | `BootsWhole`, `ReadyNotForgotten` |

One theorem has a hypothesis of its own, as the property holds only then: `NoResend` assumes `~DiagRuntime`. In a diagnostics build `loop()` may hold the
queue mutex when `apiTask` wants to book an answered POST, and the message is sent again. Two properties say in themselves what they leave out, because the code does not
give more: `SafeUnlessRaced` (section 6 shows each race it excepts to lose messages) and `SavedUnlessDisturbed` (overlapping saves, and keys NVS does not take). The
assumptions of the modules that carry weight:

* `RoundAssumption` (`V2Alerts`): queue and poll have room for two events; the code has 8 and 2. A poll of one leaves an event to the next round.
* `DeviceAssumption` (`V2Device`): no two keys of flash are the same, a default is in its own range.
* `WarmAssumption` (`WarmStart`): the candles a five-minute return needs (5) are no more than the ring of seconds (60) or that of minutes (120) holds.
* `SettingsAssumption` (`Settings`): the topic is not among the settings NVS does not take.
* `PathAssumption` (`PricePath`): the relations of the rings, such as an hour that fits the ring of minutes.

Each proof rests on an inductive invariant I with `Init => I` and `I /\ [Next]_vars => I'`; the `*Step` lemmas prove the second, action by action. TLC
finds every one of them to hold on the instance of the run.

* *Delivery.* `OnePendingPerAlert` is not inductive alone: coalescing gives a slot a new text and keeps its
  sequence, so that two slots could get one message if a slot held a message under another
  message's sequence. `IInv` adds that the sequence of a pending item is that of its
  message (`TableOK`). `NothingOwedIsLost` then needs that bookkeeping clears the slot that holds the message that was POSTed
  (`BookedHolds`) and no other slot holds it. Lemmas state what each table operation does to
  `TableOK` and `Contents`, once, for every table. `NoResend` adds `ProductionOK`: without diagnostics the mutex is free whenever `apiTask` wants it, and
  what was answered is at most the message being booked. `Implements` maps each exit of `enqueueNtfyPending` to an
  `Outbox` step by what it does to the *set* of pending messages, and every step that leaves that set alone to a stutter.
* *Exclusive.* The pause is written by one task and compared with a mode written by the same task
  at other steps. `WhereInMode` says in which modes each point of `apiTask` lies, `OnTheWay` bounds the library
  calls of a `loop()` that passed its second look before the period began.
* *Anchor.* `OneAlertPerFetcher` counts: `RaisedInHand` says the alerts raised are at most one
  per fetcher, and while the flag is down only those whose fetcher is between the notification and the flag;
  `InHandRaised` is the converse without a button, and gives `NewAnchorNotSilenced`: `apiTask` cannot set an anchor while it stands there.
* *Settings.* `SavedUnlessDisturbed` speaks of rest, so the proof follows an undisturbed save through its steps. `OverlapKnown` says that a task that is
  not disturbed is the only one saving; `OwnHandle` that the object is then open as it needs it; `SaveProgress` and
  `ResetProgress` that the settings before `at` are already in the snapshot, or in flash, as long as the
  other tasks are idle (what NVS does not take is left out of what is in flash); a task in the middle of its edits has its own save still to come. `BootedFirst` says that no task saves before the settings were loaded.
* *Two-hour alerts.* `DispOK` is about the dispatcher alone, so that each of its operations (`Flush`, `Put`, `SendPrimary`) is one lemma for every dispatcher, and each family only
  says which of them it calls. `waiting` is then exactly the pending alert, and `gap` at least the global cooldown because `Throttled`
  refuses a secondary alert before.
* *Minute alerts.* `WordsOK`: a minute is quiet as long as nothing was sent, and the 5m path may only speak after a confluence that is
  the only word of its own round. `DwellOK` relates the age of the pending proposal to the time in which nothing else was proposed; `RegimeSteady` then
  follows although the engine may be switched off with a pending proposal. `ConfluenceTimely` needs no more than the
  types: one event has just happened, the other passed the test of its age.
* *MQTT ring.* `SafeUnlessRaced` speaks of rest and of counts modulo the size; between two accesses neither is so. `RaceFree` says what is: `Left` is the count but for a head that has already moved, the tail is `Left` slots
  behind the head, or one more when it has already moved (`CountOK`); a slot is valid exactly when it is among those or has just been marked, and not just been cleared (`ValidOK`); a storing task writes the slot behind them and
  remembers the tail and the count as they are, a taking task has the head and what it sends is what is there (`StorerOK`, `TakerOK`). The steps that only read are one lemma (`QuietStep`), the eight that write have one each. `QueueInv` claims
  all that until `raced` is not empty, and types always. Distances from the head (`Dist`, `Turned`) keep the arithmetic linear; `Reach` brings back the modulo.
* *WiFi.* `LossIsWorkedOn` is the safety half of `WifiReturns`: fairness is only needed to say that the attempt it enables is made. `EventsOK` says that the last event of the station, handled or not, tells
  the truth, so that a handler of an address that runs late, after the next loss, has that loss still before it; `LossHeard` that a loss is in a flag or in an event; `LossesWorkedOn` joins the two.
* *Samples.* `AheadOK` orders what `loop()` holds, what is known and what was sampled: as long as no price came late, an aggregate that may
  be sampled is not behind an earlier sample. The proof attempt found the first version of the property false: with a fourth trade, a text
  that waits in the one-slot buffer while a REST answer is stored brings an older price back, and was not counted as `late`. `ProcessPrice` now counts it, as the fetch does for its own answers.
* *Warm start.* `ArraysOK` says what is kept is the end of what came in (`KeptAreTheLast`: the circle, turned, is the tail of the answer, for every answer and room) and that what was sorted rises. That the sorted arrangement `ByTime` chooses exists for every answer is `Sorted`:
  each place is the rank of exactly one candle (`RankRises`, `RankTaken`); `BackedOK` follows
  each return from the step that computes it to the outcome, with the retries, failures and skips in between. The tables that a warm start
  seeds keep their sizes in `RingsOK`.
* *Rings.* `RunsOK` (with `HoldsRun`) says that from its index back each ring holds numbers that fall by one (an hour: by `HourLen`), modulo twice the ring. `PushRun` and `SeededRun` show that a push and a warm start keep it,
  and one lemma per reader (`SecondsRead`, `FiveMinutesRead`, `HalfHourRead`, `TwoHoursRead`, `DaysRead`, `HoursBackRead`) that its index arithmetic lands on the entries it means, before and after the ring has turned, and on
  the index one past the end that a warm start leaves. Divisions and remainders are reduced once, in `Divided`, `Remainder` and `SameRemainder`.
* *V2 engine.* `RoundOK`: a queued alert at the time 1m is looked at is the confluence, which holds 1m back by its suppression window, so that two is the most a tick can queue. `StatusOK` keeps each decision
  until the page is told: a path that fired was ready and over its threshold, one that did not is still held back, although timing and policy change in between.
* *V2 device.* `SlotsOK`: the slot being written is never the one the bootloader takes. `WordOK`: while the word waits on a connection, one of the two tasks is still on its way to it.
  `StoreOK` compares what a restart would load with the last whole form, except for torn groups and the one being stored (`FormOK`: how far that is).
  These three are about `SystemSpec`, so that every step of the engine and of the feed is in the proof too.

Only model-checked: the liveness properties `AlertsLeave`, `FetchNeverStarved`, `ExclusiveEnds`, `SocketReturns`, `MailboxRests`, `PendingLeaves`, `WifiReturns` and `MqttReturns`. The prover
does not reach `ENABLED`, so it cannot use fairness. `V2Feed` alone has no safety property in a passing run; its steps are in the proofs of `V2System`. `ByTime` is the sorted sequence by definition: the sort loop of the code is not modelled.

## 6. Findings

Listed run:

1. *The feed freezes without a socket* (`v2_frozen`). The first REST answer marks the snapshot valid and connected; `exchange_bitvavo.cpp:82` takes that
   for a live socket and skips every later REST window, against its comment at line 81.

Further counterexamples, each with a configuration beside the runs (`tlc -config MCX_y.cfg MCX`):

| cfg | property | what happens | against |
|---|---|---|---|
| `MCNtfyDelivery_wrap` | `LongDelayStays` | `retryCount` is a uint8_t: after 256 failures an item is retried as if new (`.ino` 4645) | comment "daarna 30000ms" (`.ino` 4052) |
| `MCNtfyExclusive_quiet` | `LoopQuietInExclusive` | `loop()` looks at the mode once, before an MQTT connect that takes seconds | comment at `.ino` 11645 |
| `MCAnchor_lost` | `LastRequestIsTaken` | `apiTask` copies the mailbox, then clears it (`.ino` 11027): a request stored in between was answered OK and is gone | its comment "copy locally to avoid race conditions" |
| `MCAnchor_twice` | `OneAlertPerAnchor` | with a button, `uiTask` and `apiTask` both find the flag down (`UIController.cpp` 2897) | the flag's comment, "so that it is not sent several times" |
| `MCSettings_lost` | `SavedWhenQuiet` | two tasks save at once through one `Preferences` object (`SettingsStore.cpp` 827) | docs/05-Web-Interface-Configuration.md:88 |
| `MCSettings_stale` | `AppliedWhenQuiet` | `anchorSystem.begin()` (`.ino` 9675) copies the thresholds before `loadSettings()` and nothing copies them again | docs/08-WebUI-Settings.md:171 |
| `MCNetLinks_slips` | `WifiAlwaysReturns` | a loss reported while `loop()` finishes a reconnect is overwritten by its `wifiReconnectEnabled = false`: nobody reconnects | docs/CODE_ANALYSIS.md:463-464 |
| `MCMqttQueue_lost` | `NothingLost` | both tasks store at once, into the same slot: one message is overwritten (`.ino` 6084-6093) | `.ino` 1170, 6065-6066 |
| `MCV2System_boot` | `StartsAgain` | MQTT saved with an address that `esp_mqtt_client_init` refuses: `app_core::run` fails, `app_main` aborts, again at every start, before the page is up that could change it | v_2_herbouw_werkdocument_esp_32_crypto_alert.md:1173 |

And with a property of the module in place of those of the run's configuration:

* `SyncedAfterWarm` (`MCPricePath_rings.cfg`): `syncStateFromGlobals`, by its comment "after the warm start" (`.ino` 10416-10417), runs before `performWarmStart` (10454), so `PriceData` does not know what was seeded.
* `AverageOfAll`: `getRingBufferIndexAgo` returns -1 for the oldest entry of a full ring (`.ino` 7138), so that the "average of the 60 seconds" (8597) is one of 59.
* `FailedIsCold`: a FAILED warm start leaves the flags of its returns set in the engine (`.ino` 2639-2646, 8975), so that they return with the next fetch.
* `MinutesChronological`: the closes of the minutes go into the rings in the order of the answer, which nothing sorts; the code's comment says "seed uit bestaande 1m-closes (chronologisch)" (`.ino` 2414). With an answer that begins with its
  newest candle the rings run backwards, and of an answer longer than the room (minutes: up to 150 asked, room for 60) the oldest candles are kept, not the newest.
* `FourHoursForward`: nor are those of the four hours, so that `ret_4h` has the wrong sign then. The code sorts four other timeframes itself (`.ino` 2165, 2224, 2393, 2483), and docs/VERIFICATIE_PLAN_BITVAVO_BEREKENINGEN.md:40 wants data
  "correct gesorteerd (oudste eerst)". Nothing in the repository settles which order the exchange sends.
* `AllSavedUnlessDisturbed` (`MCSettings_saves.cfg`): the key `chartColorManual` has 16 characters, NVS takes 15; an undisturbed save from the page (`WebServer.cpp` 2183) leaves that setting out and says nothing, against "All settings are persistently
  saved" (docs/05-Web-Interface-Configuration.md:88). V2 knows the limit (`config_store.cpp` 26).
* `OneEmptierIsEnough`, `OneFillerIsEnough`, `ExactCountIsEnough` (`MCMqttQueue_lost.cfg`): none of the three races may be allowed. With one task that empties and one that fills the ring, `count++` of the one against `count--` of the other still loses an update.
* `WindowRespected` (`MCTwoHourAlerts_families.cfg`): every `check2HNotifications` flushes the pending alert (`AlertEngine.cpp` 1995, 2900) without looking at the window its comment names, so that the window is over after one fetch; docs/V509_NOTIFICATION_BASELINE.md:86 says candidates merge within it.

Observations, read in the code while modelling and visible in the models, without a property:

* Alerts: the `usedInConfluence` check of the 1m path (`AlertEngine.cpp` 1197) is never true. A disabled regime engine keeps its pending regime. A volatility window
  that grows reads zeros that were never written.
* MQTT: a queued setting may be published after a newer one. The ring of 8 overflows on one `publishMqttSettings`. One failed REST fetch since the start of the
  tasks keeps the gate closed for good (`.ino` 8872).
* WiFi: every disconnect event resets `reconnectAttemptCount`, so that the access point may never be reached.
* Prices: a REST answer may overwrite a newer WebSocket price; `latestKnownPrice` never expires; the sampler reads the closed aggregate without the lock. A warm
  start puts minute closes into the ring of seconds, whose first average is then taken for live. The last candle of an answer without a trailing character is dropped, and a partial
  answer counts as a success.
* V2: alerts are not published while MQTT is disconnected, and NTFY without an address returns ESP_OK silently. A suppression window may outlast the cooldown of confluence, so that a second
  confluence changes its direction. Half-saved WiFi credentials lock the device out of its own portal. The MQTT client keeps the broker it started
  with. A policy form with a duplicated key leaves a field at its default.

## 7. What is not modelled

* Bytes: JSON, HTTP, TLS, MQTT packets, discovery texts, page generation, drawing. Their outcomes are choices.
* Memory: heap exhaustion appears as a refusal only where the code tests for it.
* `millis()` wrap-around after 49.7 days.
* `VolatilityTracker`, the kline metrics, regressions and ring statistics for the display: arithmetic on values that nothing else branches on but as a threshold, which is an input.
* In `NtfyDelivery`: alerts enqueued by a button press in `uiTask`, and the one test message at start-up.
* In `Settings`: migration of the topics of older builds, clamping at load (values are set within the same limits), a full flash. Keys of the automatic anchor that are too long for NVS (`SettingsStore.cpp` 283-294) are only a fallback for its blob.
* In `WarmStart` and `PricePath`: the trend state the warm start sets (`TwoHourAlerts` starts from any trend), the automatic anchor (not called in this build).
* In `NetLinks` and `MqttQueue`: payloads of the callback, which are edits of `Settings` and requests of `Anchor`.
* In V2: the rings of `domain_metrics` (readings are choices), counters of the observability page, the sinks' network calls, display and board support.
* Test-only builds (`BOOTTEST_*`), and the deadline of `SENDING`, which nothing reads.
* `PROJECT.json` names the status of every component, and the reason where it is not `modelled`.

## 8. Plan

1. `V2Feed`: an invariant on the origin of the price (what the snapshot shows came from a tick or a REST answer, and what that says of `conn`) and its proof, with `FeedTypeOK` and `DeviceTypeOK`.
2. The abstract specification of the MQTT ring (a bounded sequence that refuses what it has no room for), and its refinement until the first race.
3. The safety halves of the other liveness properties, as `LossIsWorkedOn` is that of `WifiReturns`: a phase of the exclusive mode that waits has its deadline set, a pending alert has a flush before it.
4. Kline metrics and `VolatilityTracker` as pure functions, if a property about them is worth a run.
