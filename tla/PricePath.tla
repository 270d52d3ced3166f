------------------------------ MODULE PricePath ------------------------------
(***************************************************************************)
(* The way of a price: from the exchange, over the WebSocket or by a REST  *)
(* call, into latestKnownPrice; from there once a second into the rings of *)
(* seconds, and once a minute, on a fetch, into those of minutes and hours.*)
(* Before all that, the warm start fills the rings, see WarmStart.         *)
(*                                                                         *)
(* setup() and later apiTask fetch; loop() handles the WebSocket; the      *)
(* sampler is a task of its own.  They share dataMutex, each with a time   *)
(* to wait for it and something it leaves undone when that is over.  The   *)
(* aggregates per second are written by loop() and read by the sampler     *)
(* without it.  A price is the number of the trade that made it.           *)
(*                                                                         *)
(* What a fetch hands on to the anchor, the trends, the regime and the     *)
(* alert engine is in Anchor, TwoHourAlerts and MinuteAlerts.              *)
(***************************************************************************)
EXTENDS WarmStart

CONSTANTS
    HalfHour,       \* minutes for ret_30m
    TwoHourLeast,   \* minutes that ret_2h wants at least
    HourLen,        \* MINUTES_PER_HOUR
    HoursOf,        \* hours for the four hours, the day and the week
    DayLeast,       \* hours that ret_1d wants at least
    MaxTrade        \* bound: trades in a behaviour

ASSUME PathAssumption ==
    /\ DayLeast \in 2 .. Hours
    /\ HalfHour \in 1 .. Minutes /\ TwoHourLeast \in 1 .. Minutes /\ HourLen \in 1 .. Minutes
    /\ HoursOf \in [{"four", "day", "week"} -> 1 .. Hours]
    /\ MaxTrade \in Nat \ {0}

Nothing == 0
Candle == -1        \* a text of the WebSocket that is not a price

VARIABLES
    \* the outside
    trade,          \* the last trade on the exchange
    \* loop()
    on,             \* wsConnected
    text,           \* wsPendingBuf: the last text that came in, if not handled yet
    wsLast,         \* wsLastPrice
    fresh,          \* it is less than 30 s old
    current, closed,\* the aggregates: the close of a second, and how long ago it was
    storing,        \* loop() waits for the mutex to store wsLastPrice
    \* shared
    known,          \* latestKnownPrice
    \* setup(), apiTask
    fetch,          \* where fetchPrice is
    fetched, fromWs,
    sinceMinute,    \* seconds since lastMinuteUpdate; Seconds when it is due
    \* the sampler
    sampled,        \* it has worked in this second
    inHour,         \* minutesSinceHourUpdate
    \* history
    nextSample, nextMinute,     \* the number of the next entry
    last, best,     \* the last price sampled, and the newest
    late,           \* a fetch has stored, or loop() handled, a price that was not the
                    \* newest here
    missed          \* loop() did not get the mutex, and has not stored a price since

wsVars == <<on, text, wsLast, fresh, storing>>
aggVars == <<current, closed>>
fetchVars == <<fetch, fetched, fromWs>>
numberVars == <<nextSample, nextMinute, inHour>>
seenVars == <<last, best, late, missed>>
vars == <<trade, wsVars, aggVars, known, fetchVars, sinceMinute, sampled, numberVars,
          seenVars, warmVars>>

None == [close |-> Nothing, age |-> 2]

Init ==
    /\ trade = 1
    /\ on = FALSE /\ text = Nothing /\ wsLast = Nothing /\ fresh = FALSE /\ storing = FALSE
    /\ current = None /\ closed = None
    /\ known = Nothing
    /\ WarmInit
    /\ fetch = "idle" /\ fetched = Nothing /\ fromWs = FALSE
    /\ sinceMinute = Seconds /\ sampled = FALSE
    /\ inHour = 0
    /\ nextSample = 0 /\ nextMinute = 0
    /\ last = Nothing /\ best = Nothing /\ late = FALSE /\ missed = FALSE

-----------------------------------------------------------------------------
(* setup(). *)

Warming ==
    /\ fetch = "idle" /\ WarmNext
    /\ UNCHANGED <<trade, wsVars, aggVars, known, fetchVars, sinceMinute, sampled, numberVars,
                   seenVars>>

\* startFreeRTOSTasks
StartTasks ==
    /\ stage = "warm" /\ fetch = "idle"
    /\ stage' = "run"
    /\ UNCHANGED <<trade, wsVars, aggVars, known, fetchVars, sinceMinute, sampled, numberVars,
                   seenVars, arrayVars, outcomeVars, ringVars, warm, has>>

-----------------------------------------------------------------------------
(* The exchange and the passing of time. *)

Older(agg) == IF agg.age < 2 THEN [agg EXCEPT !.age = @ + 1] ELSE agg

SecondPasses ==
    /\ current' = Older(current) /\ closed' = Older(closed)
    /\ sinceMinute' = Least(Seconds, sinceMinute + 1)
    /\ sampled' = FALSE
    /\ UNCHANGED <<trade, wsVars, known, fetchVars, numberVars, seenVars, warmVars>>

Trade ==
    /\ trade < MaxTrade
    /\ trade' = trade + 1
    /\ text' = IF on THEN trade + 1 ELSE text
    /\ UNCHANGED <<on, wsLast, fresh, storing, aggVars, known, fetchVars, sinceMinute,
                   sampled, numberVars, seenVars, warmVars>>

\* WStype_TEXT: the one buffer takes the last text, whatever the one before was.
CandleComes ==
    /\ on /\ text' = Candle
    /\ UNCHANGED <<trade, on, wsLast, fresh, storing, aggVars, known, fetchVars,
                   sinceMinute, sampled, numberVars, seenVars, warmVars>>

Connects ==
    /\ stage = "run" /\ on' = ~on
    /\ UNCHANGED <<trade, text, wsLast, fresh, storing, aggVars, known, fetchVars,
                   sinceMinute, sampled, numberVars, seenVars, warmVars>>

\* Thirty seconds without a price.
Stale ==
    /\ fresh /\ current.age = 2
    /\ fresh' = FALSE
    /\ UNCHANGED <<trade, on, text, wsLast, storing, aggVars, known, fetchVars, sinceMinute,
                   sampled, numberVars, seenVars, warmVars>>

-----------------------------------------------------------------------------
(* loop(): processWsTextMessage. *)

\* The first price of a second freezes the aggregate of the second before.
Aggregate(p) ==
    IF current = None \/ current.age > 0
    THEN /\ closed' = IF current = None THEN closed ELSE current
         /\ current' = [close |-> p, age |-> 0]
    ELSE /\ current' = [current EXCEPT !.close = p]
         /\ UNCHANGED closed

ProcessPrice ==
    /\ text > Nothing /\ ~storing
    /\ text' = Nothing
    /\ wsLast' = text /\ fresh' = TRUE
    /\ Aggregate(text)
    /\ storing' = TRUE
    /\ late' = (late \/ text < known)
    /\ UNCHANGED <<trade, on, known, fetchVars, sinceMinute, sampled, numberVars, last, best,
                   missed, warmVars>>

ProcessOther ==
    /\ text = Candle /\ ~storing
    /\ text' = Nothing
    /\ UNCHANGED <<trade, on, wsLast, fresh, storing, aggVars, known, fetchVars,
                   sinceMinute, sampled, numberVars, seenVars, warmVars>>

\* Within 50 ms, or not at all.
StoreKnown ==
    /\ storing
    /\ storing' = FALSE
    /\ \/ known' = wsLast /\ missed' = FALSE /\ late' = (late \/ wsLast < known)
       \/ missed' = TRUE /\ UNCHANGED <<known, late>>
    /\ UNCHANGED <<trade, on, text, wsLast, fresh, aggVars, fetchVars, sinceMinute, sampled,
                   last, best, numberVars, warmVars>>

-----------------------------------------------------------------------------
(* priceRepeatTask: once a second. *)

\* Faulty: the close of a second is taken however long ago that was.
ToSampleAnyAge == IF closed # None THEN closed.close ELSE known

ToSample == IF closed # None /\ closed.age <= 1 THEN closed.close ELSE known

Sample ==
    /\ stage = "run" /\ ~sampled
    /\ sampled' = TRUE
    /\ \/ LET p == ToSample
          IN  /\ p > Nothing
              /\ sec' = Push(sec, nextSample, TRUE)
              /\ five' = Push(five, nextSample, TRUE)
              /\ global' = [at |-> sec'.at, full |-> sec'.full]
              /\ nextSample' = (nextSample + 1) % SampleNumbers
              /\ last' = p
              /\ best' = IF p > best THEN p ELSE best
       \/ UNCHANGED <<sec, five, global, nextSample, last, best>>
               \* no price yet, or no mutex for 100 ms
    /\ UNCHANGED <<trade, wsVars, aggVars, known, fetchVars, sinceMinute, nextMinute, inHour,
                   late, missed, stage, arrayVars, outcomeVars, minute, hour, warm, has>>

-----------------------------------------------------------------------------
(* fetchPrice. *)

\* A fresh price of the WebSocket is as good as a REST call.  Between the connection
\* and the first price it returns at once, which changes nothing.
FetchBegin ==
    /\ fetch = "idle" /\ stage \in {"boot", "run"}
    /\ IF on /\ fresh
       THEN fetched' = wsLast /\ fromWs' = TRUE /\ fetch' = "got"
       ELSE fetch' = "asking" /\ fromWs' = FALSE /\ UNCHANGED fetched
    /\ UNCHANGED <<trade, wsVars, aggVars, known, sinceMinute, sampled, numberVars,
                   seenVars, warmVars>>

\* ApiClient::fetchBitvavoPrice, once and without a retry: the exchange answers ...
FetchAnswer ==
    /\ fetch = "asking"
    /\ fetch' = "answered" /\ fetched' = trade
    /\ UNCHANGED <<trade, wsVars, aggVars, known, fromWs, sinceMinute, sampled, numberVars,
                   seenVars, warmVars>>

\* ... or it does not, or with a code other than 200.
FetchRefused ==
    /\ fetch = "asking" /\ fetch' = "idle"
    /\ UNCHANGED <<trade, wsVars, aggVars, known, fetched, fromWs, sinceMinute, sampled,
                   numberVars, seenVars, warmVars>>

\* The answer is read from the stream: a valid price, or nothing.
FetchRead ==
    /\ fetch = "answered"
    /\ fetch' \in {"got", "idle"}
    /\ UNCHANGED <<trade, wsVars, aggVars, known, fetched, fromWs, sinceMinute, sampled,
                   numberVars, seenVars, warmVars>>

\* handleMutexTimeout
FetchGivesUp ==
    /\ fetch = "got" /\ fetch' = "idle"
    /\ UNCHANGED <<trade, wsVars, aggVars, known, fetched, fromWs, sinceMinute, sampled,
                   numberVars, seenVars, warmVars>>

\* updateHourlyAverage
UpdateHour ==
    IF inHour + 1 < HourLen
    THEN inHour' = inHour + 1 /\ UNCHANGED hour
    ELSE /\ inHour' = 0
         /\ hour' = IF Available(minute') < HourLen THEN hour
                    ELSE Push(hour, nextMinute, LiveShare(minute', HourLen) >= LivePct)

\* updateMinuteAverage: the average of the seconds, live whatever they are.
UpdateMinute ==
    IF Available(sec) = 0 THEN UNCHANGED <<minute, hour, nextMinute, inHour, status>>
    ELSE /\ minute' = Push(minute, nextMinute, TRUE)
         /\ nextMinute' = (nextMinute + 1) % MinuteNumbers
         /\ UpdateHour
         /\ status' = StatusAfter(sec, minute')

LiveFrames(m, h) ==
    {f \in {"four", "day", "week"} : Available(h) >= HoursOf[f]}
       \cup {f \in {"half"} : Available(m) >= HalfHour}
       \cup {f \in {"two"} : Available(m) >= Minutes /\ LiveShare(m, Minutes) >= LivePct}

FetchStore ==
    /\ fetch = "got"
    /\ fetch' = "idle"
    /\ known' = fetched
    /\ late' = (late \/ (~fromWs /\ fresh) \/ fetched < wsLast \/ fetched < known)
    /\ IF sinceMinute >= Seconds
       THEN UpdateMinute /\ sinceMinute' = 0
       ELSE UNCHANGED <<minute, hour, nextMinute, inHour, status, sinceMinute>>
    /\ has' = warm \cup LiveFrames(minute', hour')
    /\ UNCHANGED <<trade, wsVars, aggVars, fetched, fromWs, sampled, nextSample, last, best,
                   missed, stage, arrayVars, mode, sec, five, global, warm>>

Next ==
    \/ Warming \/ StartTasks
    \/ SecondPasses \/ Trade \/ CandleComes \/ Connects \/ Stale
    \/ ProcessPrice \/ ProcessOther \/ StoreKnown
    \/ Sample
    \/ FetchBegin \/ FetchAnswer \/ FetchRefused \/ FetchRead \/ FetchGivesUp \/ FetchStore

Spec == Init /\ [][Next]_vars

-----------------------------------------------------------------------------
(* Properties *)

\* The type invariant.
TypeOK ==
    /\ trade \in 1 .. MaxTrade
    /\ on \in BOOLEAN /\ fresh \in BOOLEAN /\ storing \in BOOLEAN
    /\ text \in {Candle} \cup 0 .. MaxTrade /\ wsLast \in 0 .. MaxTrade
    /\ {current, closed} \subseteq [close : 0 .. MaxTrade, age : 0 .. 2]
    /\ known \in 0 .. MaxTrade
    /\ WarmTypeOK
    /\ fetch \in {"idle", "asking", "answered", "got"} /\ fetched \in 0 .. MaxTrade /\ fromWs \in BOOLEAN
    /\ sinceMinute \in 0 .. Seconds /\ sampled \in BOOLEAN
    /\ inHour \in 0 .. HourLen - 1
    /\ nextSample \in 0 .. SampleNumbers - 1 /\ nextMinute \in 0 .. MinuteNumbers - 1
    /\ last \in 0 .. MaxTrade /\ best \in 0 .. MaxTrade
    /\ late \in BOOLEAN /\ missed \in BOOLEAN

\* s is a run of entries, so far apart, that ends with the newest one.
Newest(s, newest, apart, numbers) ==
    \A i \in 1 .. Len(s) : s[i] = (newest - apart * (Len(s) - i)) % numbers

NewestHour == (nextMinute - 1 - inHour) % MinuteNumbers

\* Every return is computed from the newest entries of its ring, none left out, none
\* twice, the oldest first, before and after the ring has turned and right after a warm
\* start; and the hours are whole hours that follow each other.
SeriesInOrder ==
    /\ Newest(Of(sec, SecondSlots(sec)), nextSample - 1, 1, SampleNumbers)
    /\ Newest(Of(five, FiveMinuteSlots(five)), nextSample - 1, 1, SampleNumbers)
    /\ Newest(Of(minute, HalfHourSlots(minute, HalfHour)), nextMinute - 1, 1, MinuteNumbers)
    /\ Newest(Of(minute, TwoHourSlots(minute, TwoHourLeast)), nextMinute - 1, 1, MinuteNumbers)
    /\ \A f \in {"day", "week"} :
          Newest(Of(hour, DaysSlots(hour, HoursOf[f], DayLeast)), NewestHour, HourLen,
                 MinuteNumbers)
    /\ LET pair == Of(hour, HoursBackSlots(hour, HoursOf["four"]))
       IN  pair # <<>> =>
             /\ pair[2] = NewestHour
             /\ pair[1] = (NewestHour - HourLen * Least(HoursOf["four"], Available(hour) - 1))
                             % MinuteNumbers

\* The samples run with time: one is older than an earlier one only after a price that
\* was stored or handled when a newer one was here (a fetch over the WebSocket's head, or
\* a text that waited for loop() longer than a fetch took), or while a price is not stored
\* because the mutex was busy.
SampledInOrder == [][last' # last => last' >= best \/ late \/ missed]_vars

\* "Synchronise the state of PriceData after the warm start": it is what setup() put down.
SyncedAfterWarm == stage = "run" => global = [at |-> sec.at, full |-> sec.full]

\* "Average of the 60 seconds": of all the seconds that there are.
AverageOfAll ==
    /\ AverageSlots(sec, Seconds) = ExtremeSlots(sec, Seconds)
    /\ AverageSlots(minute, Minutes) = ExtremeSlots(minute, Minutes)

\* "The warm start has failed, go on as a cold start": the return of two hours that was
\* taken back comes again only with two hours of minutes.
FailedIsCold ==
    [][(stage = "run" /\ mode = "failed" /\ "two" \notin has /\ "two" \in has') => Available(minute') >= Minutes]_vars
=============================================================================
