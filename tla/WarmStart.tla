------------------------------ MODULE WarmStart ------------------------------
(***************************************************************************)
(* The warm start: setup() fills the rings with candles of the exchange,   *)
(* one timeframe after the other, and computes returns from them that      *)
(* stand in until the rings hold enough prices of their own.               *)
(*                                                                         *)
(* A candle is the number of its place in time.  fetchBitvavoCandles reads *)
(* an answer entry by entry into an array that may be smaller than what    *)
(* was asked for; nothing else runs meanwhile, so a fetch is one step.     *)
(* Local arrays and counts live until performWarmStart returns.            *)
(***************************************************************************)
EXTENDS PriceRings

CONSTANTS
    Seconds,        \* SECONDS_PER_MINUTE
    FiveMinutes,    \* SECONDS_PER_5MINUTES
    FiveNeeds,      \* candles of a minute that the five minutes are drawn from
    Minutes,        \* MINUTES_FOR_30MIN_CALC
    Hours,          \* HOURS_FOR_7D
    WeekNeeds,      \* candles of a day that make a week
    LivePct,        \* the share of live entries that is enough: 80
    Asked, Room     \* candles asked for, and room for them, by timeframe

Frames == {"half", "two", "four", "day", "week"}
Fetched == {"minute", "weeks", "days", "hours", "fours", "halves", "twos"}

ASSUME WarmAssumption ==
    /\ Seconds \in 2 .. 255 /\ FiveMinutes \in Nat /\ Seconds <= FiveMinutes
    /\ FiveNeeds \in 1 .. Seconds /\ FiveNeeds <= Minutes
    /\ Minutes \in 2 .. 255 /\ Hours \in Nat \ {0}
    /\ LivePct \in 1 .. 100
    /\ Asked \in [Fetched -> Nat \ {0}] /\ Room \in [Fetched -> Nat \ {0}]
    /\ Room["minute"] = Seconds /\ WeekNeeds \in 2 .. Room["days"]

SampleNumbers == 2 * FiveMinutes
MinuteNumbers == 2 * Minutes

VARIABLES
    stage,                  \* of setup(): "boot", "warming", "warm"; then "run"
    step, tries,            \* what is fetched, and how often it has been
    came, kept,             \* the candles that came in, and those in the array
    minutes, days,          \* the arrays of minutes and of days, kept to the end
    series,                 \* what the last return was computed from (history)
    skip,                   \* warmStartSkip1m and warmStartSkip5m
    ok,                     \* warmStartOk1m, 5m, 30m and 2h
    mode, status,           \* warmStartStats.mode, warmStartStatus
    sec, five, minute, hour,    \* the rings
    global,                 \* secondIndex and secondArrayFilled outside PriceData
    warm, has               \* the frames with a warm return, and with any

arrayVars == <<step, tries, came, kept, minutes, days, series, skip, ok>>
outcomeVars == <<mode, status>>
ringVars == <<sec, five, minute, hour, global>>
warmVars == <<stage, arrayVars, outcomeVars, ringVars, warm, has>>

NoArrays ==
    /\ step = "minute" /\ tries = 0 /\ came = <<>> /\ kept = <<>>
    /\ minutes = <<>> /\ days = <<>> /\ series = <<>> /\ ok = {}

WarmInit ==
    /\ stage = "boot" /\ NoArrays /\ skip \in SUBSET {"minute", "five"}
    /\ mode = "disabled" /\ status = "live"
    /\ sec = Empty(Seconds) /\ five = Empty(FiveMinutes)
    /\ minute = Empty(Minutes) /\ hour = Empty(Hours)
    /\ global = [at |-> 0, full |-> FALSE]
    /\ warm = {} /\ has = {}

-----------------------------------------------------------------------------
(* fetchBitvavoCandles. *)

\* Any candles, so many at most.
Candles(limit) == UNION {[1 .. n -> 1 .. limit] : n \in 0 .. limit}

\* What may come of an answer of up to limit candles: any of them without a close that
\* can be read, and the connection cut anywhere, so that some are left; and nothing in the
\* code looks at the order they come in, so it is any.  Each comes once.  A candle is
\* stored with the character after its bracket: a cut right there is a cut before it.
Answers(limit) ==
    {answer \in Candles(limit) :
        \A i, j \in 1 .. Len(answer) : i # j => answer[i] # answer[j]}

\* The array is written in a circle.
Written(answer, room) ==
    [i \in 1 .. Least(Len(answer), room) |->
        answer[CHOOSE k \in 1 .. Len(answer) :
                  /\ (k - 1) % room = i - 1
                  /\ k + room > Len(answer)]]

\* Faulty: the array as it was written, however often it went round.
KeptAsWritten(answer, room) == Written(answer, room)

\* A circle that is not closed at the end is turned: the part before the write index goes
\* to the back.
Kept(answer, room) ==
    LET w  == Written(answer, room)
        at == Len(answer) % room
    IN  IF Len(answer) <= room \/ at = 0 THEN w
        ELSE SubSeq(w, at + 1, room) \o SubSeq(w, 1, at)

MaxTries == [f \in Fetched |-> IF f = "minute" THEN 1 ELSE IF f = "hours" THEN 2 ELSE 3]

\* Two candles are enough; a failed fetch counts as none.
Fetching == tries < MaxTries[step] /\ Len(kept) < 2 /\ ~(step = "minute" /\ "minute" \in skip)

Fetch ==
    /\ stage = "warming" /\ step \in Fetched /\ Fetching
    /\ tries' = tries + 1
    /\ came' \in Answers(Asked[step])
    /\ kept' = Kept(came', Room[step])
    /\ UNCHANGED <<stage, step, minutes, days, series, skip, ok, outcomeVars, ringVars, warm, has>>

-----------------------------------------------------------------------------
(* performWarmStart. *)

Done(f) == stage = "warming" /\ step = f /\ ~Fetching

Go(f) == step' = f /\ tries' = 0 /\ came' = <<>> /\ kept' = <<>>

\* Sorted: no two candles of an answer have the same time.
ByTime(s) ==
    CHOOSE t \in [1 .. Len(s) -> {s[i] : i \in 1 .. Len(s)}] :
        \A i, j \in 1 .. Len(s) : i < j => t[i] < t[j]

\* computeRegressionPctFromSeries and ...WithTimes: from two candles on there is a return.
Returns(f, s) ==
    /\ series' = s
    /\ warm' = IF Len(s) >= 2 THEN warm \cup {f} ELSE warm \ {f}

NoReturn == UNCHANGED <<series, warm>>

\* Disabled, no WiFi, or less than 20000 bytes of heap.
WarmStartNot ==
    /\ stage = "boot"
    /\ stage' = "warm"
    /\ \/ mode' = "disabled" /\ status' = "live"
       \/ mode' = "failed" /\ status' = "cold"
    /\ UNCHANGED <<arrayVars, ringVars, warm, has>>

WarmStartBegins ==
    /\ stage = "boot"
    /\ stage' = "warming" /\ status' = "warming"
    /\ UNCHANGED <<arrayVars, mode, ringVars, warm, has>>

\* The closes of the minutes go into the ring of seconds, those of the last five, drawn
\* out over their seconds, into that of five minutes; only then does PriceData take over
\* the indices.
UseMinutes ==
    /\ Done("minute") /\ Go("weeks")
    /\ LET n == Len(kept)
           isFive == "five" \notin skip /\ n >= FiveNeeds
       IN  /\ global' = IF n > 0 THEN [at |-> n, full |-> n = Seconds] ELSE global
           /\ sec' = IF n = 0 THEN sec
                     ELSE IF isFive THEN Seeded(Seconds, SampleNumbers, n, n, n = Seconds)
                     ELSE Seeded(Seconds, SampleNumbers, n, 0, FALSE)
           /\ five' = IF isFive
                      THEN Seeded(FiveMinutes, SampleNumbers, FiveMinutes, 0, TRUE) ELSE five
           /\ ok' = ok \cup (IF n > 0 THEN {"minute"} ELSE skip \cap {"minute"})
                       \cup (IF isFive THEN {"five"} ELSE skip \cap {"five"})
    /\ minutes' = kept /\ series' = kept
    /\ UNCHANGED <<stage, days, skip, outcomeVars, minute, hour, warm, has>>

\* The weeks are not sorted; their regression takes each price with its own time.
UseWeeks ==
    /\ Done("weeks") /\ Go("days")
    /\ Returns("week", ByTime(kept))
    /\ UNCHANGED <<stage, minutes, days, skip, ok, outcomeVars, ringVars, has>>

UseDays ==
    /\ Done("days") /\ Go("hours")
    /\ days' = ByTime(kept)
    /\ Returns("day", days')
    /\ UNCHANGED <<stage, minutes, skip, ok, outcomeVars, ringVars, has>>

\* The hours replace the return of a day; with none, that of the days stays.
UseHours ==
    /\ Done("hours") /\ Go("week")
    /\ IF Len(kept) >= 2 THEN Returns("day", ByTime(kept)) ELSE NoReturn
    /\ UNCHANGED <<stage, minutes, days, skip, ok, outcomeVars, ringVars, has>>

\* The last seven days replace the return of the weeks.
UseWeekOfDays ==
    /\ stage = "warming" /\ step = "week" /\ Go("fours")
    /\ IF Len(days) >= WeekNeeds
       THEN Returns("week", SubSeq(days, Len(days) - WeekNeeds + 1, Len(days))) ELSE NoReturn
    /\ UNCHANGED <<stage, minutes, days, skip, ok, outcomeVars, ringVars, has>>

\* The candles of four hours come without their times and are taken as they are.
UseFours ==
    /\ Done("fours") /\ Go("halves")
    /\ Returns("four", kept)
    /\ UNCHANGED <<stage, minutes, days, skip, ok, outcomeVars, ringVars, has>>

\* The ring of minutes is filled with the minutes of the first step.
UseHalves ==
    /\ Done("halves") /\ Go("twos")
    /\ Returns("half", ByTime(kept))
    /\ IF Len(kept) >= 2
       THEN /\ ok' = ok \cup {"half"}
            /\ LET m == Least(Len(minutes), Minutes)
               IN  minute' = Seeded(Minutes, MinuteNumbers, m, m, m = Minutes)
       ELSE UNCHANGED <<ok, minute>>
    /\ UNCHANGED <<stage, minutes, days, skip, outcomeVars, sec, five, hour, global, has>>

UseTwos ==
    /\ Done("twos") /\ Go("end")
    /\ Returns("two", ByTime(kept))
    /\ ok' = IF Len(kept) >= 2 THEN ok \cup {"two"} ELSE ok
    /\ UNCHANGED <<stage, minutes, days, skip, outcomeVars, ringVars, has>>

\* Faulty: what the five minutes came to is not asked.
OutcomeWithoutFive ==
    IF {"minute", "half", "two"} \subseteq ok THEN "full"
    ELSE IF "minute" \in ok THEN "partial" ELSE "failed"

Outcome ==
    IF {"minute", "five", "half", "two"} \subseteq ok THEN "full"
    ELSE IF "minute" \in ok THEN "partial" ELSE "failed"

\* A failed warm start takes two flags back, and leaves what they are made of.
WarmStartEnds ==
    /\ stage = "warming" /\ step = "end"
    /\ stage' = "warm"
    /\ mode' = Outcome
    /\ status' = IF Outcome = "failed" THEN "cold" ELSE "warming"
    /\ has' = IF Outcome = "failed" THEN warm \ {"half", "two"} ELSE warm
    /\ step' = "minute" /\ minutes' = <<>> /\ days' = <<>> /\ series' = <<>> /\ ok' = {}
    /\ UNCHANGED <<tries, came, kept, skip, ringVars, warm>>

WarmNext ==
    \/ WarmStartNot \/ WarmStartBegins \/ Fetch
    \/ UseMinutes \/ UseWeeks \/ UseDays \/ UseHours \/ UseWeekOfDays
    \/ UseFours \/ UseHalves \/ UseTwos
    \/ WarmStartEnds

\* updateWarmStartStatus, after each minute: the rings of seconds and of minutes are
\* mostly live.
StatusAfter(s, m) ==
    IF status = "warming" /\ LiveAll(s) >= LivePct /\ LiveAll(m) >= LivePct THEN "live"
    ELSE status

-----------------------------------------------------------------------------
(* Properties *)

WarmTypeOK ==
    /\ stage \in {"boot", "warming", "warm", "run"}
    /\ step \in Fetched \cup {"week", "end"}
    /\ tries \in 0 .. 3
    /\ step \in Fetched => /\ came \in Candles(Asked[step])
                           /\ kept \in Candles(Asked[step]) /\ Len(kept) <= Room[step]
    /\ Len(minutes) <= Room["minute"] /\ Len(days) <= Room["days"] /\ series \in Seq(Nat)
    /\ skip \subseteq {"minute", "five"} /\ ok \subseteq {"minute", "five", "half", "two"}
    /\ mode \in {"disabled", "full", "partial", "failed"}
    /\ status \in {"live", "warming", "cold"}
    /\ sec \in Ring(Seconds, SampleNumbers) /\ five \in Ring(FiveMinutes, SampleNumbers)
    /\ minute \in Ring(Minutes, MinuteNumbers) /\ hour \in Ring(Hours, MinuteNumbers)
    /\ global \in [at : 0 .. Seconds, full : BOOLEAN]
    /\ warm \subseteq Frames /\ has \subseteq Frames

Forward(s) == \A i \in 1 .. Len(s) - 1 : s[i] < s[i + 1]

\* Of an answer that is longer than the array the last candles are kept, in the order
\* they came in, whatever is left out or cut off; and whatever order that is, a series a
\* return is computed from runs forward in time, but for that of the four hours (and the
\* minutes, which no return is computed from).
CandlesInOrder ==
    /\ step \in Fetched =>
          kept = SubSeq(came, Len(came) - Least(Len(came), Room[step]) + 1, Len(came))
    /\ step \notin {"weeks", "halves"} => Forward(series)

\* "Seed the minute buffer from the existing 1m closes (chronological)": the minutes that
\* go into the rings run forward in time.
MinutesChronological == Forward(minutes)

\* The return of the four hours is computed from candles that run forward in time.
FourHoursForward == step = "halves" => Forward(series)

\* A warm start counts as full only with what the alerts of two hours need: both returns,
\* and the ring of five minutes full of the same candles the ring of minutes starts with,
\* unless the settings skip them.
FullIsBacked ==
    mode = "full" =>
        /\ {"half", "two"} \subseteq warm
        /\ skip = {} => five.full /\ Available(minute) >= FiveNeeds
=============================================================================
