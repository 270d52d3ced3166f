------------------------------ MODULE PriceRings -----------------------------
(***************************************************************************)
(* The rings of prices: one entry per second (a minute and five minutes of *)
(* them), one per minute and one per hour.  Returns, averages and extremes *)
(* are computed from the newest entries of a ring, and each reader finds   *)
(* them with index arithmetic of its own.                                  *)
(*                                                                         *)
(* A ring is a record: "at" is the index that is written next, "full" the  *)
(* flag that all slots have been written, "num" the entries and "live"     *)
(* their source.  An entry is the number of the price it holds, counted    *)
(* from the first one after the boot, modulo something larger than the     *)
(* ring: which prices a reader sees, and in which order, is all that       *)
(* matters of a regression or an average here.                             *)
(***************************************************************************)
EXTENDS Integers, Sequences, FiniteSets

Ring(size, numbers) ==
    [at : 0 .. size, full : BOOLEAN, num : [0 .. size - 1 -> 0 .. numbers - 1],
     live : [0 .. size - 1 -> BOOLEAN]]

Empty(size) ==
    [at |-> 0, full |-> FALSE, num |-> [i \in 0 .. size - 1 |-> 0],
     live |-> [i \in 0 .. size - 1 |-> FALSE]]

\* The warm start writes count entries from slot 0 on, the newest one numbered -1.
Seeded(size, numbers, count, at, full) ==
    [at |-> at, full |-> full,
     num |-> [i \in 0 .. size - 1 |-> IF i < count THEN (i - count) % numbers ELSE 0],
     live |-> [i \in 0 .. size - 1 |-> FALSE]]

Size(r) == Cardinality(DOMAIN r.num)

\* calculateAvailableElements
Available(r) == IF r.full THEN Size(r) ELSE r.at

\* addPriceToSecondArray, updateMinuteAverage and updateHourlyAverage.  After a warm
\* start the index may be one past the end.
Push(r, n, isLive) ==
    LET slot == IF r.at >= Size(r) THEN 0 ELSE r.at
    IN  [at |-> (slot + 1) % Size(r),
         full |-> r.full \/ r.at >= Size(r) \/ slot + 1 = Size(r),
         num |-> [r.num EXCEPT ![slot] = n],
         live |-> [r.live EXCEPT ![slot] = isLive]]

-----------------------------------------------------------------------------
(* The readers. *)

Least(a, b) == IF a < b THEN a ELSE b

Of(r, slots) == [i \in DOMAIN slots |-> r.num[slots[i]]]

\* getRingBufferIndexAgo: -1 for a step of a whole ring or more.
IndexAgo(at, ago, size) == IF ago >= size THEN -1 ELSE (at - ago) % size

\* getLastWrittenIndex
LastWritten(at, size) == IF at = 0 THEN size - 1 ELSE at - 1

\* PriceData::calculateReturn1Minute
SecondSlots(r) ==
    LET count == Available(r)
        start == (LastWritten(r.at, Size(r)) + Size(r) - (count - 1)) % Size(r)
    IN  [i \in 1 .. count |-> IF r.full THEN (start + i - 1) % Size(r) ELSE i - 1]

\* Faulty: the slots as they lie, which is chronological only until the ring has turned.
FiveMinuteSlotsRaw(r) == [i \in 1 .. Available(r) |-> i - 1]

\* calculateReturn5Minutes copies a ring that has turned into chronological order.
FiveMinuteSlots(r) ==
    [i \in 1 .. Available(r) |-> IF r.full THEN (r.at + i - 1) % Size(r) ELSE i - 1]

\* calculateLinearTrend30Minutes and ...2Hours, from the newest back, oldest last: the
\* latter counts from the last written slot.
HalfHourSlots(r, window) ==
    IF Available(r) < window THEN <<>>
    ELSE [i \in 1 .. window |->
             IF r.full THEN (r.at - 1 - (window - i) + Size(r)) % Size(r)
             ELSE r.at - 1 - (window - i)]

TwoHourSlots(r, least) ==
    LET count == Available(r)
    IN  IF count < least THEN <<>>
        ELSE [i \in 1 .. count |->
                 IF r.full THEN IndexAgo(LastWritten(r.at, Size(r)), count - i, Size(r))
                 ELSE r.at - 1 - (count - i)]

\* calculateLinearTrend1Day and ...7Days on the ring of hours.
DaysSlots(r, window, least) ==
    LET count == Least(Available(r), window)
    IN  IF count < least THEN <<>>
        ELSE [i \in 1 .. count |->
                 IF r.full THEN IndexAgo(LastWritten(r.at, Size(r)), count - i, Size(r))
                 ELSE r.at - count + i - 1]

\* calculateReturnFromHourly: the pair of an hour ago and now.
HoursBackSlots(r, back) ==
    LET count == Available(r)
        ago   == IF count > back THEN back ELSE count - 1
        last  == IF r.full THEN LastWritten(r.at, Size(r)) ELSE r.at - 1
    IN  IF count < 2 \/ back = 0 THEN <<>>
        ELSE <<IF r.full THEN IndexAgo(last, ago, Size(r)) ELSE last - ago, last>>

\* findMinMaxInArray, newest first, and accumulateValidPricesFromRingBuffer: the latter
\* cannot step back a whole ring, and leaves out the oldest entry of a full one.
ExtremeSlots(r, window) ==
    {(r.at - i + Size(r)) % Size(r) : i \in 1 .. Least(Available(r), window)}

AverageSlots(r, window) ==
    {IF r.full THEN IndexAgo(r.at, i, Size(r)) ELSE r.at - i :
        i \in 1 .. Least(Least(Available(r), window), IF r.full THEN Size(r) - 1 ELSE r.at)}

\* calcLivePctMinuteAverages, in percent: the oldest of a full ring is not counted either.
LiveShare(r, window) ==
    IF Available(r) < window THEN 0
    ELSE (100 * Cardinality({i \in 1 .. window :
                 LET slot == IndexAgo(r.at, i, Size(r)) IN slot >= 0 /\ r.live[slot]})) \div window

LiveAll(r) ==
    LET count == Available(r)
    IN  IF count = 0 THEN 0
        ELSE (100 * Cardinality({i \in 0 .. count - 1 : r.live[i]})) \div count
=============================================================================
