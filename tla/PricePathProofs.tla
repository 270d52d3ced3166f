--------------------------- MODULE PricePathProofs ---------------------------
(***************************************************************************)
(* Theorems about PricePath, for any number of trades and all sizes of the *)
(* rings.                                                                  *)
(***************************************************************************)
EXTENDS PricePath, SequenceTheorems, FiniteSetTheorems, TLAPS

-----------------------------------------------------------------------------
(* The samples run with time.                                               *)

Aggregates == [close : Nat, age : 0 .. 2]

NumbersOK ==
    /\ trade \in Nat /\ text \in Int /\ wsLast \in Nat /\ known \in Nat /\ fetched \in Nat
    /\ last \in Nat /\ best \in Nat
    /\ fresh \in BOOLEAN /\ storing \in BOOLEAN /\ late \in BOOLEAN /\ missed \in BOOLEAN
    /\ current \in Aggregates /\ closed \in Aggregates
    /\ fetch \in {"idle", "asking", "answered", "got"} /\ fromWs \in BOOLEAN

\* What loop() holds: prices arrive in the order of the trades, the aggregate of this
\* second ends with the newest of them, and the closed one is at least a second old.
StreamOK ==
    /\ text <= trade /\ wsLast <= trade /\ fetched <= trade
    /\ text > Nothing => wsLast <= text
    /\ current = None \/ (current.close = wsLast /\ current.close > Nothing)
    /\ closed.age >= 1 /\ closed.close <= wsLast
    /\ current.age < 2 => fresh
    /\ fetch \in {"asking", "answered"} => ~fromWs
    /\ fetch = "got" /\ fromWs => fetched <= wsLast

\* Unless a price came late: no sample is ahead of what is here; a WebSocket that is
\* fresh is ahead of all; an aggregate that may be sampled is not behind a sample; and
\* when the last price was stored, the known one is the newest.
AheadOK ==
    ~late =>
        /\ fresh => known <= wsLast /\ best <= wsLast
        /\ best <= known \/ best <= wsLast
        /\ closed.age <= 1 => best <= closed.close
        /\ ~missed => /\ best <= known /\ closed.close <= known
                      /\ ~storing => wsLast <= known

SampleInv == NumbersOK /\ StreamOK /\ AheadOK

\* The price that the sampler takes: not behind an earlier sample, unless something came
\* late or the last price could not be stored.
LEMMA ToSampleOK ==
    ASSUME SampleInv
    PROVE  /\ ToSample \in Nat
           /\ ToSample = known \/ (closed.age = 1 /\ ToSample = closed.close)
           /\ late \/ missed \/ best <= ToSample
<1>1. /\ known \in Nat /\ closed.close \in Nat /\ closed.age \in 0 .. 2 /\ closed.age >= 1
  BY DEF SampleInv, NumbersOK, StreamOK, Aggregates
<1>2. ToSample = known \/ (closed.age = 1 /\ ToSample = closed.close)
  BY <1>1 DEF ToSample
<1>3. late \/ missed \/ best <= known
  BY DEF SampleInv, NumbersOK, AheadOK
<1>4. closed.age = 1 => late \/ best <= closed.close
  BY DEF SampleInv, NumbersOK, AheadOK
<1> QED BY <1>1, <1>2, <1>3, <1>4

LEMMA SampleStep == SampleInv /\ [Next]_vars => SampleInv'
<1> SUFFICES ASSUME SampleInv, [Next]_vars PROVE SampleInv'
  OBVIOUS
<1>0. NumbersOK /\ StreamOK /\ AheadOK
  BY DEF SampleInv
<1>a. /\ current.close \in Nat /\ current.age \in 0 .. 2
      /\ closed.close \in Nat /\ closed.age \in 0 .. 2
  BY <1>0 DEF NumbersOK, Aggregates
<1>s. ASSUME UNCHANGED <<trade, wsVars, aggVars, known, fetchVars, seenVars>>
      PROVE  SampleInv'
  BY <1>0, <1>s DEF SampleInv, NumbersOK, StreamOK, AheadOK, wsVars, aggVars, fetchVars,
                    seenVars
<1>1. CASE Warming \/ StartTasks
  BY <1>1, <1>s DEF Warming, StartTasks
<1>2. CASE SecondPasses
  <2>1. /\ current' \in Aggregates /\ closed' \in Aggregates
        /\ current'.close = current.close /\ closed'.close = closed.close
        /\ current'.age >= current.age /\ closed'.age = 2
        /\ current = None => current' = None
    <3>1. Older(None) = None
      BY DEF Older, None
    <3>2. current' = Older(current) /\ closed' = Older(closed)
      BY <1>2 DEF SecondPasses
    <3>3. \A agg \in Aggregates :
             /\ Older(agg) \in Aggregates /\ Older(agg).close = agg.close
             /\ Older(agg).age >= agg.age /\ (agg.age >= 1 => Older(agg).age = 2)
      BY DEF Older, Aggregates
    <3> QED BY <1>0, <3>1, <3>2, <3>3 DEF NumbersOK, StreamOK
  <2>2. current'.age \in 0 .. 2 /\ (current'.age < 2 => current.age < 2)
    BY <1>a, <2>1 DEF Aggregates
  <2>3. UNCHANGED <<trade, wsVars, known, fetchVars, seenVars>>
    BY <1>2 DEF SecondPasses
  <2>4. NumbersOK'
    BY <1>0, <2>1, <2>3 DEF NumbersOK, wsVars, fetchVars, seenVars
  <2>5. StreamOK'
    BY <1>0, <2>1, <2>2, <2>3 DEF StreamOK, wsVars, fetchVars
  <2>6. AheadOK'
    BY <1>0, <2>1, <2>3 DEF AheadOK, wsVars, seenVars
  <2> QED BY <2>4, <2>5, <2>6 DEF SampleInv
<1>3. CASE Trade
  <2>1. trade' = trade + 1 /\ text' \in {text, trade + 1}
    BY <1>3 DEF Trade
  <2>2. UNCHANGED <<wsLast, fresh, storing, aggVars, known, fetchVars, seenVars>>
    BY <1>3 DEF Trade
  <2> QED BY <1>0, <2>1, <2>2
             DEF SampleInv, NumbersOK, StreamOK, AheadOK, aggVars, fetchVars, seenVars
<1>4. CASE CandleComes
  BY <1>0, <1>4 DEF CandleComes, Candle, Nothing, SampleInv, NumbersOK, StreamOK, AheadOK,
                    aggVars, fetchVars, seenVars
<1>5. CASE Connects
  BY <1>0, <1>5 DEF Connects, SampleInv, NumbersOK, StreamOK, AheadOK, aggVars, fetchVars,
                    seenVars
<1>6. CASE Stale
  <2>1. /\ current.age = 2 /\ ~fresh' /\ fresh' \in BOOLEAN
        /\ UNCHANGED <<trade, text, wsLast, storing, aggVars, known, fetchVars, seenVars>>
    BY <1>6 DEF Stale
  <2>2. NumbersOK' /\ StreamOK'
    BY <1>0, <2>1 DEF NumbersOK, StreamOK, aggVars, fetchVars, seenVars
  <2>3. AheadOK'
    BY <1>0, <2>1 DEF AheadOK, aggVars, seenVars
  <2> QED BY <2>2, <2>3 DEF SampleInv
<1>7. CASE ProcessPrice
  <2>1. /\ text > Nothing /\ ~storing /\ text' = Nothing /\ wsLast' = text /\ fresh'
        /\ storing' /\ late' = (late \/ text < known)
        /\ UNCHANGED <<trade, known, fetchVars, last, best, missed>>
        /\ Aggregate(text)
    BY <1>7 DEF ProcessPrice
  <2>2. text \in Nat /\ wsLast <= text /\ text <= trade
    BY <1>0, <2>1 DEF NumbersOK, StreamOK, Nothing
  <2>3. /\ current' \in Aggregates /\ current'.close = text
        /\ \/ closed' = closed
           \/ closed' = current /\ current # None /\ current.age >= 1
    <3>1. CASE current = None \/ current.age > 0
      BY <1>a, <2>1, <2>2, <3>1 DEF Aggregate, Aggregates
    <3>2. CASE ~(current = None \/ current.age > 0)
      <4>1. current' = [current EXCEPT !.close = text] /\ closed' = closed
        BY <2>1, <3>2 DEF Aggregate
      <4> QED BY <1>0, <2>2, <4>1 DEF NumbersOK, Aggregates
    <3> QED BY <3>1, <3>2
  <2>4. closed' \in Aggregates /\ closed'.age >= 1 /\ closed'.close <= text
    BY <1>0, <1>a, <2>2, <2>3 DEF NumbersOK, StreamOK
  <2>5. NumbersOK'
    BY <1>0, <1>7, <2>1, <2>2, <2>3, <2>4 DEF ProcessPrice, NumbersOK, Nothing, fetchVars
  <2>6. StreamOK'
    BY <1>0, <2>1, <2>2, <2>3, <2>4 DEF NumbersOK, StreamOK, Nothing, fetchVars
  <2>7. ASSUME ~late'
        PROVE  /\ known <= text /\ best <= text
               /\ closed'.age <= 1 => best <= closed'.close
               /\ ~missed => best <= known /\ closed'.close <= known
    <3>0. ~late /\ ~(text < known)
      BY <2>1, <2>7, Zenon
    <3>1. ~late /\ known <= text
      BY <1>0, <2>2, <3>0 DEF NumbersOK
    <3>2. best <= text
      BY <1>0, <2>2, <3>1 DEF NumbersOK, AheadOK
    <3>3. CASE closed' = closed
      BY <1>0, <3>1, <3>2, <3>3 DEF AheadOK
    <3>4. CASE closed' = current /\ current # None /\ current.age >= 1
      <4>1. closed'.close = wsLast
        BY <1>0, <3>4 DEF StreamOK
      <4>2. closed'.age <= 1 => best <= wsLast
        BY <1>0, <1>a, <3>1, <3>4 DEF StreamOK, AheadOK
      <4>3. ~missed => best <= known /\ wsLast <= known
        BY <1>0, <2>1, <3>1 DEF AheadOK
      <4> QED BY <3>1, <3>2, <4>1, <4>2, <4>3
    <3> QED BY <2>3, <3>3, <3>4
  <2>8. AheadOK'
    BY <2>1, <2>7 DEF AheadOK
  <2> QED BY <2>5, <2>6, <2>8 DEF SampleInv
<1>8. CASE ProcessOther
  BY <1>0, <1>8 DEF ProcessOther, Nothing, SampleInv, NumbersOK, StreamOK, AheadOK, aggVars,
                    fetchVars, seenVars
<1>9. CASE StoreKnown
  <2>1. /\ storing /\ ~storing' /\ storing' \in BOOLEAN
        /\ UNCHANGED <<trade, text, wsLast, fresh, aggVars, fetchVars, last, best>>
    BY <1>9 DEF StoreKnown
  <2>2. CASE known' = wsLast /\ missed' = FALSE /\ late' = (late \/ wsLast < known)
    <3>1. NumbersOK' /\ StreamOK'
      BY <1>0, <2>1, <2>2 DEF NumbersOK, StreamOK, aggVars, fetchVars
    <3>2. ASSUME ~late' PROVE ~late /\ known <= wsLast /\ best <= wsLast
      <4>1. ~late /\ ~(wsLast < known)
        BY <2>2, <3>2, Zenon
      <4> QED BY <1>0, <4>1 DEF NumbersOK, AheadOK
    <3>3. closed'.close <= wsLast /\ (~late => (closed'.age <= 1 => best <= closed'.close))
      BY <1>0, <2>1 DEF StreamOK, AheadOK, aggVars
    <3>4. wsLast <= wsLast
      BY <1>0 DEF NumbersOK
    <3>5. AheadOK'
      BY <2>1, <2>2, <3>2, <3>3, <3>4 DEF AheadOK
    <3> QED BY <3>1, <3>5 DEF SampleInv
  <2>3. CASE missed' = TRUE /\ UNCHANGED <<known, late>>
    BY <1>0, <2>1, <2>3 DEF SampleInv, NumbersOK, StreamOK, AheadOK, aggVars, fetchVars
  <2> QED BY <1>9, <2>2, <2>3 DEF StoreKnown
<1>10. CASE Sample
  <2>1. /\ UNCHANGED <<trade, wsVars, aggVars, known, fetchVars, late, missed>>
        /\ \/ last' = ToSample /\ best' = (IF ToSample > best THEN ToSample ELSE best)
           \/ UNCHANGED <<last, best>>
    BY <1>10 DEF Sample
  <2>2. CASE UNCHANGED <<last, best>>
    BY <1>s, <2>1, <2>2 DEF seenVars
  <2>3. CASE last' = ToSample /\ best' = (IF ToSample > best THEN ToSample ELSE best)
    <3>1. /\ ToSample \in Nat
          /\ ToSample = known \/ (closed.age = 1 /\ ToSample = closed.close)
          /\ closed.age <= 1 => ToSample = closed.close
      <4>1. closed.age <= 1 => closed # None
        BY DEF None
      <4> QED BY <4>1, ToSampleOK DEF ToSample
    <3>2. NumbersOK' /\ StreamOK'
      BY <1>0, <2>1, <2>3, <3>1 DEF NumbersOK, StreamOK, wsVars, aggVars, fetchVars
    <3>3. best' = ToSample \/ best' = best
      BY <2>3
    <3>4. ASSUME ~late PROVE closed.age <= 1 => best' <= closed.close
      BY <1>0, <1>a, <3>1, <3>3, <3>4 DEF AheadOK
    <3>5. ASSUME ~late
          PROVE  /\ fresh => known <= wsLast /\ best' <= wsLast
                 /\ best' <= known \/ best' <= wsLast
                 /\ ~missed => /\ best' <= known /\ closed.close <= known
                               /\ ~storing => wsLast <= known
      BY <1>0, <1>a, <3>1, <3>3, <3>5 DEF NumbersOK, StreamOK, AheadOK
    <3>6. AheadOK'
      BY <2>1, <3>4, <3>5 DEF AheadOK, wsVars, aggVars
    <3> QED BY <3>2, <3>6 DEF SampleInv
  <2> QED BY <2>1, <2>2, <2>3
<1>11. CASE FetchBegin
  <2>1. /\ UNCHANGED <<trade, wsVars, aggVars, known, seenVars>>
        /\ \/ fetched' = wsLast /\ fromWs' = TRUE /\ fetch' = "got"
           \/ fetch' = "asking" /\ fromWs' = FALSE /\ fetched' = fetched
    BY <1>11 DEF FetchBegin
  <2>2. NumbersOK' /\ StreamOK'
    <3>1. CASE fetched' = wsLast /\ fromWs' = TRUE /\ fetch' = "got"
      BY <1>0, <2>1, <3>1 DEF NumbersOK, StreamOK, wsVars, aggVars, seenVars
    <3>2. CASE fetch' = "asking" /\ fromWs' = FALSE /\ fetched' = fetched
      BY <1>0, <2>1, <3>2 DEF NumbersOK, StreamOK, wsVars, aggVars, seenVars
    <3> QED BY <2>1, <3>1, <3>2
  <2>3. AheadOK'
    BY <1>0, <2>1 DEF AheadOK, wsVars, aggVars, seenVars
  <2> QED BY <2>2, <2>3 DEF SampleInv
<1>12. CASE FetchAnswer \/ FetchRefused \/ FetchRead \/ FetchGivesUp
  BY <1>0, <1>12 DEF FetchAnswer, FetchRefused, FetchRead, FetchGivesUp, SampleInv, NumbersOK,
                     StreamOK, AheadOK, wsVars, aggVars, seenVars
<1>13. CASE FetchStore
  <2>1. /\ fetch = "got" /\ fetch' = "idle" /\ known' = fetched
        /\ late' = (late \/ (~fromWs /\ fresh) \/ fetched < wsLast \/ fetched < known)
        /\ UNCHANGED <<trade, wsVars, aggVars, fetched, fromWs, last, best, missed>>
    BY <1>13 DEF FetchStore
  <2>2. NumbersOK' /\ StreamOK'
    BY <1>0, <2>1 DEF NumbersOK, StreamOK, wsVars, aggVars
  <2>3. ASSUME ~late'
        PROVE  ~late /\ (fresh => fromWs) /\ wsLast <= fetched /\ known <= fetched
    <3>1. /\ ~late /\ ~(~fromWs /\ fresh)
          /\ ~(fetched < wsLast) /\ ~(fetched < known)
      BY <2>1, <2>3, Zenon
    <3> QED BY <1>0, <3>1 DEF NumbersOK
  <2>4. fromWs => fetched <= wsLast
    BY <1>0, <2>1 DEF StreamOK
  <2>5. ASSUME ~late'
        PROVE  /\ fresh => fetched <= wsLast /\ best <= wsLast
               /\ best <= fetched \/ best <= wsLast
               /\ closed.age <= 1 => best <= closed.close
               /\ ~missed => best <= fetched /\ closed.close <= fetched
    BY <1>0, <1>a, <2>3, <2>4, <2>5 DEF NumbersOK, AheadOK
  <2>6. AheadOK'
    BY <2>1, <2>3, <2>5 DEF AheadOK, wsVars, aggVars
  <2> QED BY <2>2, <2>6 DEF SampleInv
<1>14. CASE UNCHANGED vars
  BY <1>14, <1>s DEF vars
<1> QED BY <1>1, <1>2, <1>3, <1>4, <1>5, <1>6, <1>7, <1>8, <1>9, <1>10, <1>11, <1>12,
           <1>13, <1>14 DEF Next

\* The invariant of the samples holds in every reachable state.
LEMMA SampleInvariance == Spec => []SampleInv
<1>1. ASSUME Init PROVE SampleInv
  <2>1. None \in Aggregates /\ None.age = 2 /\ None.close = 0
    BY DEF None, Nothing, Aggregates
  <2>2. NumbersOK
    <3>1. /\ trade \in Nat /\ text \in Int /\ wsLast \in Nat /\ known \in Nat
          /\ fetched \in Nat /\ last \in Nat /\ best \in Nat
      BY <1>1 DEF Init, Nothing
    <3>2. /\ fresh \in BOOLEAN /\ storing \in BOOLEAN /\ late \in BOOLEAN
          /\ missed \in BOOLEAN /\ fromWs \in BOOLEAN
          /\ current \in Aggregates /\ closed \in Aggregates
          /\ fetch \in {"idle", "asking", "answered", "got"}
      BY <1>1, <2>1 DEF Init
    <3> QED BY <3>1, <3>2 DEF NumbersOK
  <2>3. StreamOK /\ AheadOK
    BY <1>1, <2>1 DEF Init, Nothing, StreamOK, AheadOK
  <2> QED BY <2>2, <2>3 DEF SampleInv
<1> QED BY <1>1, SampleStep, PTL DEF Spec

\* A sample is older than an earlier one only when a price came late or the last one could
\* not be stored.
THEOREM SamplesRunWithTime == Spec => SampledInOrder
<1>1. ASSUME SampleInv, [Next]_vars, last' # last
      PROVE  last' >= best \/ late \/ missed
  <2>1. Sample
    BY <1>1 DEF Next, vars, seenVars, Warming, StartTasks, SecondPasses, Trade, CandleComes,
       Connects, Stale, ProcessPrice, ProcessOther, StoreKnown, FetchBegin, FetchAnswer,
       FetchRefused, FetchRead, FetchGivesUp, FetchStore
  <2>2. last' = ToSample
    BY <1>1, <2>1 DEF Sample
  <2>3. best \in Nat
    BY <1>1 DEF SampleInv, NumbersOK
  <2> QED BY <1>1, <2>2, <2>3, ToSampleOK
<1>2. SampleInv /\ [Next]_vars => [last' # last => last' >= best \/ late \/ missed]_vars
  BY <1>1
<1> QED BY <1>2, SampleInvariance, PTL DEF Spec, SampledInOrder

-----------------------------------------------------------------------------
(* Division. *)

LEMMA Divided ==
    ASSUME NEW b \in Nat \ {0}, NEW x \in Int
    PROVE  x = (x \div b) * b + (x % b) /\ x % b \in 0 .. b - 1 /\ x \div b \in Int
OBVIOUS

LEMMA Remainder ==
    ASSUME NEW b \in Nat \ {0}, NEW q \in Int, NEW r \in 0 .. b - 1
    PROVE  (q * b + r) % b = r
OBVIOUS

\* A sum may be reduced before something is added.
LEMMA ReducedFirst ==
    ASSUME NEW b \in Nat \ {0}, NEW x \in Int, NEW y \in Int
    PROVE  ((x % b) + y) % b = (x + y) % b
<1> DEFINE r == x % b
           s == (r + y) % b
<1>1. PICK q \in Int : x = q * b + r
  BY Divided
<1>2. r \in 0 .. b - 1
  BY Divided
<1> HIDE DEF r
<1>3. PICK p \in Int : r + y = p * b + s
  <2>1. r + y \in Int
    BY <1>2
  <2>2. r + y = ((r + y) \div b) * b + s /\ (r + y) \div b \in Int
    BY <2>1, Divided
  <2> QED BY <2>2
<1>4. s \in 0 .. b - 1
  BY <1>2, Divided
<1> HIDE DEF s
<1>5. x + y = (q + p) * b + s
  BY <1>1, <1>2, <1>3, <1>4
<1>6. (x + y) % b = s
  <2>1. q + p \in Int
    OBVIOUS
  <2> QED BY <2>1, <1>4, <1>5, Remainder
<1> QED BY <1>6 DEF r, s

\* Less than a whole ring apart, two numbers are the same when their remainders are.
LEMMA SameRemainder ==
    ASSUME NEW b \in Nat \ {0}, NEW x \in Int, NEW y \in Int, x % b = y % b,
           x - y < b, y - x < b
    PROVE  x = y
<1> DEFINE r == x % b
<1>1. PICK q \in Int : x = q * b + r
  BY Divided
<1>2. PICK p \in Int : y = p * b + r
  BY Divided
<1>3. r \in 0 .. b - 1
  BY Divided
<1> HIDE DEF r
<1>4. q * b - p * b < b /\ p * b - q * b < b
  BY <1>1, <1>2, <1>3
<1>5. ASSUME NEW m \in Int, NEW n \in Int, m < n PROVE n * b - m * b >= b
  <2>1. n >= m + 1
    BY <1>5
  <2>2. n * b >= (m + 1) * b
    BY <2>1
  <2> QED BY <2>2
<1>6. q = p
  BY <1>4, <1>5
<1> QED BY <1>1, <1>2, <1>6

-----------------------------------------------------------------------------
(* The candles of the warm start. *)

\* A sequence of candles.
LEMMA CandlesAre ==
    ASSUME NEW limit \in Nat, NEW s \in Candles(limit)
    PROVE  /\ s \in Seq(1 .. limit) /\ s \in Seq(Nat) /\ Len(s) \in 0 .. limit
           /\ \A i \in 1 .. Len(s) : s[i] \in 1 .. limit
<1>1. PICK n \in 0 .. limit : s \in [1 .. n -> 1 .. limit]
  BY DEF Candles
<1>2. s \in Seq(1 .. limit)
  BY <1>1, SeqDef
<1>3. Len(s) = n
  BY <1>1, <1>2, LenProperties
<1>4. s \in Seq(Nat)
  BY <1>2, SeqMonotonic
<1> QED BY <1>1, <1>2, <1>3, <1>4, ElementOfSeq

\* The slot of the array that a position of the answer was written to last.
LEMMA WrittenSlot ==
    ASSUME NEW s \in Seq(Nat), NEW room \in Nat \ {0}, NEW k \in 1 .. Len(s), k + room > Len(s)
    PROVE  LET i == ((k - 1) % room) + 1
           IN  i \in 1 .. Least(Len(s), room) /\ Written(s, room)[i] = s[k]
<1> DEFINE i == ((k - 1) % room) + 1
           n == Least(Len(s), room)
           kk == CHOOSE c \in 1 .. Len(s) : (c - 1) % room = i - 1 /\ c + room > Len(s)
<1>0. Len(s) \in Nat
  BY LenProperties
<1>1. (k - 1) % room \in 0 .. room - 1 /\ (k - 1) % room <= k - 1
  <2>1. (k - 1) % room \in 0 .. room - 1
    <3>1. k - 1 \in Int
      BY <1>0
    <3> QED BY <3>1, Divided
  <2>2. CASE k - 1 < room
    BY <1>0, <2>2
  <2>3. CASE k - 1 >= room
    BY <1>0, <2>1, <2>3
  <2> QED BY <1>0, <2>1, <2>2, <2>3
<1>2. i \in 1 .. n /\ (k - 1) % room = i - 1
  BY <1>0, <1>1 DEF Least
<1>3. kk \in 1 .. Len(s) /\ (kk - 1) % room = i - 1 /\ kk + room > Len(s)
  <2>1. \E c \in 1 .. Len(s) : (c - 1) % room = i - 1 /\ c + room > Len(s)
    BY <1>2
  <2> HIDE DEF i
  <2> QED BY <2>1
<1>4. kk = k
  <2>2. (kk - 1) % room = (k - 1) % room
    BY <1>2, <1>3
  <2> HIDE DEF kk
  <2>1. kk - 1 \in Int /\ k - 1 \in Int /\ (kk - 1) - (k - 1) < room /\ (k - 1) - (kk - 1) < room
    BY <1>0, <1>3
  <2>3. kk - 1 = k - 1
    BY <2>1, <2>2, SameRemainder
  <2> QED BY <1>0, <1>3, <2>3
<1>5. Written(s, room)[i] = s[kk]
  BY <1>2 DEF Written
<1> QED BY <1>2, <1>4, <1>5

\* Of an answer that is longer than the array the last candles are kept, in the order they
\* came in.
LEMMA KeptAreTheLast ==
    ASSUME NEW s \in Seq(Nat), NEW room \in Nat \ {0}
    PROVE  Kept(s, room) = SubSeq(s, Len(s) - Least(Len(s), room) + 1, Len(s))
<1> DEFINE L == Len(s)
           n == Least(L, room)
           w == Written(s, room)
           at == L % room
           T == Nat \cup {w[i] : i \in 1 .. n}
           turned == SubSeq(w, at + 1, room) \o SubSeq(w, 1, at)
           ending == SubSeq(s, L - n + 1, L)
<1>1. L \in Nat /\ n \in 0 .. L /\ n <= room /\ at \in 0 .. room - 1
  BY LenProperties, Divided DEF Least
<1>2. w \in Seq(T) /\ Len(w) = n
  <2>1. w \in [1 .. n -> T]
    BY DEF Written
  <2> HIDE DEF w, T, n
  <2> QED BY <1>1, <2>1, SeqDef, LenProperties
<1>3. s \in Seq(T)
  BY SeqMonotonic
<1>4. ending \in Seq(T) /\ Len(ending) = n /\ \A j \in 1 .. n : ending[j] = s[L - n + j]
  <2>1. \A i \in L - n + 1 .. L : s[i] \in T
    BY <1>1, ElementOfSeq
  <2> HIDE DEF L, n, T
  <2> QED BY <1>1, <2>1, SubSeqProperties
<1>5. \A k \in 1 .. L : k + room > L => w[((k - 1) % room) + 1] = s[k]
  BY WrittenSlot
<1>6. Kept(s, room) = IF L <= room \/ at = 0 THEN w ELSE turned
  BY DEF Kept
<1> HIDE DEF L, n, w, at, T
<1>7. CASE L <= room
  <2>1. n = L
    BY <1>1, <1>7 DEF n, Least
  <2>2. \A j \in 1 .. n : w[j] = ending[j]
    <3> SUFFICES ASSUME NEW j \in 1 .. n PROVE w[j] = ending[j]
      OBVIOUS
    <3>1. (j - 1) % room = j - 1
      BY <1>1, <1>7, <2>1
    <3> QED BY <1>1, <1>4, <1>5, <1>7, <2>1, <3>1
  <2> QED BY <1>2, <1>4, <1>6, <1>7, <2>2, SeqEqual DEF L, n
<1>8. CASE L > room
  <2>1. n = room
    BY <1>1, <1>8 DEF n, Least
  <2>2. \A j \in 1 .. n : ending[j] = w[IF at + j <= room THEN at + j ELSE at + j - room]
    <3> SUFFICES ASSUME NEW j \in 1 .. n
                 PROVE  ending[j] = w[IF at + j <= room THEN at + j ELSE at + j - room]
      OBVIOUS
    <3> DEFINE k == L - room + j
    <3>1. k \in 1 .. L /\ k + room > L
      BY <1>1, <1>8, <2>1
    <3>2. (at + (j - 1 - room)) % room = (k - 1) % room
      <4>1. L + (j - 1 - room) = k - 1
        BY <1>1
      <4>2. j - 1 - room \in Int /\ L \in Int
        BY <1>1
      <4>3. ((L % room) + (j - 1 - room)) % room = (L + (j - 1 - room)) % room
        BY <4>2, ReducedFirst
      <4> QED BY <4>1, <4>3 DEF at
    <3>5. k \in Int /\ ending[j] = s[k] /\ w[((k - 1) % room) + 1] = s[k]
      BY <1>1, <1>4, <1>5, <2>1, <3>1
    <3> HIDE DEF k, ending
    <3>3. CASE at + j <= room
      <4>1. (-1) * room + (at + j - 1) = at + (j - 1 - room) /\ at + j - 1 \in 0 .. room - 1
        BY <1>1, <3>3
      <4>2. (k - 1) % room = at + j - 1
        <5>1. -1 \in Int
          OBVIOUS
        <5>2. ((-1) * room + (at + j - 1)) % room = at + j - 1
          BY <4>1, <5>1, Remainder
        <5> QED BY <3>2, <4>1, <5>2
      <4>3. ((k - 1) % room) + 1 = at + j
        BY <1>1, <4>2
      <4> QED BY <3>3, <3>5, <4>3
    <3>4. CASE at + j > room
      <4>1. at + (j - 1 - room) \in 0 .. room - 1
        BY <1>1, <2>1, <3>4
      <4>2. (k - 1) % room = at + (j - 1 - room)
        <5>1. \A x \in 0 .. room - 1 : x % room = x
          OBVIOUS
        <5> QED BY <3>2, <4>1, <5>1
      <4>3. ((k - 1) % room) + 1 = at + j - room /\ ~(at + j <= room)
        BY <1>1, <3>4, <4>2
      <4> QED BY <3>5, <4>3
    <3> QED BY <1>1, <3>3, <3>4
  <2>3. CASE at = 0
    <3>1. \A j \in 1 .. n : w[j] = ending[j]
      BY <1>1, <2>1, <2>2, <2>3
    <3> QED BY <1>2, <1>4, <1>6, <2>3, <3>1, SeqEqual DEF L, n
  <2>4. CASE at # 0
    <3>1. /\ SubSeq(w, at + 1, room) \in Seq(T) /\ Len(SubSeq(w, at + 1, room)) = room - at
          /\ \A j \in 1 .. room - at : SubSeq(w, at + 1, room)[j] = w[at + j]
      <4>1. \A i \in at + 1 .. room : w[i] \in T
        BY <1>1, <1>2, <2>1, ElementOfSeq
      <4>2. at + 1 \in Int /\ room \in Int /\ at + 1 <= room
        BY <1>1
      <4>3. /\ SubSeq(w, at + 1, room) \in Seq(T)
            /\ Len(SubSeq(w, at + 1, room)) = room - (at + 1) + 1
            /\ \A j \in 1 .. room - (at + 1) + 1 : SubSeq(w, at + 1, room)[j] = w[(at + 1) + j - 1]
        BY <4>1, <4>2, SubSeqProperties
      <4> QED BY <1>1, <4>3
    <3>2. /\ SubSeq(w, 1, at) \in Seq(T) /\ Len(SubSeq(w, 1, at)) = at
          /\ \A j \in 1 .. at : SubSeq(w, 1, at)[j] = w[j]
      <4>1. \A i \in 1 .. at : w[i] \in T
        BY <1>1, <1>2, <2>1, ElementOfSeq
      <4>2. 1 \in Int /\ at \in Int /\ 1 <= at
        BY <1>1, <2>4
      <4>3. /\ SubSeq(w, 1, at) \in Seq(T)
            /\ Len(SubSeq(w, 1, at)) = at - 1 + 1
            /\ \A j \in 1 .. at - 1 + 1 : SubSeq(w, 1, at)[j] = w[1 + j - 1]
        BY <4>1, <4>2, SubSeqProperties
      <4> QED BY <1>1, <4>3
    <3>3. /\ turned \in Seq(T) /\ Len(turned) = room
          /\ \A j \in 1 .. room : turned[j] = IF j <= room - at THEN w[at + j]
                                              ELSE w[j - (room - at)]
      <4> DEFINE a == SubSeq(w, at + 1, room)
                 b == SubSeq(w, 1, at)
      <4>1. /\ a \in Seq(T) /\ b \in Seq(T) /\ Len(a) = room - at /\ Len(b) = at
            /\ \A j \in 1 .. room - at : a[j] = w[at + j]
            /\ \A j \in 1 .. at : b[j] = w[j]
        BY <3>1, <3>2
      <4> HIDE DEF a, b
      <4>2. /\ a \o b \in Seq(T) /\ Len(a \o b) = Len(a) + Len(b)
            /\ \A j \in 1 .. Len(a) + Len(b) :
                  (a \o b)[j] = IF j <= Len(a) THEN a[j] ELSE b[j - Len(a)]
        BY <4>1, ConcatProperties
      <4>3. Len(a) + Len(b) = room
        BY <1>1, <4>1
      <4>4. /\ a \o b \in Seq(T) /\ Len(a \o b) = room
            /\ \A j \in 1 .. room : (a \o b)[j] = IF j <= room - at THEN a[j] ELSE b[j - (room - at)]
        BY <4>1, <4>2, <4>3
      <4>5. ASSUME NEW j \in 1 .. room
            PROVE  (a \o b)[j] = IF j <= room - at THEN w[at + j] ELSE w[j - (room - at)]
        <5>1. CASE j <= room - at
          <6>1. j \in 1 .. room - at
            BY <1>1, <5>1
          <6> QED BY <4>1, <4>4, <5>1, <6>1
        <5>2. CASE ~(j <= room - at)
          <6>1. j - (room - at) \in 1 .. at
            BY <1>1, <5>2
          <6> QED BY <4>1, <4>4, <5>2, <6>1
        <5> QED BY <5>1, <5>2
      <4> QED BY <4>4, <4>5 DEF a, b
    <3> HIDE DEF turned, ending
    <3>4. \A j \in 1 .. n : turned[j] = ending[j]
      <4> SUFFICES ASSUME NEW j \in 1 .. n PROVE turned[j] = ending[j]
        OBVIOUS
      <4>1. CASE at + j <= room
        <5>1. j <= room - at
          BY <1>1, <4>1
        <5> QED BY <2>1, <2>2, <3>3, <4>1, <5>1
      <4>2. CASE at + j > room
        <5>1. j - (room - at) = at + j - room
          BY <1>1
        <5> QED BY <1>1, <2>1, <2>2, <3>3, <4>2, <5>1
      <4> QED BY <1>1, <4>1, <4>2
    <3>5. Kept(s, room) = turned
      BY <1>1, <1>6, <1>8, <2>4
    <3> QED BY <1>4, <2>1, <3>3, <3>4, <3>5, SeqEqual DEF ending, L, n
  <2> QED BY <2>3, <2>4
<1> QED BY <1>1, <1>7, <1>8
-----------------------------------------------------------------------------
(* What the warm start leaves, and the types of the rings.                  *)

Rising(s) == \A i, j \in 1 .. Len(s) : i < j => s[i] < s[j]

RingsOK ==
    /\ sec \in Ring(Seconds, SampleNumbers) /\ five \in Ring(FiveMinutes, SampleNumbers)
    /\ minute \in Ring(Minutes, MinuteNumbers) /\ hour \in Ring(Hours, MinuteNumbers)
    /\ global \in [at : 0 .. Seconds, full : BOOLEAN]

CountersOK ==
    /\ sinceMinute \in 0 .. Seconds /\ sampled \in BOOLEAN /\ inHour \in 0 .. HourLen - 1
    /\ nextSample \in 0 .. SampleNumbers - 1 /\ nextMinute \in 0 .. MinuteNumbers - 1

StepsOK ==
    /\ stage \in {"boot", "warming", "warm", "run"}
    /\ step \in Fetched \cup {"week", "end"} /\ tries \in 0 .. 3
    /\ skip \subseteq {"minute", "five"} /\ ok \subseteq {"minute", "five", "half", "two"}
    /\ mode \in {"disabled", "full", "partial", "failed"}
    /\ status \in {"live", "warming", "cold"}
    /\ warm \subseteq Frames /\ has \subseteq Frames

\* The arrays: what is kept is the end of what came in, and what was sorted rises.
ArraysOK ==
    /\ step \in Fetched => came \in Answers(Asked[step]) /\ kept = Kept(came, Room[step])
    /\ step \notin Fetched => came = <<>> /\ kept = <<>>
    /\ minutes \in Seq(Nat) /\ Len(minutes) <= Room["minute"]
    /\ days \in Seq(Nat) /\ Len(days) <= Room["days"] /\ Rising(days)
    /\ series \in Seq(Nat) /\ (step \notin {"weeks", "halves"} => Rising(series))

\* Each frame that is counted as warm is backed from its step on until the warm start
\* ends, and the outcome keeps what it was made of.
BackedOK ==
    /\ stage \in {"boot", "warming"} => mode = "disabled"
    /\ stage # "warming" \/ step = "minute" => ok = {}
    /\ "five" \in ok \ skip => five.full /\ Len(minutes) >= FiveNeeds
    /\ "half" \in ok => /\ step \in {"twos", "end"} /\ "half" \in warm
                        /\ Available(minute) >= Least(Len(minutes), Minutes)
    /\ "two" \in ok => step = "end" /\ "two" \in warm
    /\ FullIsBacked

WarmInv == RingsOK /\ CountersOK /\ StepsOK /\ ArraysOK /\ BackedOK

-----------------------------------------------------------------------------
(* Rings.                                                                   *)

LEMMA Sizes ==
    /\ Seconds \in Nat \ {0, 1} /\ FiveMinutes \in Nat \ {0, 1} /\ Minutes \in Nat \ {0, 1}
    /\ Hours \in Nat \ {0} /\ SampleNumbers \in Nat \ {0} /\ MinuteNumbers \in Nat \ {0}
BY WarmAssumption DEF SampleNumbers, MinuteNumbers

LEMMA RingSize ==
    ASSUME NEW size \in Nat, NEW r, DOMAIN r.num = 0 .. size - 1
    PROVE  Size(r) = size
BY FS_Interval DEF Size

\* An entry that is added leaves a ring, in which no less is available.
LEMMA PushOK ==
    ASSUME NEW size \in Nat \ {0}, NEW numbers \in Nat, NEW r \in Ring(size, numbers),
           NEW n \in 0 .. numbers - 1, NEW isLive \in BOOLEAN
    PROVE  LET p == Push(r, n, isLive)
           IN  /\ p \in Ring(size, numbers) /\ p.at \in 0 .. size - 1
               /\ Available(p) >= Available(r) /\ (r.full => p.full)
<1> DEFINE p == Push(r, n, isLive)
           slot == IF r.at >= size THEN 0 ELSE r.at
<1>1. /\ r.at \in 0 .. size /\ r.full \in BOOLEAN
      /\ r.num \in [0 .. size - 1 -> 0 .. numbers - 1] /\ r.live \in [0 .. size - 1 -> BOOLEAN]
  BY DEF Ring
<1>2. Size(r) = size
  BY <1>1, RingSize
<1>3. slot \in 0 .. size - 1 /\ (slot + 1) % size \in 0 .. size - 1
  BY <1>1
<1>4. p = [at |-> (slot + 1) % size, full |-> r.full \/ r.at >= size \/ slot + 1 = size,
           num |-> [r.num EXCEPT ![slot] = n], live |-> [r.live EXCEPT ![slot] = isLive]]
  BY <1>2 DEF Push
<1>5. /\ [r.num EXCEPT ![slot] = n] \in [0 .. size - 1 -> 0 .. numbers - 1]
      /\ [r.live EXCEPT ![slot] = isLive] \in [0 .. size - 1 -> BOOLEAN]
  BY <1>1, <1>3
<1>6. p \in Ring(size, numbers) /\ p.at \in 0 .. size - 1
  <2>1. (slot + 1) % size \in 0 .. size
    BY <1>3
  <2> HIDE DEF slot, p
  <2>2. (r.full \/ r.at >= size \/ slot + 1 = size) \in BOOLEAN
    BY <1>1
  <2> QED BY <1>3, <1>4, <1>5, <2>1, <2>2 DEF Ring
<1>7. Size(p) = size
  <2>1. DOMAIN p.num = 0 .. size - 1
    BY <1>4, <1>5
  <2> HIDE DEF p
  <2> QED BY <2>1, RingSize
<1>8. /\ p.at = (slot + 1) % size
      /\ p.full = (r.full \/ r.at >= size \/ slot + 1 = size)
  <2> HIDE DEF p, slot
  <2> QED BY <1>4
<1>9. Available(p) >= Available(r)
  <2>1. CASE p.full
    BY <1>1, <1>2, <1>7, <2>1 DEF Available
  <2>2. CASE ~p.full
    <3>1. ~r.full /\ r.at < size /\ slot + 1 # size /\ p.at = (slot + 1) % size
      <4> HIDE DEF p
      <4>1. ~(r.full \/ r.at >= size \/ slot + 1 = size)
        BY <1>8, <2>2, Zenon
      <4> QED BY <1>1, <1>8, <4>1
    <3>2. slot = r.at /\ slot + 1 \in 0 .. size - 1
      <4>1. slot = r.at
        BY <1>1, <3>1
      <4>2. slot + 1 # size /\ slot \in 0 .. size - 1
        BY <1>3, <3>1
      <4> HIDE DEF slot, p
      <4> QED BY <4>1, <4>2
    <3>3. p.at = r.at + 1
      BY <3>1, <3>2
    <3> HIDE DEF p
    <3> QED BY <1>1, <2>2, <3>1, <3>3 DEF Available
  <2> QED BY <2>1, <2>2
<1> HIDE DEF p
<1>10. r.full => p.full
  BY <1>8, Zenon
<1> QED BY <1>6, <1>9, <1>10 DEF p

LEMMA EmptyOK ==
    ASSUME NEW size \in Nat \ {0}, NEW numbers \in Nat \ {0}
    PROVE  Empty(size) \in Ring(size, numbers)
BY DEF Empty, Ring

LEMMA SeededOK ==
    ASSUME NEW size \in Nat \ {0}, NEW numbers \in Nat \ {0}, NEW count \in Nat,
           NEW at \in 0 .. size, NEW full \in BOOLEAN
    PROVE  Seeded(size, numbers, count, at, full) \in Ring(size, numbers)
<1>1. \A i \in 0 .. size - 1 : (i - count) % numbers \in 0 .. numbers - 1
  BY Divided
<1> QED BY <1>1 DEF Seeded, Ring

LEMMA SeededSize ==
    ASSUME NEW size \in Nat \ {0}, NEW numbers, NEW count, NEW at, NEW full
    PROVE  Size(Seeded(size, numbers, count, at, full)) = size
BY RingSize DEF Seeded

-----------------------------------------------------------------------------
(* Candles that are kept and sorted.                                        *)

\* No candle comes twice in an answer, and none is kept twice.
LEMMA KeptRuns ==
    ASSUME NEW limit \in Nat, NEW s \in Answers(limit), NEW room \in Nat \ {0}
    PROVE  LET t == Kept(s, room)
           IN  /\ t \in Candles(limit) /\ t \in Seq(Nat)
               /\ Len(t) <= room /\ Len(t) <= limit
               /\ t = SubSeq(s, Len(s) - Least(Len(s), room) + 1, Len(s))
               /\ \A i, j \in 1 .. Len(t) : i # j => t[i] # t[j]
<1> DEFINE t == Kept(s, room)
           L == Len(s)
           n == Least(L, room)
<1>1. /\ s \in Seq(Nat) /\ s \in Candles(limit) /\ L \in 0 .. limit
      /\ \A i \in 1 .. L : s[i] \in 1 .. limit
  BY CandlesAre DEF Answers
<1>2. n \in 0 .. L /\ n <= room
  BY <1>1 DEF Least
<1>3. t = SubSeq(s, L - n + 1, L)
  BY <1>1, KeptAreTheLast
<1> HIDE DEF t, n
<1>4. /\ t \in Seq(1 .. limit) /\ Len(t) = n /\ \A i \in 1 .. n : t[i] = s[L - n + i]
  <2>1. \A i \in L - n + 1 .. L : s[i] \in 1 .. limit
    BY <1>1, <1>2
  <2> HIDE DEF L
  <2>2. L - n + 1 \in Int /\ L \in Int
    BY <1>1, <1>2
  <2>3. /\ SubSeq(s, L - n + 1, L) \in Seq(1 .. limit)
        /\ Len(SubSeq(s, L - n + 1, L)) = IF L - n + 1 <= L THEN L - (L - n + 1) + 1 ELSE 0
        /\ \A i \in 1 .. L - (L - n + 1) + 1 : SubSeq(s, L - n + 1, L)[i] = s[(L - n + 1) + i - 1]
    BY <2>1, <2>2, SubSeqProperties
  <2> QED BY <1>1, <1>2, <1>3, <2>3
<1>5. t \in Candles(limit)
  <2>1. t \in [1 .. n -> 1 .. limit] /\ n \in 0 .. limit
    BY <1>1, <1>2, <1>4, LenProperties
  <2> QED BY <2>1 DEF Candles
<1>6. ASSUME NEW i \in 1 .. n, NEW j \in 1 .. n, i # j
      PROVE  t[i] # t[j]
  <2>1. L - n + i \in 1 .. L /\ L - n + j \in 1 .. L /\ L - n + i # L - n + j
    BY <1>1, <1>2, <1>6
  <2>2. \A k, m \in 1 .. L : k # m => s[k] # s[m]
    BY DEF Answers
  <2>3. t[i] = s[L - n + i] /\ t[j] = s[L - n + j]
    BY <1>4
  <2>4. s[L - n + i] # s[L - n + j]
    <3> HIDE DEF L
    <3> QED BY <2>1, <2>2
  <2> QED BY <2>3, <2>4
<1>7. t \in Seq(Nat)
  BY <1>5, CandlesAre
<1>8. Len(t) <= room /\ Len(t) <= limit
  BY <1>1, <1>2, <1>4
<1>9. \A i, j \in 1 .. Len(t) : i # j => t[i] # t[j]
  BY <1>4, <1>6
<1> QED BY <1>3, <1>5, <1>7, <1>8, <1>9 DEF t, n

\* The place of a number among those of a finite set: how many are smaller.
Rank(S, x) == Cardinality({y \in S : y < x})

\* Places keep the order, so that no two numbers have the same.
LEMMA RankRises ==
    ASSUME NEW S \in SUBSET Nat, IsFiniteSet(S), NEW x \in S, NEW y \in S, x < y
    PROVE  Rank(S, x) \in Nat /\ Rank(S, y) \in Nat /\ Rank(S, x) < Rank(S, y)
<1> DEFINE A == {z \in S : z < x}
           B == {z \in S : z < y}
<1>1. IsFiniteSet(A) /\ IsFiniteSet(B)
  BY FS_Subset
<1>2. Cardinality(A) \in Nat /\ Cardinality(B) \in Nat
  BY <1>1, FS_CardinalityType
<1>3. A \in SUBSET B /\ x \in B /\ x \notin A
  <2>1. x \in Nat /\ y \in Nat /\ \A z \in S : z \in Nat
    OBVIOUS
  <2>2. \A z \in S : z < x => z < y
    BY <2>1
  <2>3. ~(x < x)
    BY <2>1
  <2> QED BY <2>2, <2>3
<1>4. Cardinality(A) <= Cardinality(B) /\ (Cardinality(B) = Cardinality(A) => B = A)
  <2> HIDE DEF A, B
  <2> QED BY <1>1, <1>3, FS_Subset
<1>5. Cardinality(A) # Cardinality(B)
  <2> HIDE DEF A, B
  <2> QED BY <1>3, <1>4
<1>6. Cardinality(A) < Cardinality(B)
  <2> HIDE DEF A, B
  <2> QED BY <1>2, <1>4, <1>5
<1> QED BY <1>2, <1>6 DEF Rank

\* Every place from the first to the last is taken.
LEMMA RankTaken ==
    ASSUME NEW S \in SUBSET Nat, IsFiniteSet(S), NEW k \in 0 .. Cardinality(S) - 1
    PROVE  \E x \in S : Rank(S, x) = k
<1> DEFINE n == Cardinality(S)
           f == [x \in S |-> Rank(S, x)]
<1>1. n \in Nat
  BY FS_CardinalityType
<1>2. ASSUME NEW x \in S PROVE Rank(S, x) \in 0 .. n - 1
  <2> DEFINE A == {z \in S : z < x}
  <2>1. A \in SUBSET S /\ x \notin A
    <3>1. x \in Nat
      OBVIOUS
    <3> QED BY <3>1
  <2>2. IsFiniteSet(A) /\ Cardinality(A) <= n /\ (n = Cardinality(A) => S = A)
    <3> HIDE DEF A
    <3> QED BY <2>1, FS_Subset
  <2>3. Cardinality(A) \in Nat
    BY <2>2, FS_CardinalityType
  <2>4. Cardinality(A) # n
    <3> HIDE DEF A
    <3> QED BY <2>1, <2>2
  <2>5. Cardinality(A) \in 0 .. n - 1
    <3> HIDE DEF A, n
    <3> QED BY <1>1, <2>2, <2>3, <2>4
  <2> QED BY <2>5 DEF Rank
<1>3. ASSUME NEW x \in S, NEW y \in S, x # y PROVE Rank(S, x) # Rank(S, y)
  <2>1. x < y \/ y < x
    <3>1. x \in Nat /\ y \in Nat
      OBVIOUS
    <3> QED BY <1>3, <3>1
  <2>2. ASSUME NEW u \in S, NEW v \in S, u < v PROVE Rank(S, u) # Rank(S, v)
    BY <2>2, RankRises
  <2> QED BY <2>1, <2>2
<1>4. f \in Injection(S, 0 .. n - 1)
  BY <1>2, <1>3 DEF Injection, IsInjective
<1>5. IsFiniteSet(0 .. n - 1) /\ Cardinality(0 .. n - 1) = n
  <2> HIDE DEF n
  <2>1. 0 \in Int /\ n - 1 \in Int
    BY <1>1
  <2>2. IsFiniteSet(0 .. n - 1)
        /\ Cardinality(0 .. n - 1) = IF 0 > n - 1 THEN 0 ELSE (n - 1) - 0 + 1
    BY <2>1, FS_Interval
  <2> QED BY <1>1, <2>2
<1>6. f \in Surjection(S, 0 .. n - 1)
  <2> HIDE DEF f
  <2> QED BY <1>4, <1>5, FS_Injection
<1> QED BY <1>6 DEF Surjection

\* What holds nothing twice can be sorted.
LEMMA Sorted ==
    ASSUME NEW s \in Seq(Nat), \A i, j \in 1 .. Len(s) : i # j => s[i] # s[j]
    PROVE  ByTime(s) \in Seq(Nat) /\ Len(ByTime(s)) = Len(s) /\ Rising(ByTime(s))
<1> DEFINE L == Len(s)
           held == {s[i] : i \in 1 .. L}
           S == [1 .. L -> held]
<1>1. L \in Nat /\ s \in [1 .. L -> Nat] /\ DOMAIN s = 1 .. L
  BY LenProperties
<1>2. held \in SUBSET Nat
  BY <1>1
<1>3. IsFiniteSet(held) /\ Cardinality(held) = L
  <2>1. s \in Bijection(1 .. L, held)
    BY <1>1 DEF Bijection, Injection, Surjection, IsInjective
  <2>2. ExistsBijection(1 .. L, held)
    BY <2>1 DEF ExistsBijection
  <2>3. IsFiniteSet(1 .. L) /\ Cardinality(1 .. L) = L
    <3>1. 1 \in Int /\ L \in Int
      BY <1>1
    <3>2. IsFiniteSet(1 .. L) /\ Cardinality(1 .. L) = IF 1 > L THEN 0 ELSE L - 1 + 1
      BY <3>1, FS_Interval
    <3> QED BY <1>1, <3>2
  <2> QED BY <2>2, <2>3, FS_Bijection
<1>4. \E t \in S : \A i, j \in 1 .. L : i < j => t[i] < t[j]
  <2> DEFINE t == [i \in 1 .. L |-> CHOOSE x \in held : Rank(held, x) = i - 1]
  <2> HIDE DEF held
  <2>1. ASSUME NEW i \in 1 .. L PROVE t[i] \in held /\ Rank(held, t[i]) = i - 1
    <3>1. i - 1 \in 0 .. Cardinality(held) - 1
      BY <1>1, <1>3
    <3> QED BY <1>2, <1>3, <3>1, RankTaken
  <2>2. ASSUME NEW i \in 1 .. L, NEW j \in 1 .. L, i < j PROVE t[i] < t[j]
    <3>1. /\ t[i] \in held /\ Rank(held, t[i]) = i - 1
          /\ t[j] \in held /\ Rank(held, t[j]) = j - 1
      BY <2>1
    <3> HIDE DEF t
    <3>2. t[i] \in Nat /\ t[j] \in Nat
      BY <1>2, <3>1
    <3>3. Rank(held, t[i]) < Rank(held, t[j])
      BY <1>1, <2>2, <3>1
    <3>4. t[i] # t[j]
      <4>1. i - 1 # j - 1
        BY <1>1, <2>2
      <4> QED BY <3>1, <4>1
    <3>5. ~(t[j] < t[i])
      <4>1. ASSUME t[j] < t[i] PROVE FALSE
        <5>1. Rank(held, t[j]) < Rank(held, t[i])
          BY <1>2, <1>3, <3>1, <4>1, RankRises
        <5> QED BY <1>1, <3>1, <3>3, <5>1
      <4> QED BY <4>1
    <3> QED BY <3>2, <3>4, <3>5
  <2>3. t \in S
    BY <2>1
  <2> HIDE DEF t
  <2> QED BY <2>2, <2>3
<1>5. ByTime(s) \in S /\ \A i, j \in 1 .. L : i < j => ByTime(s)[i] < ByTime(s)[j]
  BY <1>4 DEF ByTime
<1>6. ByTime(s) \in [1 .. L -> Nat]
  BY <1>1, <1>5
<1>7. ByTime(s) \in Seq(Nat)
  BY <1>1, <1>6, SeqDef
<1>8. Len(ByTime(s)) = L
  BY <1>1, <1>6, <1>7, LenProperties
<1> QED BY <1>5, <1>7, <1>8 DEF Rising

-----------------------------------------------------------------------------
(* The warm start, step by step.                                            *)

LEMMA NoCandles ==
    ASSUME NEW f \in Fetched
    PROVE  <<>> \in Answers(Asked[f]) /\ Kept(<<>>, Room[f]) = <<>>
<1>1. Asked[f] \in Nat \ {0} /\ Room[f] \in Nat \ {0}
  BY WarmAssumption
<1>2. <<>> \in Seq(Nat) /\ Len(<<>>) = 0
  BY EmptySeq
<1>3. <<>> \in Answers(Asked[f])
  <2>1. <<>> \in [1 .. 0 -> 1 .. Asked[f]]
    OBVIOUS
  <2>2. <<>> \in Candles(Asked[f])
    BY <1>1, <2>1 DEF Candles
  <2> QED BY <1>2, <2>2 DEF Answers
<1>4. Kept(<<>>, Room[f]) = <<>>
  <2>1. Least(0, Room[f]) = 0
    BY <1>1 DEF Least
  <2>2. Kept(<<>>, Room[f]) = SubSeq(<<>>, Len(<<>>) - Least(Len(<<>>), Room[f]) + 1, Len(<<>>))
    BY <1>1, <1>2, KeptAreTheLast
  <2>3. Kept(<<>>, Room[f]) = SubSeq(<<>>, 1, 0)
    BY <1>2, <2>1, <2>2
  <2> QED BY <2>3, SubSeqEmpty
<1> QED BY <1>3, <1>4

\* What is in the array, when a step takes it.
LEMMA ArrayOK ==
    ASSUME ArraysOK, StepsOK, step \in Fetched
    PROVE  /\ kept \in Seq(Nat) /\ Len(kept) \in Nat /\ Len(kept) <= Room[step]
           /\ ByTime(kept) \in Seq(Nat) /\ Len(ByTime(kept)) = Len(kept) /\ Rising(ByTime(kept))
<1>1. Asked[step] \in Nat \ {0} /\ Room[step] \in Nat \ {0}
  BY WarmAssumption
<1>2. came \in Answers(Asked[step]) /\ kept = Kept(came, Room[step])
  BY DEF ArraysOK
<1>3. /\ kept \in Seq(Nat) /\ Len(kept) <= Room[step]
      /\ \A i, j \in 1 .. Len(kept) : i # j => kept[i] # kept[j]
  BY <1>1, <1>2, KeptRuns
<1>4. Len(kept) \in Nat
  BY <1>3, LenProperties
<1>5. ByTime(kept) \in Seq(Nat) /\ Len(ByTime(kept)) = Len(kept) /\ Rising(ByTime(kept))
  BY <1>3, Sorted
<1> QED BY <1>3, <1>4, <1>5

\* The next step begins with nothing fetched.
LEMMA GoOK ==
    ASSUME NEW CONSTANT f \in Fetched \cup {"week", "end"}, Go(f)
    PROVE  /\ step' = f /\ tries' = 0
           /\ step' \in Fetched => came' \in Answers(Asked[step']) /\ kept' = Kept(came', Room[step'])
           /\ step' \notin Fetched => came' = <<>> /\ kept' = <<>>
BY NoCandles DEF Go

\* What a step of the warm start does to the arrays, in short.
LEMMA SeriesOK ==
    ASSUME ArraysOK, StepsOK, step \in Fetched, NEW CONSTANT f \in Frames,
           Returns(f, ByTime(kept)) \/ (step = "hours" /\ NoReturn)
    PROVE  /\ series' \in Seq(Nat) /\ Rising(series')
           /\ warm' \subseteq Frames
           /\ \A g \in warm : g # f => g \in warm'
<1>1. CASE Returns(f, ByTime(kept))
  BY <1>1, ArrayOK DEF Returns, StepsOK
<1>2. CASE step = "hours" /\ NoReturn
  BY <1>2 DEF NoReturn, ArraysOK, StepsOK
<1> QED BY <1>1, <1>2

LEMMA WarmingStep ==
    ASSUME WarmInv, WarmNext, UNCHANGED <<sinceMinute, sampled, numberVars>>
    PROVE  WarmInv'
<1>0. RingsOK /\ CountersOK /\ StepsOK /\ ArraysOK /\ BackedOK
  BY DEF WarmInv
<1>c. CountersOK'
  BY <1>0 DEF CountersOK, numberVars
<1>r. ASSUME UNCHANGED ringVars PROVE RingsOK'
  BY <1>0, <1>r DEF RingsOK, ringVars
<1>1. CASE WarmStartNot
  <2>1. /\ stage = "boot" /\ stage' = "warm" /\ mode' \in {"disabled", "failed"}
        /\ status' \in {"live", "cold"} /\ UNCHANGED <<arrayVars, ringVars, warm, has>>
    BY <1>1 DEF WarmStartNot
  <2>2. StepsOK' /\ ArraysOK'
    BY <1>0, <2>1 DEF StepsOK, ArraysOK, arrayVars
  <2>3. BackedOK'
    BY <1>0, <2>1 DEF BackedOK, FullIsBacked, arrayVars
  <2> QED BY <1>c, <1>r, <2>1, <2>2, <2>3 DEF WarmInv
<1>2. CASE WarmStartBegins
  <2>1. /\ stage = "boot" /\ stage' = "warming" /\ mode' = mode
        /\ status' = "warming" /\ UNCHANGED <<arrayVars, ringVars, warm, has>>
    BY <1>2 DEF WarmStartBegins
  <2>2. StepsOK' /\ ArraysOK'
    BY <1>0, <2>1 DEF StepsOK, ArraysOK, arrayVars
  <2>3. BackedOK'
    BY <1>0, <2>1 DEF BackedOK, FullIsBacked, arrayVars
  <2> QED BY <1>c, <1>r, <2>1, <2>2, <2>3 DEF WarmInv
<1>3. CASE Fetch
  <2>1. /\ step \in Fetched /\ tries < MaxTries[step] /\ tries' = tries + 1
        /\ came' \in Answers(Asked[step]) /\ kept' = Kept(came', Room[step])
        /\ UNCHANGED <<stage, step, minutes, days, series, skip, ok, outcomeVars, ringVars,
                       warm, has>>
    BY <1>3 DEF Fetch, Fetching
  <2>2. tries' \in 0 .. 3
    <3>1. MaxTries[step] \in 1 .. 3
      BY <2>1 DEF MaxTries
    <3> QED BY <1>0, <2>1, <3>1 DEF StepsOK
  <2>3. StepsOK' /\ ArraysOK'
    BY <1>0, <2>1, <2>2 DEF StepsOK, ArraysOK, outcomeVars
  <2>4. BackedOK'
    BY <1>0, <2>1 DEF BackedOK, FullIsBacked, outcomeVars, ringVars
  <2> QED BY <1>c, <1>r, <2>1, <2>3, <2>4 DEF WarmInv
<1>4. CASE UseMinutes
  <2> DEFINE n == Len(kept)
             isFive == "five" \notin skip /\ n >= FiveNeeds
  <2>1. /\ stage = "warming" /\ step = "minute" /\ Go("weeks") /\ minutes' = kept
        /\ series' = kept
        /\ UNCHANGED <<stage, days, skip, outcomeVars, minute, hour, warm, has>>
    BY <1>4 DEF UseMinutes, Done
  <2>2. /\ global' = IF n > 0 THEN [at |-> n, full |-> n = Seconds] ELSE global
        /\ sec' = IF n = 0 THEN sec
                  ELSE IF isFive THEN Seeded(Seconds, SampleNumbers, n, n, n = Seconds)
                  ELSE Seeded(Seconds, SampleNumbers, n, 0, FALSE)
        /\ five' = IF isFive
                   THEN Seeded(FiveMinutes, SampleNumbers, FiveMinutes, 0, TRUE) ELSE five
        /\ ok' = ok \cup (IF n > 0 THEN {"minute"} ELSE skip \cap {"minute"})
                    \cup (IF isFive THEN {"five"} ELSE skip \cap {"five"})
    BY <1>4 DEF UseMinutes
  <2>3. kept \in Seq(Nat) /\ n \in 0 .. Seconds
    <3>1. step \in Fetched /\ Room[step] = Seconds
      BY <2>1, WarmAssumption DEF Fetched
    <3> QED BY <1>0, <3>1, ArrayOK, Sizes
  <2>4. RingsOK'
    <3>1. Seeded(Seconds, SampleNumbers, n, n, n = Seconds) \in Ring(Seconds, SampleNumbers)
      <4>1. n \in Nat /\ n \in 0 .. Seconds /\ (n = Seconds) \in BOOLEAN
        BY <2>3, Sizes
      <4> HIDE DEF n
      <4> QED BY <4>1, SeededOK, Sizes
    <3>2. Seeded(Seconds, SampleNumbers, n, 0, FALSE) \in Ring(Seconds, SampleNumbers)
      <4>1. n \in Nat /\ 0 \in 0 .. Seconds /\ FALSE \in BOOLEAN
        BY <2>3, Sizes
      <4> HIDE DEF n
      <4> QED BY <4>1, SeededOK, Sizes
    <3>3. Seeded(FiveMinutes, SampleNumbers, FiveMinutes, 0, TRUE) \in Ring(FiveMinutes, SampleNumbers)
      <4>1. FiveMinutes \in Nat /\ 0 \in 0 .. FiveMinutes /\ TRUE \in BOOLEAN
        BY Sizes
      <4> QED BY <4>1, SeededOK, Sizes
    <3>4. global' \in [at : 0 .. Seconds, full : BOOLEAN]
      <4> HIDE DEF n
      <4> QED BY <1>0, <2>2, <2>3 DEF RingsOK
    <3> HIDE DEF isFive, n
    <3> QED BY <1>0, <2>1, <2>2, <3>1, <3>2, <3>3, <3>4 DEF RingsOK
  <2>5. /\ step' = "weeks" /\ tries' = 0
        /\ step' \in Fetched /\ came' \in Answers(Asked[step']) /\ kept' = Kept(came', Room[step'])
    BY <2>1, GoOK DEF Fetched
  <2>6. StepsOK'
    <3> HIDE DEF n, isFive
    <3> QED BY <1>0, <2>1, <2>2, <2>5 DEF StepsOK, outcomeVars, Fetched
  <2>7. ArraysOK'
    <3>1. Room["minute"] = Seconds
      BY WarmAssumption
    <3> QED BY <1>0, <2>1, <2>3, <2>5, <3>1 DEF ArraysOK
  <2>8. BackedOK'
    <3>1. ok = {} /\ mode = "disabled" /\ mode' = mode /\ stage' = "warming" /\ skip' = skip
      BY <1>0, <2>1 DEF BackedOK, outcomeVars
    <3>2. "five" \in ok' \ skip => isFive
      <4> HIDE DEF n, isFive
      <4> QED BY <2>2, <3>1
    <3>3. isFive => five'.full /\ Len(minutes') >= FiveNeeds
      BY <2>1, <2>2 DEF Seeded
    <3>4. "half" \notin ok' /\ "two" \notin ok'
      <4> HIDE DEF n, isFive
      <4> QED BY <2>2, <3>1
    <3> HIDE DEF isFive, n
    <3> QED BY <2>5, <3>1, <3>2, <3>3, <3>4 DEF BackedOK, FullIsBacked
  <2> QED BY <1>c, <2>4, <2>6, <2>7, <2>8 DEF WarmInv
<1>5. CASE UseWeeks
  <2>1. /\ stage = "warming" /\ step = "weeks" /\ Go("days") /\ Returns("week", ByTime(kept))
        /\ UNCHANGED <<stage, minutes, days, skip, ok, outcomeVars, ringVars, has>>
    BY <1>5 DEF UseWeeks, Done
  <2>2. /\ step' = "days" /\ tries' = 0
        /\ step' \in Fetched /\ came' \in Answers(Asked[step']) /\ kept' = Kept(came', Room[step'])
    BY <2>1, GoOK DEF Fetched
  <2>3. /\ series' \in Seq(Nat) /\ Rising(series') /\ warm' \subseteq Frames
        /\ \A g \in warm : g # "week" => g \in warm'
    BY <1>0, <2>1, SeriesOK DEF Fetched, Frames
  <2>4. StepsOK' /\ ArraysOK'
    BY <1>0, <2>1, <2>2, <2>3 DEF StepsOK, ArraysOK, outcomeVars
  <2>5. BackedOK'
    BY <1>0, <2>1, <2>2, <2>3 DEF BackedOK, FullIsBacked, outcomeVars, ringVars
  <2> QED BY <1>c, <1>r, <2>1, <2>4, <2>5 DEF WarmInv
<1>6. CASE UseDays
  <2>1. /\ stage = "warming" /\ step = "days" /\ Go("hours") /\ days' = ByTime(kept)
        /\ Returns("day", ByTime(kept))
        /\ UNCHANGED <<stage, minutes, skip, ok, outcomeVars, ringVars, has>>
    BY <1>6 DEF UseDays, Done
  <2>2. /\ step' = "hours" /\ tries' = 0
        /\ step' \in Fetched /\ came' \in Answers(Asked[step']) /\ kept' = Kept(came', Room[step'])
    BY <2>1, GoOK DEF Fetched
  <2>3. /\ series' \in Seq(Nat) /\ Rising(series') /\ warm' \subseteq Frames
        /\ \A g \in warm : g # "day" => g \in warm'
    BY <1>0, <2>1, SeriesOK DEF Fetched, Frames
  <2>4. days' \in Seq(Nat) /\ Len(days') <= Room["days"] /\ Rising(days')
    BY <1>0, <2>1, ArrayOK DEF Fetched
  <2>5. StepsOK' /\ ArraysOK'
    BY <1>0, <2>1, <2>2, <2>3, <2>4 DEF StepsOK, ArraysOK, outcomeVars
  <2>6. BackedOK'
    BY <1>0, <2>1, <2>2, <2>3 DEF BackedOK, FullIsBacked, outcomeVars, ringVars
  <2> QED BY <1>c, <1>r, <2>1, <2>5, <2>6 DEF WarmInv
<1>7. CASE UseHours
  <2>1. /\ stage = "warming" /\ step = "hours" /\ Go("week")
        /\ Returns("day", ByTime(kept)) \/ NoReturn
        /\ UNCHANGED <<stage, minutes, days, skip, ok, outcomeVars, ringVars, has>>
    BY <1>7 DEF UseHours, Done
  <2>2. step' = "week" /\ tries' = 0 /\ step' \notin Fetched /\ came' = <<>> /\ kept' = <<>>
    BY <2>1, GoOK DEF Fetched
  <2>3. /\ series' \in Seq(Nat) /\ Rising(series') /\ warm' \subseteq Frames
        /\ \A g \in warm : g # "day" => g \in warm'
    BY <1>0, <2>1, SeriesOK DEF Fetched, Frames
  <2>4. StepsOK' /\ ArraysOK'
    BY <1>0, <2>1, <2>2, <2>3 DEF StepsOK, ArraysOK, outcomeVars
  <2>5. BackedOK'
    BY <1>0, <2>1, <2>2, <2>3 DEF BackedOK, FullIsBacked, outcomeVars, ringVars
  <2> QED BY <1>c, <1>r, <2>1, <2>4, <2>5 DEF WarmInv
<1>8. CASE UseWeekOfDays
  <2> DEFINE L == Len(days)
             tail == SubSeq(days, L - WeekNeeds + 1, L)
  <2>1. /\ stage = "warming" /\ step = "week" /\ Go("fours")
        /\ (L >= WeekNeeds /\ Returns("week", tail)) \/ NoReturn
        /\ UNCHANGED <<stage, minutes, days, skip, ok, outcomeVars, ringVars, has>>
    BY <1>8 DEF UseWeekOfDays
  <2>2. /\ step' = "fours" /\ tries' = 0
        /\ step' \in Fetched /\ came' \in Answers(Asked[step']) /\ kept' = Kept(came', Room[step'])
    BY <2>1, GoOK DEF Fetched
  <2>3. ASSUME L >= WeekNeeds PROVE tail \in Seq(Nat) /\ Rising(tail)
    <3>1. days \in Seq(Nat) /\ L \in Nat /\ Rising(days) /\ WeekNeeds \in Nat \ {0}
      <4>1. Room["days"] \in Nat
        BY WarmAssumption DEF Fetched
      <4> QED BY <1>0, <4>1, LenProperties, WarmAssumption DEF ArraysOK
    <3>2. \A i \in L - WeekNeeds + 1 .. L : days[i] \in Nat
      BY <2>3, <3>1, ElementOfSeq
    <3>3. \A i, j \in 1 .. L : i < j => days[i] < days[j]
      BY <3>1 DEF Rising
    <3> HIDE DEF L
    <3>4. L - WeekNeeds + 1 \in Int /\ L \in Int /\ L - WeekNeeds + 1 <= L
      BY <3>1
    <3>5. /\ tail \in Seq(Nat) /\ Len(tail) = L - (L - WeekNeeds + 1) + 1
          /\ \A i \in 1 .. L - (L - WeekNeeds + 1) + 1 : tail[i] = days[(L - WeekNeeds + 1) + i - 1]
      BY <3>2, <3>4, SubSeqProperties
    <3>6. Len(tail) = WeekNeeds /\ \A i \in 1 .. WeekNeeds : tail[i] = days[L - WeekNeeds + i]
      BY <3>1, <3>5
    <3> HIDE DEF tail
    <3>7. ASSUME NEW i \in 1 .. WeekNeeds, NEW j \in 1 .. WeekNeeds, i < j PROVE tail[i] < tail[j]
      <4>1. L - WeekNeeds + i \in 1 .. L /\ L - WeekNeeds + j \in 1 .. L
            /\ L - WeekNeeds + i < L - WeekNeeds + j
        BY <2>3, <3>1, <3>7
      <4> QED BY <3>3, <3>6, <4>1
    <3> QED BY <3>5, <3>6, <3>7 DEF Rising
  <2> HIDE DEF L, tail
  <2>4. /\ series' \in Seq(Nat) /\ Rising(series') /\ warm' \subseteq Frames
        /\ \A g \in warm : g # "week" => g \in warm'
    <3>1. CASE L >= WeekNeeds /\ Returns("week", tail)
      BY <1>0, <2>3, <3>1 DEF Returns, StepsOK, Frames
    <3>2. CASE NoReturn
      BY <1>0, <2>1, <3>2 DEF NoReturn, StepsOK, ArraysOK
    <3> QED BY <2>1, <3>1, <3>2
  <2>5. StepsOK' /\ ArraysOK'
    BY <1>0, <2>1, <2>2, <2>4 DEF StepsOK, ArraysOK, outcomeVars
  <2>6. BackedOK'
    BY <1>0, <2>1, <2>2, <2>4 DEF BackedOK, FullIsBacked, outcomeVars, ringVars
  <2> QED BY <1>c, <1>r, <2>1, <2>5, <2>6 DEF WarmInv
<1>9. CASE UseFours
  <2>1. /\ stage = "warming" /\ step = "fours" /\ Go("halves") /\ Returns("four", kept)
        /\ UNCHANGED <<stage, minutes, days, skip, ok, outcomeVars, ringVars, has>>
    BY <1>9 DEF UseFours, Done
  <2>2. /\ step' = "halves" /\ tries' = 0
        /\ step' \in Fetched /\ came' \in Answers(Asked[step']) /\ kept' = Kept(came', Room[step'])
    BY <2>1, GoOK DEF Fetched
  <2>3. kept \in Seq(Nat)
    BY <1>0, <2>1, ArrayOK DEF Fetched
  <2>4. /\ series' \in Seq(Nat) /\ warm' \subseteq Frames
        /\ \A g \in warm : g # "four" => g \in warm'
    BY <1>0, <2>1, <2>3 DEF Returns, StepsOK, Frames
  <2>5. StepsOK' /\ ArraysOK'
    BY <1>0, <2>1, <2>2, <2>4 DEF StepsOK, ArraysOK, outcomeVars
  <2>6. BackedOK'
    BY <1>0, <2>1, <2>2, <2>4 DEF BackedOK, FullIsBacked, outcomeVars, ringVars
  <2> QED BY <1>c, <1>r, <2>1, <2>5, <2>6 DEF WarmInv
<1>10. CASE UseHalves
  <2> DEFINE m == Least(Len(minutes), Minutes)
             seeded == Seeded(Minutes, MinuteNumbers, m, m, m = Minutes)
  <2>1. /\ stage = "warming" /\ step = "halves" /\ Go("twos") /\ Returns("half", ByTime(kept))
        /\ IF Len(kept) >= 2 THEN ok' = ok \cup {"half"} /\ minute' = seeded
           ELSE UNCHANGED <<ok, minute>>
        /\ UNCHANGED <<stage, minutes, days, skip, outcomeVars, sec, five, hour, global, has>>
    BY <1>10 DEF UseHalves, Done
  <2>2. /\ step' = "twos" /\ tries' = 0
        /\ step' \in Fetched /\ came' \in Answers(Asked[step']) /\ kept' = Kept(came', Room[step'])
    BY <2>1, GoOK DEF Fetched
  <2>3. /\ series' \in Seq(Nat) /\ Rising(series') /\ warm' \subseteq Frames
        /\ \A g \in warm : g # "half" => g \in warm'
    BY <1>0, <2>1, SeriesOK DEF Fetched, Frames
  <2>4. Len(kept) >= 2 => "half" \in warm'
    <3>1. Len(ByTime(kept)) = Len(kept)
      BY <1>0, <2>1, ArrayOK DEF Fetched
    <3> QED BY <2>1, <3>1 DEF Returns
  <2>5. m \in 0 .. Minutes
    <3>1. Len(minutes) \in Nat
      BY <1>0, LenProperties DEF ArraysOK
    <3> QED BY <3>1, Sizes DEF Least
  <2>6. seeded \in Ring(Minutes, MinuteNumbers) /\ Available(seeded) = m
    <3> HIDE DEF m
    <3>1. m \in Nat /\ (m = Minutes) \in BOOLEAN
      BY <2>5
    <3>2. seeded \in Ring(Minutes, MinuteNumbers)
      BY <2>5, <3>1, SeededOK, Sizes
    <3>3. seeded.at = m /\ seeded.full = (m = Minutes)
      BY DEF Seeded
    <3>4. Size(seeded) = Minutes
      BY SeededSize, Sizes
    <3> HIDE DEF seeded
    <3>5. CASE m = Minutes
      <4>1. seeded.full
        BY <3>3, <3>5, Zenon
      <4> QED BY <3>2, <3>4, <3>5, <4>1 DEF Available
    <3>6. CASE m # Minutes
      <4>1. ~seeded.full
        BY <3>3, <3>6, Zenon
      <4> QED BY <3>2, <3>3, <3>6, <4>1 DEF Available
    <3> QED BY <3>2, <3>5, <3>6
  <2> HIDE DEF seeded
  <2>7. RingsOK'
    BY <1>0, <2>1, <2>6 DEF RingsOK
  <2>8. StepsOK'
    <3>1. ok' \subseteq {"minute", "five", "half", "two"}
      BY <1>0, <2>1 DEF StepsOK
    <3> QED BY <1>0, <2>1, <2>2, <2>3, <3>1 DEF StepsOK, outcomeVars, Fetched
  <2>9. ArraysOK'
    BY <1>0, <2>1, <2>2, <2>3 DEF ArraysOK
  <2>10. BackedOK'
    <3>1. "half" \notin ok /\ "two" \notin ok /\ mode' = "disabled" /\ stage' = "warming"
      BY <1>0, <2>1 DEF BackedOK, outcomeVars
    <3>2. "half" \in ok' => Len(kept) >= 2
      BY <2>1, <3>1
    <3>3. "half" \in ok' => "half" \in warm' /\ Available(minute') >= m
      BY <2>1, <2>4, <2>5, <2>6, <3>2, Sizes
    <3>4. "two" \notin ok' /\ ("five" \in ok' <=> "five" \in ok)
      BY <2>1, <3>1
    <3> QED BY <1>0, <2>1, <2>2, <3>1, <3>3, <3>4 DEF BackedOK, FullIsBacked
  <2> QED BY <1>c, <2>7, <2>8, <2>9, <2>10 DEF WarmInv
<1>11. CASE UseTwos
  <2>1. /\ stage = "warming" /\ step = "twos" /\ Go("end") /\ Returns("two", ByTime(kept))
        /\ ok' = IF Len(kept) >= 2 THEN ok \cup {"two"} ELSE ok
        /\ UNCHANGED <<stage, minutes, days, skip, outcomeVars, ringVars, has>>
    BY <1>11 DEF UseTwos, Done
  <2>2. step' = "end" /\ tries' = 0 /\ step' \notin Fetched /\ came' = <<>> /\ kept' = <<>>
    BY <2>1, GoOK DEF Fetched
  <2>3. /\ series' \in Seq(Nat) /\ Rising(series') /\ warm' \subseteq Frames
        /\ \A g \in warm : g # "two" => g \in warm'
    BY <1>0, <2>1, SeriesOK DEF Fetched, Frames
  <2>4. Len(kept) >= 2 => "two" \in warm'
    <3>1. Len(ByTime(kept)) = Len(kept)
      BY <1>0, <2>1, ArrayOK DEF Fetched
    <3> QED BY <2>1, <3>1 DEF Returns
  <2>5. StepsOK' /\ ArraysOK'
    BY <1>0, <2>1, <2>2, <2>3 DEF StepsOK, ArraysOK, outcomeVars
  <2>6. BackedOK'
    BY <1>0, <2>1, <2>2, <2>3, <2>4 DEF BackedOK, FullIsBacked, outcomeVars, ringVars
  <2> QED BY <1>c, <1>r, <2>1, <2>5, <2>6 DEF WarmInv
<1>12. CASE WarmStartEnds
  <2>1. /\ stage = "warming" /\ step = "end" /\ stage' = "warm" /\ mode' = Outcome
        /\ status' \in {"cold", "warming"}
        /\ has' \in {warm \ {"half", "two"}, warm}
        /\ step' = "minute" /\ minutes' = <<>> /\ days' = <<>> /\ series' = <<>> /\ ok' = {}
        /\ UNCHANGED <<tries, came, kept, skip, ringVars, warm>>
    BY <1>12 DEF WarmStartEnds
  <2>2. mode' \in {"full", "partial", "failed"}
    BY <2>1 DEF Outcome
  <2>3. StepsOK'
    BY <1>0, <2>1, <2>2 DEF StepsOK, Fetched
  <2>4. ArraysOK'
    <3>1. came = <<>> /\ kept = <<>>
      BY <1>0, <2>1 DEF ArraysOK, Fetched
    <3>2. <<>> \in Answers(Asked["minute"]) /\ Kept(<<>>, Room["minute"]) = <<>>
      BY NoCandles DEF Fetched
    <3>3. <<>> \in Seq(Nat) /\ Len(<<>>) = 0 /\ Rising(<<>>)
      BY EmptySeq DEF Rising
    <3>4. Room["minute"] \in Nat /\ Room["days"] \in Nat /\ "minute" \in Fetched
      BY WarmAssumption DEF Fetched
    <3> QED BY <2>1, <3>1, <3>2, <3>3, <3>4 DEF ArraysOK
  <2>5. ASSUME mode' = "full"
        PROVE  {"half", "two"} \subseteq warm /\ (skip = {} => five.full /\ Available(minute) >= FiveNeeds)
    <3>1. {"minute", "five", "half", "two"} \subseteq ok
      BY <2>1, <2>5 DEF Outcome
    <3>2. "half" \in warm /\ "two" \in warm /\ Available(minute) >= Least(Len(minutes), Minutes)
      BY <1>0, <3>1 DEF BackedOK
    <3>3. skip = {} => five.full /\ Len(minutes) >= FiveNeeds
      BY <1>0, <3>1 DEF BackedOK
    <3>4. Len(minutes) \in Nat /\ Available(minute) \in Int
      <4>1. minute.at \in Int /\ DOMAIN minute.num = 0 .. Minutes - 1
        BY <1>0 DEF RingsOK, Ring
      <4>2. Size(minute) = Minutes
        BY <4>1, RingSize, Sizes
      <4> QED BY <1>0, <4>1, <4>2, LenProperties, Sizes DEF ArraysOK, Available
    <3>5. FiveNeeds \in Nat /\ FiveNeeds <= Minutes
      BY WarmAssumption
    <3> QED BY <3>2, <3>3, <3>4, <3>5, Sizes DEF Least
  <2>6. BackedOK'
    BY <2>1, <2>5 DEF BackedOK, FullIsBacked, ringVars
  <2> QED BY <1>c, <1>r, <2>1, <2>3, <2>4, <2>6 DEF WarmInv
<1> QED BY <1>1, <1>2, <1>3, <1>4, <1>5, <1>6, <1>7, <1>8, <1>9, <1>10, <1>11, <1>12 DEF WarmNext

\* What fetchPrice does to the rings.
LEMMA MinuteRings ==
    ASSUME RingsOK, CountersOK, StepsOK, FetchStore
    PROVE  /\ minute' \in Ring(Minutes, MinuteNumbers) /\ hour' \in Ring(Hours, MinuteNumbers)
           /\ Available(minute') >= Available(minute)
           /\ CountersOK' /\ status' \in {"live", "warming", "cold"}
<1>1. /\ minute \in Ring(Minutes, MinuteNumbers) /\ hour \in Ring(Hours, MinuteNumbers)
      /\ nextMinute \in 0 .. MinuteNumbers - 1 /\ inHour \in 0 .. HourLen - 1
      /\ HourLen \in Nat \ {0}
  BY PathAssumption, Sizes DEF RingsOK, CountersOK
<1>2. Available(minute) \in Int
  <2>1. minute.at \in Int /\ DOMAIN minute.num = 0 .. Minutes - 1
    BY <1>1 DEF Ring
  <2>2. Size(minute) = Minutes
    BY <2>1, RingSize, Sizes
  <2> QED BY <2>1, <2>2, Sizes DEF Available
<1>3. UNCHANGED <<sampled, nextSample>> /\ sinceMinute' \in {0, sinceMinute}
  BY DEF FetchStore
<1>4. CASE UNCHANGED <<minute, hour, nextMinute, inHour, status>>
  <2>1. minute' = minute /\ hour' = hour /\ nextMinute' = nextMinute /\ inHour' = inHour
        /\ status' = status
    BY <1>4
  <2> QED BY <1>1, <1>2, <1>3, <2>1, Sizes DEF CountersOK, StepsOK
<1>5. CASE ~UNCHANGED <<minute, hour, nextMinute, inHour, status>>
  <2>1. /\ minute' = Push(minute, nextMinute, TRUE)
        /\ nextMinute' = (nextMinute + 1) % MinuteNumbers
        /\ UpdateHour /\ status' = StatusAfter(sec, minute')
    BY <1>5 DEF FetchStore, UpdateMinute
  <2>2. /\ minute' \in Ring(Minutes, MinuteNumbers) /\ Available(minute') >= Available(minute)
    <3>1. Minutes \in Nat \ {0} /\ MinuteNumbers \in Nat /\ TRUE \in BOOLEAN
      BY Sizes
    <3> QED BY <1>1, <2>1, <3>1, PushOK
  <2>3. nextMinute' \in 0 .. MinuteNumbers - 1
    <3>1. nextMinute + 1 \in Int
      BY <1>1
    <3> QED BY <2>1, <3>1, Divided, Sizes
  <2>4. inHour' \in 0 .. HourLen - 1
    <3>1. inHour' = IF inHour + 1 < HourLen THEN inHour + 1 ELSE 0
      BY <2>1 DEF UpdateHour
    <3> QED BY <1>1, <3>1
  <2>5. hour' \in Ring(Hours, MinuteNumbers)
    <3>1. \A b \in BOOLEAN : Push(hour, nextMinute, b) \in Ring(Hours, MinuteNumbers)
      <4>1. Hours \in Nat \ {0} /\ MinuteNumbers \in Nat
        BY Sizes
      <4> QED BY <1>1, <4>1, PushOK
    <3>2. hour' = hour \/ hour' = Push(hour, nextMinute, LiveShare(minute', HourLen) >= LivePct)
      BY <2>1 DEF UpdateHour
    <3>3. (LiveShare(minute', HourLen) >= LivePct) \in BOOLEAN
      OBVIOUS
    <3> QED BY <1>1, <3>1, <3>2, <3>3
  <2>6. status' \in {"live", "warming", "cold"}
    BY <2>1 DEF StatusAfter, StepsOK
  <2>7. CountersOK'
    BY <1>3, <2>3, <2>4, Sizes DEF CountersOK
  <2> QED BY <2>2, <2>5, <2>6, <2>7
<1> QED BY <1>4, <1>5

LEMMA WarmStep == WarmInv /\ [Next]_vars => WarmInv'
<1> SUFFICES ASSUME WarmInv, [Next]_vars PROVE WarmInv'
  OBVIOUS
<1>0. RingsOK /\ CountersOK /\ StepsOK /\ ArraysOK /\ BackedOK
  BY DEF WarmInv
<1>s. ASSUME UNCHANGED warmVars, CountersOK' PROVE WarmInv'
  <2>1. RingsOK' /\ StepsOK'
    BY <1>0, <1>s DEF RingsOK, StepsOK, warmVars, arrayVars, outcomeVars, ringVars
  <2>2. ArraysOK'
    BY <1>0, <1>s DEF ArraysOK, warmVars, arrayVars
  <2>3. BackedOK'
    BY <1>0, <1>s DEF BackedOK, FullIsBacked, warmVars, arrayVars, outcomeVars, ringVars
  <2> QED BY <1>s, <2>1, <2>2, <2>3 DEF WarmInv
<1>c. ASSUME UNCHANGED <<sinceMinute, sampled, numberVars>> PROVE CountersOK'
  BY <1>0, <1>c DEF CountersOK, numberVars
<1>1. CASE Warming
  BY <1>1, WarmingStep DEF Warming
<1>2. CASE StartTasks
  <2>1. /\ stage = "warm" /\ stage' = "run"
        /\ UNCHANGED <<sinceMinute, sampled, numberVars, arrayVars, outcomeVars, ringVars, warm,
                       has>>
    BY <1>2 DEF StartTasks
  <2>2. RingsOK' /\ StepsOK' /\ ArraysOK'
    BY <1>0, <2>1 DEF RingsOK, StepsOK, ArraysOK, arrayVars, outcomeVars, ringVars
  <2>3. BackedOK'
    BY <1>0, <2>1 DEF BackedOK, FullIsBacked, arrayVars, outcomeVars, ringVars
  <2> QED BY <1>c, <2>1, <2>2, <2>3 DEF WarmInv
<1>3. CASE SecondPasses
  <2>1. /\ sinceMinute' = Least(Seconds, sinceMinute + 1) /\ sampled' = FALSE
        /\ UNCHANGED <<numberVars, warmVars>>
    BY <1>3 DEF SecondPasses
  <2>2. CountersOK'
    <3>1. Seconds \in Nat /\ sinceMinute \in 0 .. Seconds
      BY <1>0, Sizes DEF CountersOK
    <3>2. sinceMinute' \in 0 .. Seconds
      BY <2>1, <3>1 DEF Least
    <3> QED BY <1>0, <2>1, <3>2 DEF CountersOK, numberVars
  <2> QED BY <1>s, <2>1, <2>2
<1>4. CASE \/ Trade \/ CandleComes \/ Connects \/ Stale \/ ProcessPrice \/ ProcessOther
           \/ StoreKnown \/ FetchBegin \/ FetchAnswer \/ FetchRefused \/ FetchRead
           \/ FetchGivesUp
  <2>1. UNCHANGED <<sinceMinute, sampled, numberVars, warmVars>>
    BY <1>4 DEF Trade, CandleComes, Connects, Stale, ProcessPrice, ProcessOther, StoreKnown,
                FetchBegin, FetchAnswer, FetchRefused, FetchRead, FetchGivesUp
  <2> QED BY <1>c, <1>s, <2>1
<1>5. CASE Sample
  <2>1. /\ stage = "run" /\ sampled' \in BOOLEAN
        /\ UNCHANGED <<sinceMinute, nextMinute, inHour, stage, arrayVars, outcomeVars, minute,
                       hour, warm, has>>
        /\ \/ /\ sec' = Push(sec, nextSample, TRUE) /\ five' = Push(five, nextSample, TRUE)
              /\ global' = [at |-> sec'.at, full |-> sec'.full]
              /\ nextSample' = (nextSample + 1) % SampleNumbers
           \/ UNCHANGED <<sec, five, global, nextSample>>
    BY <1>5 DEF Sample
  <2>2. CASE UNCHANGED <<sec, five, global, nextSample>>
    <3>1. UNCHANGED warmVars
      BY <2>1, <2>2 DEF warmVars, ringVars
    <3>2. CountersOK'
      BY <1>0, <2>1, <2>2 DEF CountersOK
    <3> QED BY <1>s, <3>1, <3>2
  <2>3. CASE /\ sec' = Push(sec, nextSample, TRUE) /\ five' = Push(five, nextSample, TRUE)
             /\ global' = [at |-> sec'.at, full |-> sec'.full]
             /\ nextSample' = (nextSample + 1) % SampleNumbers
    <3>0. /\ Seconds \in Nat \ {0} /\ FiveMinutes \in Nat \ {0} /\ SampleNumbers \in Nat
          /\ TRUE \in BOOLEAN /\ nextSample \in 0 .. SampleNumbers - 1
          /\ sec \in Ring(Seconds, SampleNumbers) /\ five \in Ring(FiveMinutes, SampleNumbers)
      BY <1>0, Sizes DEF RingsOK, CountersOK
    <3>1. sec' \in Ring(Seconds, SampleNumbers)
      BY <2>3, <3>0, PushOK
    <3>2. five' \in Ring(FiveMinutes, SampleNumbers) /\ (five.full => five'.full)
      BY <2>3, <3>0, PushOK
    <3>3. global' \in [at : 0 .. Seconds, full : BOOLEAN]
      BY <2>3, <3>1 DEF Ring
    <3>4. RingsOK'
      BY <1>0, <2>1, <3>1, <3>2, <3>3 DEF RingsOK
    <3>5. nextSample' \in 0 .. SampleNumbers - 1
      <4>1. nextSample + 1 \in Int
        BY <3>0
      <4> QED BY <2>3, <4>1, Divided, Sizes
    <3>6. CountersOK'
      BY <1>0, <2>1, <3>5 DEF CountersOK
    <3>7. StepsOK' /\ ArraysOK'
      BY <1>0, <2>1 DEF StepsOK, ArraysOK, arrayVars, outcomeVars
    <3>8. BackedOK'
      BY <1>0, <2>1, <3>2 DEF BackedOK, FullIsBacked, arrayVars, outcomeVars
    <3> QED BY <3>4, <3>6, <3>7, <3>8 DEF WarmInv
  <2> QED BY <2>1, <2>2, <2>3
<1>6. CASE FetchStore
  <2>1. /\ UNCHANGED <<stage, arrayVars, mode, sec, five, global, warm>>
        /\ has' = warm \cup LiveFrames(minute', hour')
    BY <1>6 DEF FetchStore
  <2>2. /\ minute' \in Ring(Minutes, MinuteNumbers) /\ hour' \in Ring(Hours, MinuteNumbers)
        /\ Available(minute') >= Available(minute)
        /\ CountersOK' /\ status' \in {"live", "warming", "cold"}
    BY <1>0, <1>6, MinuteRings
  <2>3. RingsOK' /\ ArraysOK'
    BY <1>0, <2>1, <2>2 DEF RingsOK, ArraysOK, arrayVars
  <2>4. has' \subseteq Frames
    BY <1>0, <2>1 DEF LiveFrames, Frames, StepsOK
  <2>5. StepsOK'
    BY <1>0, <2>1, <2>2, <2>4 DEF StepsOK, arrayVars
  <2>6. \A x \in Int : Available(minute) >= x => Available(minute') >= x
    <3>1. Available(minute) \in Int /\ Available(minute') \in Int
      <4>1. \A r \in Ring(Minutes, MinuteNumbers) : Available(r) \in Int
        <5> SUFFICES ASSUME NEW r \in Ring(Minutes, MinuteNumbers) PROVE Available(r) \in Int
          OBVIOUS
        <5>1. r.at \in Int /\ DOMAIN r.num = 0 .. Minutes - 1
          BY DEF Ring
        <5>2. Size(r) = Minutes
          BY <5>1, RingSize, Sizes
        <5> QED BY <5>1, <5>2, Sizes DEF Available
      <4> QED BY <1>0, <2>2, <4>1 DEF RingsOK
    <3> QED BY <2>2, <3>1
  <2>7. Least(Len(minutes), Minutes) \in Int /\ FiveNeeds \in Int
    BY <1>0, LenProperties, Sizes, WarmAssumption DEF ArraysOK, Least
  <2>8. BackedOK'
    BY <1>0, <2>1, <2>6, <2>7 DEF BackedOK, FullIsBacked, arrayVars
  <2> QED BY <2>2, <2>3, <2>5, <2>8 DEF WarmInv
<1>7. CASE UNCHANGED vars
  <2>1. UNCHANGED <<sinceMinute, sampled, numberVars, warmVars>>
    BY <1>7 DEF vars
  <2> QED BY <1>c, <1>s, <2>1
<1> QED BY <1>1, <1>2, <1>3, <1>4, <1>5, <1>6, <1>7 DEF Next

\* The invariant of the warm start holds in every reachable state.
LEMMA WarmInvariance == Spec => []WarmInv
<1>1. ASSUME Init PROVE WarmInv
  <2>1. /\ stage = "boot" /\ NoArrays /\ skip \in SUBSET {"minute", "five"}
        /\ mode = "disabled" /\ status = "live"
        /\ sec = Empty(Seconds) /\ five = Empty(FiveMinutes)
        /\ minute = Empty(Minutes) /\ hour = Empty(Hours)
        /\ global = [at |-> 0, full |-> FALSE] /\ warm = {} /\ has = {}
    BY <1>1 DEF Init, WarmInit
  <2>2. RingsOK
    BY <2>1, EmptyOK, Sizes DEF RingsOK
  <2>3. CountersOK
    <3>1. /\ sinceMinute = Seconds /\ sampled = FALSE /\ inHour = 0
          /\ nextSample = 0 /\ nextMinute = 0
      BY <1>1 DEF Init
    <3>2. HourLen \in Nat \ {0}
      BY PathAssumption, Sizes
    <3>3. /\ Seconds \in 0 .. Seconds /\ FALSE \in BOOLEAN /\ 0 \in 0 .. HourLen - 1
          /\ 0 \in 0 .. SampleNumbers - 1 /\ 0 \in 0 .. MinuteNumbers - 1
      BY <3>2, Sizes
    <3> QED BY <3>1, <3>3 DEF CountersOK
  <2>4. StepsOK
    BY <2>1 DEF NoArrays, StepsOK, Fetched
  <2>5. ArraysOK
    <3>1. <<>> \in Answers(Asked["minute"]) /\ Kept(<<>>, Room["minute"]) = <<>>
      BY NoCandles DEF Fetched
    <3>2. <<>> \in Seq(Nat) /\ Len(<<>>) = 0 /\ Rising(<<>>)
      BY EmptySeq DEF Rising
    <3>3. Room["minute"] \in Nat /\ Room["days"] \in Nat /\ "minute" \in Fetched
      BY WarmAssumption DEF Fetched
    <3> QED BY <2>1, <3>1, <3>2, <3>3 DEF NoArrays, ArraysOK
  <2>6. BackedOK
    BY <2>1 DEF NoArrays, BackedOK, FullIsBacked
  <2> QED BY <2>2, <2>3, <2>4, <2>5, <2>6 DEF WarmInv
<1> QED BY <1>1, WarmStep, PTL DEF Spec

\* If the exchange sends the oldest candle first, the array keeps the last candles of an
\* answer in the order they came in, and every series runs forward in time.
THEOREM CandlesStayInOrder == Spec => []CandlesInOrder
<1>1. ASSUME WarmInv PROVE CandlesInOrder
  <2>1. ArraysOK
    BY <1>1 DEF WarmInv
  <2>2. ASSUME step \notin {"weeks", "halves"} PROVE Forward(series)
    <3>1. series \in Seq(Nat) /\ Rising(series)
      BY <2>1, <2>2 DEF ArraysOK
    <3>2. Len(series) \in Nat
      BY <3>1, LenProperties
    <3> QED BY <3>1, <3>2 DEF Rising, Forward
  <2>3. ASSUME step \in Fetched
        PROVE  kept = SubSeq(came, Len(came) - Least(Len(came), Room[step]) + 1, Len(came))
    <3>1. Asked[step] \in Nat \ {0} /\ Room[step] \in Nat \ {0}
      BY <2>3, WarmAssumption
    <3>2. came \in Seq(Nat) /\ kept = Kept(came, Room[step])
      BY <2>1, <2>3, <3>1, CandlesAre DEF ArraysOK, Answers
    <3> QED BY <3>1, <3>2, KeptAreTheLast
  <2> QED BY <2>2, <2>3 DEF CandlesInOrder
<1>2. WarmInv => CandlesInOrder
  BY <1>1
<1> QED BY <1>2, WarmInvariance, PTL

\* A warm start that counts as full is backed by both returns, the ring of five minutes
\* and the ring of minutes, whatever the exchange answers and however it orders candles.
THEOREM FullStaysBacked == Spec => []FullIsBacked
<1>1. WarmInv => FullIsBacked
  BY DEF WarmInv, BackedOK
<1> QED BY <1>1, WarmInvariance, PTL
-----------------------------------------------------------------------------
(* The order in the rings.                                                  *)

\* From the last entry back, a ring holds the numbers up to the newest, so far apart; and
\* while it is not full, there is room behind the last one.
HoldsRun(r, size, newest, apart, numbers) ==
    /\ r.full \/ r.at < size
    /\ \A i \in 1 .. Available(r) :
          r.num[(r.at - i) % size] = (newest - apart * (i - 1)) % numbers

\* The rings hold what was sampled, minute by minute and hour by hour; and nothing is
\* counted before the tasks run, so that what the warm start put down is numbered -1 and
\* back from there.
RunsOK ==
    /\ HoldsRun(sec, Seconds, nextSample - 1, 1, SampleNumbers)
    /\ HoldsRun(five, FiveMinutes, nextSample - 1, 1, SampleNumbers)
    /\ HoldsRun(minute, Minutes, nextMinute - 1, 1, MinuteNumbers)
    /\ HoldsRun(hour, Hours, NewestHour, HourLen, MinuteNumbers)
    /\ Available(hour) > 0 => Available(minute) >= HourLen
    /\ stage # "run" => /\ nextSample = 0 /\ nextMinute = 0 /\ inHour = 0
                        /\ Available(hour) = 0
    /\ stage = "boot" => Available(sec) = 0
    /\ stage \notin {"boot", "run"} => fetch = "idle"

\* A number and the number a whole ring further have the same remainder.
LEMMA OneRound ==
    ASSUME NEW b \in Nat \ {0}, NEW x \in Int
    PROVE  (x + b) % b = x % b /\ (x - b) % b = x % b
<1>1. PICK q \in Int : x = q * b + (x % b)
  BY Divided
<1>2. x % b \in 0 .. b - 1
  BY Divided
<1> DEFINE r == x % b
<1> HIDE DEF r
<1>3. r \in 0 .. b - 1 /\ x = q * b + r
  BY <1>1, <1>2 DEF r
<1>4. x + b = (q + 1) * b + r /\ x - b = (q - 1) * b + r
  BY <1>3
<1>5. q + 1 \in Int /\ q - 1 \in Int
  OBVIOUS
<1>6. ((q + 1) * b + r) % b = r /\ ((q - 1) * b + r) % b = r
  BY <1>3, <1>5, Remainder
<1>7. (x + b) % b = r /\ (x - b) % b = r
  BY <1>4, <1>6
<1> QED BY <1>7 DEF r

LEMMA Inside ==
    ASSUME NEW b \in Nat \ {0}, NEW x \in 0 .. b - 1
    PROVE  x % b = x
OBVIOUS

\* What is known of a ring.
LEMMA RingIs ==
    ASSUME NEW size \in Nat \ {0}, NEW numbers \in Nat, NEW r \in Ring(size, numbers)
    PROVE  /\ r.at \in 0 .. size /\ r.full \in BOOLEAN /\ Size(r) = size
           /\ r.num \in [0 .. size - 1 -> 0 .. numbers - 1]
           /\ Available(r) = (IF r.full THEN size ELSE r.at) /\ Available(r) \in 0 .. size
<1>1. /\ r.at \in 0 .. size /\ r.full \in BOOLEAN
      /\ r.num \in [0 .. size - 1 -> 0 .. numbers - 1]
  BY DEF Ring
<1>2. Size(r) = size
  BY <1>1, RingSize
<1> QED BY <1>1, <1>2 DEF Available

\* The numbers count only up to their remainder.
LEMMA RunRenamed ==
    ASSUME NEW size \in Nat \ {0}, NEW numbers \in Nat \ {0}, NEW r \in Ring(size, numbers),
           NEW apart \in Int, NEW m \in Int, NEW n \in Int, m % numbers = n % numbers,
           HoldsRun(r, size, m, apart, numbers)
    PROVE  HoldsRun(r, size, n, apart, numbers)
<1>1. ASSUME NEW i \in 1 .. Available(r)
      PROVE  (m - apart * (i - 1)) % numbers = (n - apart * (i - 1)) % numbers
  <2>1. i \in Int
    BY RingIs
  <2>2. PICK y \in Int : y = -(apart * (i - 1))
    BY <2>1
  <2>3. (m + y) % numbers = (n + y) % numbers
    <3>1. ((m % numbers) + y) % numbers = (m + y) % numbers
      BY ReducedFirst
    <3>2. ((n % numbers) + y) % numbers = (n + y) % numbers
      BY ReducedFirst
    <3> QED BY <3>1, <3>2
  <2>4. PICK z \in Int : z = apart * (i - 1)
    BY <2>1
  <2>5. m - z = m + y /\ n - z = n + y
    BY <2>2, <2>4
  <2>6. (m - z) % numbers = (n - z) % numbers
    BY <2>3, <2>5
  <2> QED BY <2>4, <2>6
<1> QED BY <1>1 DEF HoldsRun

\* An entry with the next number goes behind the last one.
LEMMA PushRun ==
    ASSUME NEW size \in Nat \ {0}, NEW numbers \in Nat \ {0}, NEW r \in Ring(size, numbers),
           NEW apart \in Int, NEW m \in Int, NEW n \in 0 .. numbers - 1, NEW isLive \in BOOLEAN,
           n = (m + apart) % numbers, HoldsRun(r, size, m, apart, numbers)
    PROVE  /\ HoldsRun(Push(r, n, isLive), size, m + apart, apart, numbers)
           /\ Available(Push(r, n, isLive)) > 0
<1> DEFINE p == Push(r, n, isLive)
           slot == IF r.at >= size THEN 0 ELSE r.at
<1>1. /\ r.at \in 0 .. size /\ r.full \in BOOLEAN /\ Size(r) = size
      /\ r.num \in [0 .. size - 1 -> 0 .. numbers - 1]
      /\ Available(r) = (IF r.full THEN size ELSE r.at)
  BY RingIs
<1>2. slot \in 0 .. size - 1 /\ slot % size = r.at % size
  <2>1. CASE r.at = size
    <3>1. (0 + size) % size = 0 % size
      BY OneRound
    <3> QED BY <2>1, <3>1
  <2>2. CASE r.at < size
    BY <1>1, <2>2
  <2> QED BY <1>1, <2>1, <2>2
<1>3. /\ p.at = (slot + 1) % size /\ p.num = [r.num EXCEPT ![slot] = n]
      /\ p.full = (r.full \/ r.at >= size \/ slot + 1 = size)
  <2> HIDE DEF slot
  <2>1. p = [at |-> (slot + 1) % size, full |-> r.full \/ r.at >= size \/ slot + 1 = size,
             num |-> [r.num EXCEPT ![slot] = n], live |-> [r.live EXCEPT ![slot] = isLive]]
    BY <1>1 DEF Push, slot
  <2> HIDE DEF p
  <2> QED BY <2>1
<1>4. p \in Ring(size, numbers) /\ p.at \in 0 .. size - 1
  BY PushOK
<1> HIDE DEF p
<1>5. /\ p.full \in BOOLEAN /\ Available(p) = (IF p.full THEN size ELSE p.at)
      /\ Available(p) \in 0 .. size
  BY <1>4, RingIs
<1>6. ~p.full => ~r.full /\ slot = r.at /\ p.at = r.at + 1
  <2> SUFFICES ASSUME ~p.full PROVE ~r.full /\ slot = r.at /\ p.at = r.at + 1
    OBVIOUS
  <2>1. ~(r.full \/ r.at >= size \/ slot + 1 = size)
    BY <1>3, Zenon
  <2>2. ~r.full /\ r.at < size /\ slot = r.at /\ slot + 1 < size
    BY <1>1, <1>2, <2>1
  <2>3. (slot + 1) % size = slot + 1
    BY <1>2, <2>2, Inside
  <2> QED BY <1>3, <2>2, <2>3
<1> HIDE DEF slot
<1>7. Available(p) >= 1 /\ Available(p) - 1 <= Available(r)
  <2>1. CASE p.full
    <3>1. r.full \/ r.at >= size \/ slot + 1 = size
      BY <1>3, <2>1, Zenon
    <3>2. CASE r.full
      BY <1>1, <1>5, <2>1, <3>2
    <3>3. CASE r.at >= size
      BY <1>1, <1>5, <2>1, <3>3
    <3>4. CASE ~r.full /\ r.at < size /\ slot + 1 = size
      BY <1>1, <1>5, <2>1, <3>4 DEF slot
    <3> QED BY <1>1, <3>1, <3>2, <3>3, <3>4
  <2>2. CASE ~p.full
    BY <1>1, <1>5, <1>6, <2>2
  <2> QED BY <2>1, <2>2
<1>8. ASSUME NEW i \in 1 .. Available(p)
      PROVE  p.num[(p.at - i) % size] = ((m + apart) - apart * (i - 1)) % numbers
  <2>0. i \in Int /\ i >= 1 /\ i <= size /\ i - 1 <= Available(r)
    BY <1>1, <1>5, <1>7
  <2>1. (p.at - i) % size = (slot - (i - 1)) % size
    <3>1. (((slot + 1) % size) + (-i)) % size = ((slot + 1) + (-i)) % size
      <4>1. slot + 1 \in Int /\ -i \in Int
        BY <1>2, <2>0
      <4> QED BY <4>1, ReducedFirst
    <3>2. p.at - i = ((slot + 1) % size) + (-i) /\ slot - (i - 1) = (slot + 1) + (-i)
      BY <1>2, <1>3, <1>4, <2>0
    <3> QED BY <3>1, <3>2
  <2>2. CASE i = 1
    <3>1. (slot - (i - 1)) % size = slot
      BY <1>2, <2>2
    <3>2. p.num[slot] = n
      BY <1>1, <1>2, <1>3
    <3>3. (m + apart) - apart * (i - 1) = m + apart
      BY <2>2
    <3> QED BY <2>1, <3>1, <3>2, <3>3
  <2>3. CASE i > 1
    <3>1. (slot - (i - 1)) % size = (r.at - (i - 1)) % size
      <4>1. -(i - 1) \in Int /\ slot \in Int /\ r.at \in Int
        BY <1>1, <1>2, <2>0
      <4>2. ((slot % size) + (-(i - 1))) % size = (slot + (-(i - 1))) % size
        BY <4>1, ReducedFirst
      <4>3. ((r.at % size) + (-(i - 1))) % size = (r.at + (-(i - 1))) % size
        BY <4>1, ReducedFirst
      <4>4. slot + (-(i - 1)) = slot - (i - 1) /\ r.at + (-(i - 1)) = r.at - (i - 1)
        BY <4>1, <2>0
      <4> QED BY <1>2, <4>2, <4>3, <4>4
    <3>2. (slot - (i - 1)) % size # slot
      <4>1. slot - (i - 1) \in Int /\ slot \in Int /\ slot % size = slot
        BY <1>2, <2>0
      <4>2. slot - (slot - (i - 1)) < size /\ (slot - (i - 1)) - slot < size
            /\ slot - (i - 1) # slot
        BY <1>2, <2>0, <2>3
      <4> QED BY <4>1, <4>2, SameRemainder
    <3>3. (slot - (i - 1)) % size \in 0 .. size - 1
      <4>1. slot - (i - 1) \in Int
        BY <1>2, <2>0
      <4> QED BY <4>1, Divided
    <3>4. p.num[(slot - (i - 1)) % size] = r.num[(slot - (i - 1)) % size]
      BY <1>1, <1>3, <3>2, <3>3
    <3>5. i - 1 \in 1 .. Available(r)
      BY <1>1, <2>0, <2>3
    <3>6. r.num[(r.at - (i - 1)) % size] = (m - apart * ((i - 1) - 1)) % numbers
      BY <3>5 DEF HoldsRun
    <3>7. m - apart * ((i - 1) - 1) = (m + apart) - apart * (i - 1)
      BY <2>0
    <3> QED BY <2>1, <3>1, <3>4, <3>6, <3>7
  <2> QED BY <2>0, <2>2, <2>3
<1>9. p.full \/ p.at < size
  BY <1>4
<1> QED BY <1>7, <1>5, <1>8, <1>9 DEF HoldsRun, p

\* What a reader gets that takes the last count slots, the oldest first.
LEMMA ReadsRun ==
    ASSUME NEW size \in Nat \ {0}, NEW numbers \in Nat \ {0}, NEW r \in Ring(size, numbers),
           NEW apart \in Int, NEW m \in Int, HoldsRun(r, size, m, apart, numbers),
           NEW count \in 0 .. Available(r), NEW slots, DOMAIN slots = 1 .. count,
           \A i \in 1 .. count : slots[i] = (r.at - (count - i + 1)) % size
    PROVE  /\ Newest(Of(r, slots), m, apart, numbers)
           /\ Len(Of(r, slots)) = count
<1> DEFINE s == Of(r, slots)
<1>1. /\ Available(r) \in 0 .. size /\ r.at \in 0 .. size
      /\ r.num \in [0 .. size - 1 -> 0 .. numbers - 1]
  BY RingIs
<1>2. count \in Nat
  BY <1>1
<1>3. ASSUME NEW i \in 1 .. count
      PROVE  s[i] = (m - apart * (count - i)) % numbers
  <2>1. count - i + 1 \in 1 .. Available(r) /\ (count - i + 1) - 1 = count - i
    BY <1>1, <1>2
  <2>2. s[i] = r.num[(r.at - (count - i + 1)) % size]
    BY DEF Of
  <2>3. r.num[(r.at - (count - i + 1)) % size] = (m - apart * ((count - i + 1) - 1)) % numbers
    BY <2>1 DEF HoldsRun
  <2> QED BY <2>1, <2>2, <2>3
<1>4. Len(s) = count
  <2>1. s \in [1 .. count -> {s[i] : i \in 1 .. count}]
    BY DEF Of
  <2> HIDE DEF s
  <2>2. s \in Seq({s[i] : i \in 1 .. count})
    BY <1>2, <2>1, SeqDef
  <2> QED BY <1>2, <2>1, <2>2, LenProperties
<1> HIDE DEF s
<1>5. Newest(s, m, apart, numbers)
  BY <1>3, <1>4 DEF Newest
<1> QED BY <1>4, <1>5 DEF s

\* A reader that takes nothing.
LEMMA ReadsNothing ==
    ASSUME NEW r, NEW m, NEW apart, NEW numbers
    PROVE  Newest(Of(r, <<>>), m, apart, numbers) /\ Of(r, <<>>) = <<>>
<1>1. DOMAIN <<>> = {}
  OBVIOUS
<1>2. Of(r, <<>>) = <<>>
  BY <1>1 DEF Of
<1>3. Len(<<>>) = 0
  OBVIOUS
<1> QED BY <1>2, <1>3 DEF Newest

\* Where the last entry is.
LEMMA LastSlot ==
    ASSUME NEW size \in Nat \ {0}, NEW at \in 0 .. size, NEW x \in Int
    PROVE  (LastWritten(at, size) - x) % size = (at - 1 - x) % size
<1>1. CASE at = 0
  <2>1. at - 1 - x \in Int /\ (at - 1 - x) + size = LastWritten(at, size) - x
    BY <1>1 DEF LastWritten
  <2> QED BY <2>1, OneRound
<1>2. CASE at # 0
  BY <1>2 DEF LastWritten
<1> QED BY <1>1, <1>2

LEMMA SecondsRead ==
    ASSUME NEW size \in Nat \ {0}, NEW numbers \in Nat \ {0}, NEW r \in Ring(size, numbers),
           NEW apart \in Int, NEW m \in Int, HoldsRun(r, size, m, apart, numbers)
    PROVE  Newest(Of(r, SecondSlots(r)), m, apart, numbers)
<1> DEFINE count == Available(r)
           slots == SecondSlots(r)
           start == (LastWritten(r.at, size) + size - (count - 1)) % size
<1>1. /\ r.at \in 0 .. size /\ r.full \in BOOLEAN /\ Size(r) = size
      /\ count = (IF r.full THEN size ELSE r.at) /\ count \in 0 .. size
  BY RingIs
<1>2. slots = [i \in 1 .. count |-> IF r.full THEN (start + i - 1) % size ELSE i - 1]
  BY <1>1 DEF SecondSlots
<1> HIDE DEF slots
<1>3. ASSUME NEW i \in 1 .. count PROVE slots[i] = (r.at - (count - i + 1)) % size
  <2>1. CASE r.full
    <3>1. count = size
      BY <1>1, <2>1
    <3>2. start = r.at % size
      <4>1. LastWritten(r.at, size) - (-1) = LastWritten(r.at, size) + size - (count - 1)
        BY <1>1, <3>1 DEF LastWritten
      <4>2. r.at - 1 - (-1) = r.at
        BY <1>1
      <4>3. -1 \in Int
        OBVIOUS
      <4> QED BY <1>1, <4>1, <4>2, <4>3, LastSlot
    <3>3. (start + (i - 1)) % size = (r.at + (i - 1)) % size
      <4>1. i - 1 \in Int /\ r.at \in Int
        BY <1>1
      <4> HIDE DEF start
      <4> QED BY <3>2, <4>1, ReducedFirst
    <3>4. (r.at + (i - 1)) % size = (r.at - (count - i + 1)) % size
      <4>1. r.at + (i - 1) \in Int /\ (r.at + (i - 1)) - size = r.at - (count - i + 1)
        BY <1>1, <3>1
      <4> QED BY <4>1, OneRound
    <3>5. start + i - 1 = start + (i - 1)
      <4>1. start \in Int
        <5>1. r.at \in Int
          BY <1>1
        <5>2. r.at % size \in 0 .. size - 1
          BY <5>1, Divided
        <5> HIDE DEF start
        <5> QED BY <3>2, <5>2
      <4> QED BY <1>1, <4>1
    <3> QED BY <1>2, <2>1, <3>3, <3>4, <3>5
  <2>2. CASE ~r.full
    <3>1. count = r.at /\ r.at < size
      BY <1>1, <2>2 DEF HoldsRun
    <3>2. r.at - (count - i + 1) = i - 1 /\ i - 1 \in 0 .. size - 1
      BY <1>1, <3>1
    <3>3. (i - 1) % size = i - 1
      BY <3>2, Inside
    <3> QED BY <1>2, <2>2, <3>2, <3>3
  <2> QED BY <2>1, <2>2
<1>4. DOMAIN slots = 1 .. count
  BY <1>2
<1> HIDE DEF count
<1>5. count \in 0 .. Available(r)
  BY <1>1 DEF count
<1> QED BY <1>3, <1>4, <1>5, ReadsRun DEF slots

LEMMA FiveMinutesRead ==
    ASSUME NEW size \in Nat \ {0}, NEW numbers \in Nat \ {0}, NEW r \in Ring(size, numbers),
           NEW apart \in Int, NEW m \in Int, HoldsRun(r, size, m, apart, numbers)
    PROVE  Newest(Of(r, FiveMinuteSlots(r)), m, apart, numbers)
<1> DEFINE count == Available(r)
           slots == FiveMinuteSlots(r)
<1>1. /\ r.at \in 0 .. size /\ r.full \in BOOLEAN /\ Size(r) = size
      /\ count = (IF r.full THEN size ELSE r.at) /\ count \in 0 .. size
  BY RingIs
<1>2. slots = [i \in 1 .. count |-> IF r.full THEN (r.at + i - 1) % size ELSE i - 1]
  BY <1>1 DEF FiveMinuteSlots
<1> HIDE DEF slots
<1>3. ASSUME NEW i \in 1 .. count PROVE slots[i] = (r.at - (count - i + 1)) % size
  <2>1. CASE r.full
    <3>1. r.at + i - 1 \in Int /\ (r.at + i - 1) - size = r.at - (count - i + 1)
      BY <1>1, <2>1
    <3> QED BY <1>2, <2>1, <3>1, OneRound
  <2>2. CASE ~r.full
    <3>1. count = r.at /\ r.at < size
      BY <1>1, <2>2 DEF HoldsRun
    <3>2. r.at - (count - i + 1) = i - 1 /\ i - 1 \in 0 .. size - 1
      BY <1>1, <3>1
    <3>3. (i - 1) % size = i - 1
      BY <3>2, Inside
    <3> QED BY <1>2, <2>2, <3>2, <3>3
  <2> QED BY <2>1, <2>2
<1>4. DOMAIN slots = 1 .. count
  BY <1>2
<1> HIDE DEF count
<1>5. count \in 0 .. Available(r)
  BY <1>1 DEF count
<1> QED BY <1>3, <1>4, <1>5, ReadsRun DEF slots

LEMMA HalfHourRead ==
    ASSUME NEW size \in Nat \ {0}, NEW numbers \in Nat \ {0}, NEW r \in Ring(size, numbers),
           NEW apart \in Int, NEW m \in Int, HoldsRun(r, size, m, apart, numbers),
           NEW window \in Nat \ {0}
    PROVE  Newest(Of(r, HalfHourSlots(r, window)), m, apart, numbers)
<1> DEFINE slots == HalfHourSlots(r, window)
<1>1. /\ r.at \in 0 .. size /\ r.full \in BOOLEAN /\ Size(r) = size
      /\ Available(r) = (IF r.full THEN size ELSE r.at) /\ Available(r) \in 0 .. size
  BY RingIs
<1>2. CASE Available(r) < window
  BY <1>2, ReadsNothing DEF HalfHourSlots
<1>3. CASE Available(r) >= window
  <2>1. slots = [i \in 1 .. window |->
                   IF r.full THEN (r.at - 1 - (window - i) + size) % size
                   ELSE r.at - 1 - (window - i)]
    BY <1>1, <1>3 DEF HalfHourSlots
  <2> HIDE DEF slots
  <2>2. ASSUME NEW i \in 1 .. window PROVE slots[i] = (r.at - (window - i + 1)) % size
    <3>1. CASE r.full
      <4>1. /\ r.at - (window - i + 1) \in Int
            /\ r.at - 1 - (window - i) + size = (r.at - (window - i + 1)) + size
        BY <1>1
      <4> QED BY <2>1, <3>1, <4>1, OneRound
    <3>2. CASE ~r.full
      <4>1. Available(r) = r.at /\ r.at < size
        BY <1>1, <3>2 DEF HoldsRun
      <4>2. /\ r.at - 1 - (window - i) = r.at - (window - i + 1)
            /\ r.at - (window - i + 1) \in 0 .. size - 1
        BY <1>1, <1>3, <4>1
      <4> QED BY <2>1, <3>2, <4>2, Inside
    <3> QED BY <3>1, <3>2
  <2>3. DOMAIN slots = 1 .. window
    BY <2>1
  <2>4. window \in 0 .. Available(r)
    BY <1>1, <1>3
  <2> QED BY <2>2, <2>3, <2>4, ReadsRun DEF slots
<1> QED BY <1>1, <1>2, <1>3

\* Both readers that count from the last written slot: the two hours, and the days.
LEMMA FromLastWritten ==
    ASSUME NEW size \in Nat \ {0}, NEW numbers \in Nat \ {0}, NEW r \in Ring(size, numbers),
           NEW apart \in Int, NEW m \in Int, HoldsRun(r, size, m, apart, numbers),
           NEW count \in 0 .. Available(r), NEW slots, DOMAIN slots = 1 .. count,
           \A i \in 1 .. count :
              slots[i] = IF r.full THEN IndexAgo(LastWritten(r.at, size), count - i, size)
                         ELSE r.at - (count - i + 1)
    PROVE  Newest(Of(r, slots), m, apart, numbers)
<1>1. /\ r.at \in 0 .. size /\ r.full \in BOOLEAN
      /\ Available(r) = (IF r.full THEN size ELSE r.at) /\ Available(r) \in 0 .. size
  BY RingIs
<1>2. ASSUME NEW i \in 1 .. count PROVE slots[i] = (r.at - (count - i + 1)) % size
  <2>1. CASE r.full
    <3>1. count - i \in Int /\ count - i < size
      BY <1>1
    <3>2. slots[i] = (LastWritten(r.at, size) - (count - i)) % size
      BY <2>1, <3>1 DEF IndexAgo
    <3>3. r.at - 1 - (count - i) = r.at - (count - i + 1)
      <4>1. r.at \in Int /\ count \in Int /\ i \in Int
        BY <1>1
      <4> QED BY <4>1
    <3>4. (LastWritten(r.at, size) - (count - i)) % size = (r.at - 1 - (count - i)) % size
      BY <1>1, <3>1, LastSlot
    <3> QED BY <3>2, <3>3, <3>4
  <2>2. CASE ~r.full
    <3>1. Available(r) = r.at /\ r.at < size
      BY <1>1, <2>2 DEF HoldsRun
    <3>2. r.at - (count - i + 1) \in 0 .. size - 1
      BY <1>1, <3>1
    <3> QED BY <2>2, <3>2, Inside
  <2> QED BY <2>1, <2>2
<1> QED BY <1>2, ReadsRun

LEMMA TwoHoursRead ==
    ASSUME NEW size \in Nat \ {0}, NEW numbers \in Nat \ {0}, NEW r \in Ring(size, numbers),
           NEW apart \in Int, NEW m \in Int, HoldsRun(r, size, m, apart, numbers), NEW least
    PROVE  Newest(Of(r, TwoHourSlots(r, least)), m, apart, numbers)
<1> DEFINE count == Available(r)
           slots == TwoHourSlots(r, least)
<1>1. /\ r.at \in 0 .. size /\ r.full \in BOOLEAN /\ Size(r) = size /\ count \in 0 .. size
  BY RingIs
<1>2. CASE count < least
  BY <1>2, ReadsNothing DEF TwoHourSlots
<1>3. CASE ~(count < least)
  <2>1. slots = [i \in 1 .. count |->
                   IF r.full THEN IndexAgo(LastWritten(r.at, size), count - i, size)
                   ELSE r.at - 1 - (count - i)]
    BY <1>1, <1>3 DEF TwoHourSlots
  <2> HIDE DEF slots, count
  <2>2. \A i \in 1 .. count : r.at - 1 - (count - i) = r.at - (count - i + 1)
    BY <1>1
  <2>3. DOMAIN slots = 1 .. count /\ count \in 0 .. Available(r)
    BY <1>1, <2>1 DEF count
  <2>4. \A i \in 1 .. count :
           slots[i] = IF r.full THEN IndexAgo(LastWritten(r.at, size), count - i, size)
                      ELSE r.at - (count - i + 1)
    BY <2>1, <2>2
  <2> QED BY <2>3, <2>4, FromLastWritten DEF slots
<1> QED BY <1>2, <1>3

LEMMA DaysRead ==
    ASSUME NEW size \in Nat \ {0}, NEW numbers \in Nat \ {0}, NEW r \in Ring(size, numbers),
           NEW apart \in Int, NEW m \in Int, HoldsRun(r, size, m, apart, numbers),
           NEW window \in Nat, NEW least
    PROVE  Newest(Of(r, DaysSlots(r, window, least)), m, apart, numbers)
<1> DEFINE count == Least(Available(r), window)
           slots == DaysSlots(r, window, least)
<1>1. /\ r.at \in 0 .. size /\ r.full \in BOOLEAN /\ Size(r) = size
      /\ Available(r) \in 0 .. size /\ count \in 0 .. Available(r)
  BY RingIs DEF Least
<1>2. CASE count < least
  BY <1>2, ReadsNothing DEF DaysSlots
<1>3. CASE ~(count < least)
  <2>1. slots = [i \in 1 .. count |->
                   IF r.full THEN IndexAgo(LastWritten(r.at, size), count - i, size)
                   ELSE r.at - count + i - 1]
    BY <1>1, <1>3 DEF DaysSlots
  <2> HIDE DEF slots, count
  <2>2. \A i \in 1 .. count : r.at - count + i - 1 = r.at - (count - i + 1)
    BY <1>1
  <2>3. DOMAIN slots = 1 .. count
    BY <2>1
  <2>4. \A i \in 1 .. count :
           slots[i] = IF r.full THEN IndexAgo(LastWritten(r.at, size), count - i, size)
                      ELSE r.at - (count - i + 1)
    BY <2>1, <2>2
  <2> QED BY <1>1, <2>3, <2>4, FromLastWritten DEF slots
<1> QED BY <1>2, <1>3

\* The pair of some hours ago and now.
LEMMA HoursBackRead ==
    ASSUME NEW size \in Nat \ {0}, NEW numbers \in Nat \ {0}, NEW r \in Ring(size, numbers),
           NEW apart \in Int, NEW m \in Int, HoldsRun(r, size, m, apart, numbers),
           NEW back \in Nat \ {0}
    PROVE  LET pair == Of(r, HoursBackSlots(r, back))
           IN  pair # <<>> =>
                 /\ pair[2] = m % numbers
                 /\ pair[1] = (m - apart * Least(back, Available(r) - 1)) % numbers
<1> DEFINE count == Available(r)
           ago == IF count > back THEN back ELSE count - 1
           latest == IF r.full THEN LastWritten(r.at, size) ELSE r.at - 1
           first == IF r.full THEN IndexAgo(latest, ago, size) ELSE latest - ago
           pair == Of(r, HoursBackSlots(r, back))
<1>1. /\ r.at \in 0 .. size /\ r.full \in BOOLEAN /\ Size(r) = size
      /\ count = (IF r.full THEN size ELSE r.at) /\ count \in 0 .. size
  BY RingIs
<1>2. CASE count < 2
  BY <1>2, ReadsNothing DEF HoursBackSlots
<1>3. CASE ~(count < 2)
  <2>1. HoursBackSlots(r, back) = <<first, latest>>
    BY <1>1, <1>3 DEF HoursBackSlots
  <2>2. ago \in 1 .. count - 1 /\ ago = Least(back, count - 1)
    BY <1>1, <1>3 DEF Least
  <2>3. latest = (r.at - 1) % size /\ first = (r.at - (ago + 1)) % size
    <3> HIDE DEF ago
    <3>1. CASE r.full
      <4>1. LastWritten(r.at, size) = (r.at - 1) % size
        <5>1. LastWritten(r.at, size) \in 0 .. size - 1
          BY <1>1 DEF LastWritten
        <5>2. (LastWritten(r.at, size) - 0) % size = (r.at - 1 - 0) % size
          <6>1. 0 \in Int
            OBVIOUS
          <6> QED BY <1>1, <6>1, LastSlot
        <5>3. LastWritten(r.at, size) - 0 = LastWritten(r.at, size) /\ r.at - 1 - 0 = r.at - 1
          BY <1>1, <5>1
        <5> QED BY <5>1, <5>2, <5>3, Inside
      <4>2. ago \in Int /\ ago < size /\ r.at - 1 - ago = r.at - (ago + 1)
        BY <1>1, <2>2
      <4>3. (LastWritten(r.at, size) - ago) % size = (r.at - 1 - ago) % size
        BY <1>1, <4>2, LastSlot
      <4> QED BY <3>1, <4>1, <4>2, <4>3 DEF IndexAgo
    <3>2. CASE ~r.full
      <4>1. count = r.at /\ r.at < size
        BY <1>1, <3>2 DEF HoldsRun
      <4>2. r.at - 1 \in 0 .. size - 1 /\ r.at - (ago + 1) \in 0 .. size - 1
            /\ r.at - 1 - ago = r.at - (ago + 1)
        BY <1>1, <1>3, <2>2, <4>1
      <4> QED BY <3>2, <4>2, Inside
    <3> QED BY <3>1, <3>2
  <2> HIDE DEF first, latest
  <2>4. pair[1] = r.num[first] /\ pair[2] = r.num[latest]
    BY <2>1 DEF Of
  <2> HIDE DEF pair, ago, count
  <2>5. 1 \in 1 .. count /\ ago + 1 \in 1 .. count
    BY <1>1, <1>3, <2>2
  <2>6. \A i \in 1 .. count : r.num[(r.at - i) % size] = (m - apart * (i - 1)) % numbers
    BY DEF HoldsRun, count
  <2>7. m - apart * (1 - 1) = m /\ m - apart * ((ago + 1) - 1) = m - apart * ago
    BY <1>1, <2>2
  <2>8. pair[2] = m % numbers /\ pair[1] = (m - apart * ago) % numbers
    BY <2>3, <2>4, <2>5, <2>6, <2>7
  <2> QED BY <2>2, <2>8 DEF pair, count
<1> QED BY <1>1, <1>2, <1>3

\* What the warm start puts into a ring is numbered from -1 back.
LEMMA SeededRun ==
    ASSUME NEW size \in Nat \ {0}, NEW numbers \in Nat \ {0}, NEW count \in 0 .. size
    PROVE  /\ HoldsRun(Seeded(size, numbers, count, count, count = size), size, -1, 1, numbers)
           /\ HoldsRun(Seeded(size, numbers, count, 0, FALSE), size, -1, 1, numbers)
           /\ HoldsRun(Seeded(size, numbers, size, 0, TRUE), size, -1, 1, numbers)
<1> DEFINE a == Seeded(size, numbers, count, count, count = size)
           b == Seeded(size, numbers, count, 0, FALSE)
           c == Seeded(size, numbers, size, 0, TRUE)
<1>1. /\ a.at = count /\ a.full = (count = size) /\ DOMAIN a.num = 0 .. size - 1
      /\ \A i \in 0 .. size - 1 : i < count => a.num[i] = (i - count) % numbers
  BY DEF Seeded
<1>2. b.at = 0 /\ b.full = FALSE
  BY DEF Seeded
<1>3. /\ c.at = 0 /\ c.full = TRUE /\ DOMAIN c.num = 0 .. size - 1
      /\ \A i \in 0 .. size - 1 : i < size => c.num[i] = (i - size) % numbers
  BY DEF Seeded
<1> HIDE DEF a, b, c
<1>4. Size(a) = size /\ Size(c) = size
  BY <1>1, <1>3, RingSize
<1>5. Available(a) = count /\ (a.full \/ a.at < size)
  <2>1. CASE count = size
    <3>1. a.full
      BY <1>1, <2>1, Zenon
    <3> QED BY <1>4, <2>1, <3>1 DEF Available
  <2>2. CASE count # size
    <3>1. ~a.full
      BY <1>1, <2>2, Zenon
    <3> QED BY <1>1, <2>2, <3>1 DEF Available
  <2> QED BY <2>1, <2>2
<1>6. HoldsRun(a, size, -1, 1, numbers)
  <2>1. ASSUME NEW i \in 1 .. count PROVE a.num[(a.at - i) % size] = ((-1) - 1 * (i - 1)) % numbers
    <3>1. a.at - i \in 0 .. size - 1 /\ a.at - i < count
      BY <1>1
    <3>2. (a.at - i) % size = a.at - i
      BY <3>1, Inside
    <3>3. (a.at - i) - count = (-1) - 1 * (i - 1)
      BY <1>1
    <3> QED BY <1>1, <3>1, <3>2, <3>3
  <2> QED BY <1>5, <2>1 DEF HoldsRun
<1>7. HoldsRun(b, size, -1, 1, numbers)
  <2>1. Available(b) = 0
    BY <1>2 DEF Available
  <2> QED BY <1>2, <2>1 DEF HoldsRun
<1>8. HoldsRun(c, size, -1, 1, numbers)
  <2>1. Available(c) = size
    BY <1>3, <1>4 DEF Available
  <2>2. ASSUME NEW i \in 1 .. size PROVE c.num[(c.at - i) % size] = ((-1) - 1 * (i - 1)) % numbers
    <3>1. c.at - i \in Int /\ (c.at - i) + size = size - i /\ size - i \in 0 .. size - 1
      BY <1>3
    <3>2. (c.at - i) % size = size - i
      BY <3>1, OneRound, Inside
    <3>3. (size - i) - size = (-1) - 1 * (i - 1)
      OBVIOUS
    <3> QED BY <1>3, <3>1, <3>2, <3>3
  <2> QED BY <1>3, <2>1, <2>2 DEF HoldsRun
<1> QED BY <1>6, <1>7, <1>8 DEF a, b, c

LEMMA RunsWarming ==
    ASSUME WarmInv, RunsOK, WarmNext, fetch = "idle",
           UNCHANGED <<fetch, sinceMinute, sampled, numberVars>>
    PROVE  RunsOK'
<1>0. RingsOK /\ ArraysOK /\ StepsOK
  BY DEF WarmInv
<1>1. /\ stage # "run" /\ stage' \in {"warming", "warm"} /\ hour' = hour
      /\ (sec' = sec /\ five' = five) \/ UseMinutes
      /\ minute' = minute \/ UseHalves
  BY DEF WarmNext, WarmStartNot, WarmStartBegins, Fetch, UseWeeks, UseDays, UseHours,
         UseWeekOfDays, UseFours, UseTwos, WarmStartEnds, UseMinutes, UseHalves, ringVars, Done
<1>2. /\ nextSample = 0 /\ nextMinute = 0 /\ inHour = 0 /\ Available(hour) = 0
      /\ nextSample' = 0 /\ nextMinute' = 0 /\ inHour' = 0 /\ NewestHour' = NewestHour
      /\ Available(hour') = 0 /\ fetch' = "idle"
  BY <1>1 DEF RunsOK, numberVars, NewestHour
<1>3. /\ HoldsRun(sec', Seconds, -1, 1, SampleNumbers)
      /\ HoldsRun(five', FiveMinutes, -1, 1, SampleNumbers)
  <2>1. /\ HoldsRun(sec, Seconds, -1, 1, SampleNumbers)
        /\ HoldsRun(five, FiveMinutes, -1, 1, SampleNumbers)
    <3>1. nextSample - 1 = -1
      BY <1>2
    <3> QED BY <3>1 DEF RunsOK
  <2>2. CASE sec' = sec /\ five' = five
    BY <2>1, <2>2
  <2>3. CASE UseMinutes
    <3> DEFINE n == Len(kept)
               isFive == "five" \notin skip /\ n >= FiveNeeds
    <3>1. step = "minute"
      BY <2>3 DEF UseMinutes, Done
    <3>2. n \in 0 .. Seconds
      <4>1. step \in Fetched /\ Room[step] = Seconds
        BY <3>1, WarmAssumption DEF Fetched
      <4> QED BY <1>0, <4>1, ArrayOK, Sizes
    <3>3. /\ sec' = IF n = 0 THEN sec
                    ELSE IF isFive THEN Seeded(Seconds, SampleNumbers, n, n, n = Seconds)
                    ELSE Seeded(Seconds, SampleNumbers, n, 0, FALSE)
          /\ five' = IF isFive
                     THEN Seeded(FiveMinutes, SampleNumbers, FiveMinutes, 0, TRUE) ELSE five
      BY <2>3 DEF UseMinutes
    <3> HIDE DEF n, isFive
    <3>4. /\ HoldsRun(Seeded(Seconds, SampleNumbers, n, n, n = Seconds), Seconds, -1, 1, SampleNumbers)
          /\ HoldsRun(Seeded(Seconds, SampleNumbers, n, 0, FALSE), Seconds, -1, 1, SampleNumbers)
      BY <3>2, SeededRun, Sizes
    <3>5. HoldsRun(Seeded(FiveMinutes, SampleNumbers, FiveMinutes, 0, TRUE), FiveMinutes, -1, 1,
                   SampleNumbers)
      <4>1. FiveMinutes \in 0 .. FiveMinutes /\ FiveMinutes \in Nat \ {0}
        BY Sizes
      <4> QED BY <4>1, SeededRun, Sizes
    <3> QED BY <2>1, <3>3, <3>4, <3>5
  <2> QED BY <1>1, <2>2, <2>3
<1>4. HoldsRun(minute', Minutes, -1, 1, MinuteNumbers)
  <2>1. HoldsRun(minute, Minutes, -1, 1, MinuteNumbers)
    <3>1. nextMinute - 1 = -1
      BY <1>2
    <3> QED BY <3>1 DEF RunsOK
  <2>2. CASE minute' = minute
    BY <2>1, <2>2
  <2>3. CASE UseHalves
    <3> DEFINE m == Least(Len(minutes), Minutes)
    <3>1. minute' = minute \/ minute' = Seeded(Minutes, MinuteNumbers, m, m, m = Minutes)
      BY <2>3 DEF UseHalves
    <3>2. m \in 0 .. Minutes
      <4>1. Len(minutes) \in Nat
        BY <1>0, LenProperties DEF ArraysOK
      <4> QED BY <4>1, Sizes DEF Least
    <3> HIDE DEF m
    <3>3. HoldsRun(Seeded(Minutes, MinuteNumbers, m, m, m = Minutes), Minutes, -1, 1, MinuteNumbers)
      BY <3>2, SeededRun, Sizes
    <3> QED BY <2>1, <3>1, <3>3
  <2> QED BY <1>1, <2>2, <2>3
<1>5. /\ HoldsRun(sec, Seconds, nextSample - 1, 1, SampleNumbers)'
      /\ HoldsRun(five, FiveMinutes, nextSample - 1, 1, SampleNumbers)'
      /\ HoldsRun(minute, Minutes, nextMinute - 1, 1, MinuteNumbers)'
  <2>1. nextSample' - 1 = -1 /\ nextMinute' - 1 = -1
    BY <1>2
  <2> QED BY <1>3, <1>4, <2>1 DEF HoldsRun, Available, Size
<1>6. HoldsRun(hour, Hours, NewestHour, HourLen, MinuteNumbers)'
  BY <1>1, <1>2 DEF RunsOK, HoldsRun, Available, Size
<1> QED BY <1>1, <1>2, <1>5, <1>6 DEF RunsOK

\* A number that is counted on keeps the count.
LEMMA CountedOn ==
    ASSUME NEW numbers \in Nat \ {0}, NEW n \in 0 .. numbers - 1, NEW x \in Int
    PROVE  (((n + 1) % numbers) - 1 - x) % numbers = (n - x) % numbers
<1>1. n + 1 \in Int /\ -1 - x \in Int
  OBVIOUS
<1>2. (((n + 1) % numbers) + (-1 - x)) % numbers = ((n + 1) + (-1 - x)) % numbers
  BY <1>1, ReducedFirst
<1>3. (n + 1) + (-1 - x) = n - x
  OBVIOUS
<1>4. (n + 1) % numbers \in Int
  BY <1>1, Divided
<1>5. ((n + 1) % numbers) + (-1 - x) = ((n + 1) % numbers) - 1 - x
  BY <1>4
<1> QED BY <1>2, <1>3, <1>5

\* One more entry of a ring that counts one by one.
LEMMA NextEntry ==
    ASSUME NEW size \in Nat \ {0}, NEW numbers \in Nat \ {0}, NEW r \in Ring(size, numbers),
           NEW n \in 0 .. numbers - 1, HoldsRun(r, size, n - 1, 1, numbers)
    PROVE  HoldsRun(Push(r, n, TRUE), size, ((n + 1) % numbers) - 1, 1, numbers)
<1> DEFINE p == Push(r, n, TRUE)
           k == ((n + 1) % numbers) - 1
<1>1. n - 1 \in Int /\ 1 \in Int /\ TRUE \in BOOLEAN /\ (n - 1) + 1 = n /\ n % numbers = n
  OBVIOUS
<1>2. HoldsRun(p, size, n, 1, numbers)
  BY <1>1, PushRun
<1>3. p \in Ring(size, numbers)
  BY <1>1, PushOK
<1>4. k % numbers = n % numbers
  <2>1. (((n + 1) % numbers) - 1 - 0) % numbers = (n - 0) % numbers
    BY CountedOn
  <2>2. (n + 1) % numbers \in Int
    <3>1. n + 1 \in Int
      OBVIOUS
    <3> QED BY <3>1, Divided
  <2> QED BY <2>1, <2>2
<1>5. k \in Int
  <2>1. n + 1 \in Int
    OBVIOUS
  <2>2. (n + 1) % numbers \in Int
    BY <2>1, Divided
  <2> QED BY <2>2
<1> HIDE DEF p, k
<1>6. n \in Int /\ n % numbers = k % numbers
  BY <1>1, <1>4
<1>7. HoldsRun(p, size, k, 1, numbers)
  BY <1>1, <1>2, <1>3, <1>5, <1>6, RunRenamed
<1> QED BY <1>7 DEF p, k

\* fetchPrice stores a price: a minute may be added, and with it an hour.
LEMMA RunsStored ==
    ASSUME WarmInv, RunsOK, FetchStore
    PROVE  RunsOK'
<1>0. RingsOK /\ CountersOK /\ StepsOK
  BY DEF WarmInv
<1>1. /\ minute \in Ring(Minutes, MinuteNumbers) /\ hour \in Ring(Hours, MinuteNumbers)
      /\ nextMinute \in 0 .. MinuteNumbers - 1 /\ inHour \in 0 .. HourLen - 1
      /\ HourLen \in Nat \ {0}
  BY <1>0, PathAssumption, Sizes DEF RingsOK, CountersOK
<1>2. /\ UNCHANGED <<nextSample, sec, five, stage>> /\ fetch = "got" /\ fetch' = "idle"
  BY DEF FetchStore
<1>3. /\ HoldsRun(sec, Seconds, nextSample - 1, 1, SampleNumbers)'
      /\ HoldsRun(five, FiveMinutes, nextSample - 1, 1, SampleNumbers)'
      /\ stage' = "boot" => Available(sec') = 0
      /\ stage' \notin {"boot", "run"} => fetch' = "idle"
  BY <1>2 DEF RunsOK, HoldsRun, Available, Size
<1>4. CASE UNCHANGED <<minute, hour, nextMinute, inHour, status>>
  <2>1. NewestHour' = NewestHour
    BY <1>4 DEF NewestHour
  <2>2. /\ HoldsRun(minute, Minutes, nextMinute - 1, 1, MinuteNumbers)'
        /\ HoldsRun(hour, Hours, NewestHour, HourLen, MinuteNumbers)'
    BY <1>4, <2>1 DEF RunsOK, HoldsRun, Available, Size
  <2> QED BY <1>2, <1>3, <1>4, <2>2 DEF RunsOK
<1>5. CASE ~UNCHANGED <<minute, hour, nextMinute, inHour, status>>
  <2>1. /\ minute' = Push(minute, nextMinute, TRUE)
        /\ nextMinute' = (nextMinute + 1) % MinuteNumbers
        /\ UpdateHour /\ Available(sec) # 0
    BY <1>5 DEF FetchStore, UpdateMinute
  <2>2. stage = "run" /\ stage' = "run"
    BY <1>2, <2>1 DEF RunsOK
  <2>3. HoldsRun(minute, Minutes, nextMinute - 1, 1, MinuteNumbers)'
    <3>1. HoldsRun(minute', Minutes, nextMinute' - 1, 1, MinuteNumbers)
      <4>1. Minutes \in Nat \ {0} /\ MinuteNumbers \in Nat \ {0}
        BY Sizes
      <4> QED BY <1>1, <2>1, <4>1, NextEntry DEF RunsOK
    <3> QED BY <3>1 DEF HoldsRun, Available, Size
  <2>4. /\ minute' \in Ring(Minutes, MinuteNumbers)
        /\ Available(minute) \in Int /\ Available(minute') \in Int /\ Available(hour) \in Nat
        /\ Available(minute') >= Available(minute)
    <3>1. Minutes \in Nat \ {0} /\ Hours \in Nat \ {0} /\ MinuteNumbers \in Nat
      BY Sizes
    <3>2. minute' \in Ring(Minutes, MinuteNumbers) /\ Available(minute') >= Available(minute)
      BY <1>0, MinuteRings
    <3>3. Available(minute) \in 0 .. Minutes /\ Available(minute') \in 0 .. Minutes
      BY <1>1, <3>1, <3>2, RingIs
    <3>4. Available(hour) \in 0 .. Hours
      BY <1>1, <3>1, RingIs
    <3> QED BY <3>1, <3>2, <3>3, <3>4
  <2>5. CASE inHour + 1 < HourLen
    <3>1. inHour' = inHour + 1 /\ hour' = hour
      BY <2>1, <2>5 DEF UpdateHour
    <3>2. NewestHour' = NewestHour
      <4>1. inHour + 1 \in Int
        BY <1>1
      <4>2. (nextMinute' - 1 - (inHour + 1)) % MinuteNumbers = (nextMinute - (inHour + 1)) % MinuteNumbers
        BY <1>1, <2>1, <4>1, CountedOn, Sizes
      <4>3. nextMinute - (inHour + 1) = nextMinute - 1 - inHour
        BY <1>1
      <4> QED BY <3>1, <4>2, <4>3 DEF NewestHour
    <3>3. HoldsRun(hour, Hours, NewestHour, HourLen, MinuteNumbers)'
      BY <3>1, <3>2 DEF RunsOK, HoldsRun, Available, Size
    <3>4. Available(hour') > 0 => Available(minute') >= HourLen
      BY <1>1, <2>4, <3>1 DEF RunsOK
    <3> QED BY <1>3, <2>2, <2>3, <3>3, <3>4 DEF RunsOK
  <2>6. CASE ~(inHour + 1 < HourLen)
    <3>0. inHour + 1 = HourLen
      BY <1>1, <2>6
    <3>1. /\ inHour' = 0 /\ inHour + 1 = HourLen
          /\ hour' = IF Available(minute') < HourLen THEN hour
                     ELSE Push(hour, nextMinute, LiveShare(minute', HourLen) >= LivePct)
      BY <2>1, <2>6, <3>0, Zenon DEF UpdateHour
    <3>2. NewestHour' = nextMinute
      <4>1. (nextMinute' - 1 - 0) % MinuteNumbers = (nextMinute - 0) % MinuteNumbers
        BY <1>1, <2>1, CountedOn, Sizes
      <4>2. (nextMinute - 0) % MinuteNumbers = nextMinute
        BY <1>1, Sizes
      <4> QED BY <3>1, <4>1, <4>2 DEF NewestHour
    <3>3. CASE Available(minute') < HourLen
      <4>1. hour' = hour /\ Available(hour) = 0 /\ (hour.full \/ hour.at < Hours)
        BY <1>1, <2>4, <3>1, <3>3 DEF RunsOK, HoldsRun
      <4>2. HoldsRun(hour, Hours, NewestHour, HourLen, MinuteNumbers)'
        BY <4>1 DEF HoldsRun, Available, Size
      <4> QED BY <1>3, <2>2, <2>3, <4>1, <4>2 DEF RunsOK
    <3>4. CASE ~(Available(minute') < HourLen)
      <4> DEFINE isLive == LiveShare(minute', HourLen) >= LivePct
                 p == Push(hour, nextMinute, isLive)
                 k == NewestHour + HourLen
      <4>0. hour' = p /\ isLive \in BOOLEAN
        BY <3>1, <3>4
      <4> HIDE DEF isLive
      <4>1. NewestHour \in Int
        <5>1. nextMinute - 1 - inHour \in Int
          BY <1>1
        <5> QED BY <5>1, Divided, Sizes DEF NewestHour
      <4>2. k % MinuteNumbers = nextMinute
        <5>1. nextMinute - 1 - inHour \in Int /\ HourLen \in Int
          BY <1>1
        <5>2. k % MinuteNumbers = ((nextMinute - 1 - inHour) + HourLen) % MinuteNumbers
          BY <5>1, ReducedFirst, Sizes DEF NewestHour
        <5>3. (nextMinute - 1 - inHour) + HourLen = nextMinute
          BY <1>1, <3>1
        <5> QED BY <1>1, <5>2, <5>3, Inside, Sizes
      <4>3. k \in Int /\ HourLen \in Int /\ nextMinute \in Int
            /\ Hours \in Nat \ {0} /\ MinuteNumbers \in Nat \ {0}
        BY <1>1, <4>1, Sizes
      <4>4. HoldsRun(p, Hours, k, HourLen, MinuteNumbers)
        <5>1. HoldsRun(hour, Hours, NewestHour, HourLen, MinuteNumbers)
          BY DEF RunsOK
        <5>2. nextMinute = (NewestHour + HourLen) % MinuteNumbers
          BY <4>2
        <5> QED BY <1>1, <4>0, <4>1, <4>3, <5>1, <5>2, PushRun
      <4>5. p \in Ring(Hours, MinuteNumbers)
        BY <1>1, <4>0, <4>3, PushOK
      <4>6. nextMinute % MinuteNumbers = k % MinuteNumbers
        BY <1>1, <4>2, <4>3, Inside
      <4> HIDE DEF p, k
      <4>7. HoldsRun(p, Hours, nextMinute, HourLen, MinuteNumbers)
        BY <4>3, <4>4, <4>5, <4>6, RunRenamed
      <4>8. HoldsRun(hour, Hours, NewestHour, HourLen, MinuteNumbers)'
        BY <3>2, <4>0, <4>7 DEF HoldsRun, Available, Size
      <4>9. Available(minute') >= HourLen
        BY <1>1, <2>4, <3>4
      <4> QED BY <1>3, <2>2, <2>3, <4>8, <4>9 DEF RunsOK
    <3> QED BY <3>3, <3>4
  <2> QED BY <2>5, <2>6
<1> QED BY <1>4, <1>5

LEMMA RunsStep == WarmInv /\ RunsOK /\ [Next]_vars => RunsOK'
<1> SUFFICES ASSUME WarmInv, RunsOK, [Next]_vars PROVE RunsOK'
  OBVIOUS
<1>0. RingsOK /\ CountersOK
  BY DEF WarmInv
<1>s. ASSUME UNCHANGED <<numberVars, ringVars>>, UNCHANGED stage \/ (stage = "warm" /\ stage' = "run"),
             stage' \notin {"boot", "run"} => fetch' = "idle"
      PROVE  RunsOK'
  <2>1. UNCHANGED <<sec, five, minute, hour, nextSample, nextMinute, inHour>>
    BY <1>s DEF numberVars, ringVars
  <2>2. NewestHour' = NewestHour
    BY <2>1 DEF NewestHour
  <2> QED BY <1>s, <2>1, <2>2 DEF RunsOK, HoldsRun, Available, Size
<1>1. CASE Warming
  BY <1>1, RunsWarming DEF Warming, fetchVars
<1>2. CASE StartTasks
  BY <1>2, <1>s DEF StartTasks
<1>3. CASE \/ SecondPasses \/ Trade \/ CandleComes \/ Connects \/ Stale \/ ProcessPrice
           \/ ProcessOther \/ StoreKnown
  <2>1. UNCHANGED <<numberVars, fetchVars, warmVars>>
    BY <1>3 DEF SecondPasses, Trade, CandleComes, Connects, Stale, ProcessPrice, ProcessOther,
                StoreKnown
  <2> QED BY <1>s, <2>1 DEF RunsOK, warmVars, fetchVars
<1>4. CASE FetchBegin \/ FetchAnswer \/ FetchRefused \/ FetchRead \/ FetchGivesUp
  <2>1. UNCHANGED <<numberVars, warmVars>> /\ (fetch # "idle" \/ stage \in {"boot", "run"})
    BY <1>4 DEF FetchBegin, FetchAnswer, FetchRefused, FetchRead, FetchGivesUp
  <2> QED BY <1>s, <2>1 DEF RunsOK, warmVars
<1>5. CASE Sample
  <2>1. /\ stage = "run"
        /\ UNCHANGED <<fetchVars, nextMinute, inHour, stage, minute, hour>>
        /\ \/ /\ sec' = Push(sec, nextSample, TRUE) /\ five' = Push(five, nextSample, TRUE)
              /\ nextSample' = (nextSample + 1) % SampleNumbers
           \/ UNCHANGED <<sec, five, nextSample>>
    BY <1>5 DEF Sample
  <2>2. NewestHour' = NewestHour
    BY <2>1 DEF NewestHour
  <2>3. /\ HoldsRun(sec', Seconds, nextSample' - 1, 1, SampleNumbers)
        /\ HoldsRun(five', FiveMinutes, nextSample' - 1, 1, SampleNumbers)
    <3>1. CASE UNCHANGED <<sec, five, nextSample>>
      BY <3>1 DEF RunsOK
    <3>2. CASE /\ sec' = Push(sec, nextSample, TRUE) /\ five' = Push(five, nextSample, TRUE)
               /\ nextSample' = (nextSample + 1) % SampleNumbers
      <4>1. /\ Seconds \in Nat \ {0} /\ FiveMinutes \in Nat \ {0} /\ SampleNumbers \in Nat \ {0}
            /\ nextSample \in 0 .. SampleNumbers - 1
            /\ sec \in Ring(Seconds, SampleNumbers) /\ five \in Ring(FiveMinutes, SampleNumbers)
        BY <1>0, Sizes DEF RingsOK, CountersOK
      <4> QED BY <3>2, <4>1, NextEntry DEF RunsOK
    <3> QED BY <2>1, <3>1, <3>2
  <2>4. /\ HoldsRun(sec, Seconds, nextSample - 1, 1, SampleNumbers)'
        /\ HoldsRun(five, FiveMinutes, nextSample - 1, 1, SampleNumbers)'
    BY <2>3 DEF HoldsRun, Available, Size
  <2>5. /\ HoldsRun(minute, Minutes, nextMinute - 1, 1, MinuteNumbers)'
        /\ HoldsRun(hour, Hours, NewestHour, HourLen, MinuteNumbers)'
        /\ Available(hour') > 0 => Available(minute') >= HourLen
    BY <2>1, <2>2 DEF RunsOK, HoldsRun, Available, Size
  <2> QED BY <2>1, <2>4, <2>5 DEF RunsOK
<1>6. CASE FetchStore
  BY <1>6, RunsStored
<1>7. CASE UNCHANGED vars
  <2>1. UNCHANGED <<numberVars, fetchVars, warmVars>>
    BY <1>7 DEF vars
  <2> QED BY <1>s, <2>1 DEF RunsOK, warmVars, fetchVars
<1> QED BY <1>1, <1>2, <1>3, <1>4, <1>5, <1>6, <1>7 DEF Next

LEMMA RunsInvariance == Spec => []RunsOK
<1>1. ASSUME Init PROVE RunsOK
  <2>1. /\ stage = "boot" /\ nextSample = 0 /\ nextMinute = 0 /\ inHour = 0
        /\ sec = Empty(Seconds) /\ five = Empty(FiveMinutes)
        /\ minute = Empty(Minutes) /\ hour = Empty(Hours)
    BY <1>1 DEF Init, WarmInit
  <2>2. ASSUME NEW size \in Nat \ {0}, NEW m, NEW apart, NEW numbers
        PROVE  HoldsRun(Empty(size), size, m, apart, numbers) /\ Available(Empty(size)) = 0
    <3>1. Available(Empty(size)) = 0
      BY DEF Empty, Available
    <3>2. Empty(size).at = 0
      BY DEF Empty
    <3> QED BY <3>1, <3>2 DEF HoldsRun
  <2> QED BY <2>1, <2>2, Sizes DEF RunsOK
<1> QED BY <1>1, RunsStep, WarmInvariance, PTL DEF Spec

\* Every return is computed from the newest entries of its ring, none left out or twice and
\* the oldest first, whatever the sizes of the rings, before and after a ring has turned and
\* right after any warm start; and the hours are whole hours that follow each other.
THEOREM SeriesStayInOrder == Spec => []SeriesInOrder
<1>1. ASSUME WarmInv, RunsOK PROVE SeriesInOrder
  <2>1. /\ Seconds \in Nat \ {0} /\ FiveMinutes \in Nat \ {0} /\ Minutes \in Nat \ {0}
        /\ Hours \in Nat \ {0} /\ SampleNumbers \in Nat \ {0} /\ MinuteNumbers \in Nat \ {0}
        /\ sec \in Ring(Seconds, SampleNumbers) /\ five \in Ring(FiveMinutes, SampleNumbers)
        /\ minute \in Ring(Minutes, MinuteNumbers) /\ hour \in Ring(Hours, MinuteNumbers)
    BY <1>1, Sizes DEF WarmInv, RingsOK
  <2>2. /\ HalfHour \in Nat \ {0} /\ HourLen \in Int /\ 1 \in Int
        /\ \A f \in {"four", "day", "week"} : HoursOf[f] \in Nat \ {0}
    BY PathAssumption, Sizes
  <2>3. /\ nextSample - 1 \in Int /\ nextMinute - 1 \in Int
        /\ NewestHour \in Int /\ NewestHour % MinuteNumbers = NewestHour
    <3>1. nextSample \in Int /\ nextMinute \in Int /\ inHour \in Int
      BY <1>1, <2>1, <2>2 DEF WarmInv, CountersOK
    <3>2. nextMinute - 1 - inHour \in Int
      BY <3>1
    <3>3. NewestHour \in 0 .. MinuteNumbers - 1
      BY <2>1, <3>2, Divided DEF NewestHour
    <3> QED BY <2>1, <3>1, <3>3, Inside
  <2>4. /\ HoldsRun(sec, Seconds, nextSample - 1, 1, SampleNumbers)
        /\ HoldsRun(five, FiveMinutes, nextSample - 1, 1, SampleNumbers)
        /\ HoldsRun(minute, Minutes, nextMinute - 1, 1, MinuteNumbers)
        /\ HoldsRun(hour, Hours, NewestHour, HourLen, MinuteNumbers)
    BY <1>1 DEF RunsOK
  <2>5. Newest(Of(sec, SecondSlots(sec)), nextSample - 1, 1, SampleNumbers)
    BY <2>1, <2>2, <2>3, <2>4, SecondsRead
  <2>6. Newest(Of(five, FiveMinuteSlots(five)), nextSample - 1, 1, SampleNumbers)
    BY <2>1, <2>2, <2>3, <2>4, FiveMinutesRead
  <2>7. Newest(Of(minute, HalfHourSlots(minute, HalfHour)), nextMinute - 1, 1, MinuteNumbers)
    BY <2>1, <2>2, <2>3, <2>4, HalfHourRead
  <2>8. Newest(Of(minute, TwoHourSlots(minute, TwoHourLeast)), nextMinute - 1, 1, MinuteNumbers)
    BY <2>1, <2>2, <2>3, <2>4, TwoHoursRead
  <2>9. ASSUME NEW f \in {"day", "week"}
        PROVE  Newest(Of(hour, DaysSlots(hour, HoursOf[f], DayLeast)), NewestHour, HourLen,
                      MinuteNumbers)
    <3>1. HoursOf[f] \in Nat
      BY <2>2
    <3> QED BY <2>1, <2>2, <2>3, <2>4, <3>1, DaysRead
  <2>10. LET pair == Of(hour, HoursBackSlots(hour, HoursOf["four"]))
         IN  pair # <<>> =>
               /\ pair[2] = NewestHour
               /\ pair[1] = (NewestHour - HourLen * Least(HoursOf["four"], Available(hour) - 1))
                               % MinuteNumbers
    BY <2>1, <2>2, <2>3, <2>4, HoursBackRead
  <2> QED BY <2>5, <2>6, <2>7, <2>8, <2>9, <2>10 DEF SeriesInOrder
<1>2. WarmInv /\ RunsOK => SeriesInOrder
  BY <1>1
<1> QED BY <1>2, WarmInvariance, RunsInvariance, PTL

-----------------------------------------------------------------------------
(* Types.                                                                   *)

\* No number is ahead of the exchange.
BoundsOK ==
    /\ trade \in 1 .. MaxTrade /\ known <= trade /\ last <= trade /\ best <= trade
    /\ text >= Candle /\ on \in BOOLEAN

LEMMA BoundsStep == SampleInv /\ BoundsOK /\ [Next]_vars => BoundsOK'
<1> SUFFICES ASSUME SampleInv, BoundsOK, [Next]_vars PROVE BoundsOK'
  OBVIOUS
<1>0. /\ trade \in Nat /\ known \in Nat /\ last \in Nat /\ best \in Nat /\ text \in Int
      /\ wsLast \in Nat /\ wsLast <= trade /\ fetched \in Nat /\ fetched <= trade
      /\ closed.close \in Nat /\ closed.close <= wsLast /\ MaxTrade \in Nat
  BY PathAssumption DEF SampleInv, NumbersOK, StreamOK, Aggregates
<1>1. CASE Trade
  BY <1>0, <1>1 DEF Trade, BoundsOK, seenVars, Candle
<1>2. CASE StoreKnown
  BY <1>0, <1>2 DEF StoreKnown, BoundsOK
<1>3. CASE Sample
  <2>1. /\ UNCHANGED <<trade, wsVars, known>>
        /\ \/ last' = ToSample /\ best' = (IF ToSample > best THEN ToSample ELSE best)
           \/ UNCHANGED <<last, best>>
    BY <1>3 DEF Sample
  <2>2. ToSample \in Nat /\ ToSample <= trade
    <3>1. known <= trade
      BY DEF BoundsOK
    <3> QED BY <1>0, <3>1, ToSampleOK
  <2> QED BY <1>0, <2>1, <2>2 DEF BoundsOK, wsVars
<1>4. CASE FetchStore
  <2>1. known' = fetched /\ UNCHANGED <<trade, wsVars, last, best>>
    BY <1>4 DEF FetchStore
  <2> QED BY <1>0, <2>1 DEF BoundsOK, wsVars
<1>5. CASE \/ CandleComes \/ ProcessPrice \/ ProcessOther
  BY <1>0, <1>5 DEF CandleComes, ProcessPrice, ProcessOther, BoundsOK, seenVars, Candle, Nothing
<1>6. CASE \/ Warming \/ StartTasks \/ SecondPasses \/ Stale \/ FetchBegin
           \/ FetchAnswer \/ FetchRefused \/ FetchRead \/ FetchGivesUp \/ UNCHANGED vars
  <2>1. UNCHANGED <<trade, on, text, known, last, best>>
    BY <1>6 DEF Warming, StartTasks, SecondPasses, Stale, FetchBegin, FetchAnswer,
                FetchRefused, FetchRead, FetchGivesUp, vars, wsVars, seenVars
  <2> QED BY <2>1 DEF BoundsOK
<1>7. CASE Connects
  <2>1. on' = ~on /\ UNCHANGED <<trade, text, known, last, best>>
    BY <1>7 DEF Connects, seenVars
  <2> QED BY <2>1 DEF BoundsOK
<1> QED BY <1>1, <1>2, <1>3, <1>4, <1>5, <1>6, <1>7 DEF Next

LEMMA BoundsInvariance == Spec => []BoundsOK
<1>1. ASSUME Init PROVE BoundsOK
  <2>1. trade = 1 /\ on = FALSE /\ text = 0 /\ known = 0 /\ last = 0 /\ best = 0
    BY <1>1 DEF Init, Nothing
  <2>2. MaxTrade \in Nat /\ MaxTrade >= 1 /\ Candle = -1
    BY PathAssumption DEF Candle
  <2>3. on \in BOOLEAN
    BY <2>1
  <2>4. trade \in 1 .. MaxTrade /\ known <= trade /\ last <= trade /\ best <= trade
        /\ text >= Candle
    BY <2>1, <2>2
  <2> QED BY <2>3, <2>4 DEF BoundsOK
<1> QED BY <1>1, BoundsStep, SampleInvariance, PTL DEF Spec

\* The types of the price path: no number is ahead of the exchange, the rings and the arrays
\* of the warm start keep their sizes, for any number of trades and all sizes.
THEOREM PathTypes == Spec => []TypeOK
<1>1. ASSUME SampleInv, WarmInv, BoundsOK PROVE TypeOK
  <2>1. NumbersOK /\ StreamOK /\ RingsOK /\ CountersOK /\ StepsOK /\ ArraysOK
    BY <1>1 DEF SampleInv, WarmInv
  <2>2. MaxTrade \in Nat
    BY PathAssumption
  <2>3. /\ text \in {Candle} \cup 0 .. MaxTrade /\ wsLast \in 0 .. MaxTrade
        /\ known \in 0 .. MaxTrade /\ fetched \in 0 .. MaxTrade
        /\ last \in 0 .. MaxTrade /\ best \in 0 .. MaxTrade
    BY <1>1, <2>1, <2>2 DEF BoundsOK, NumbersOK, StreamOK, Candle
  <2>4. {current, closed} \subseteq [close : 0 .. MaxTrade, age : 0 .. 2]
    <3>1. current.close \in 0 .. MaxTrade /\ closed.close \in 0 .. MaxTrade
      <4>1. None.close = 0
        BY DEF None, Nothing
      <4>2. current.close \in Nat /\ closed.close \in Nat
        BY <2>1 DEF NumbersOK, Aggregates
      <4> QED BY <2>1, <2>2, <2>3, <4>1, <4>2 DEF StreamOK
    <3> QED BY <2>1, <3>1 DEF NumbersOK, Aggregates
  <2>5. WarmTypeOK
    <3>1. ASSUME step \in Fetched
          PROVE  /\ came \in Candles(Asked[step]) /\ kept \in Candles(Asked[step])
                 /\ Len(kept) <= Room[step]
      <4>1. Asked[step] \in Nat /\ Room[step] \in Nat \ {0}
        BY <3>1, WarmAssumption
      <4>2. came \in Answers(Asked[step]) /\ kept = Kept(came, Room[step])
        BY <2>1, <3>1 DEF ArraysOK
      <4> QED BY <4>1, <4>2, KeptRuns DEF Answers
    <3> QED BY <2>1, <3>1 DEF RingsOK, StepsOK, ArraysOK, WarmTypeOK
  <2>6. /\ trade \in 1 .. MaxTrade
        /\ on \in BOOLEAN /\ fresh \in BOOLEAN /\ storing \in BOOLEAN
        /\ fetch \in {"idle", "asking", "answered", "got"} /\ fromWs \in BOOLEAN
        /\ late \in BOOLEAN /\ missed \in BOOLEAN
    BY <1>1, <2>1 DEF NumbersOK, BoundsOK
  <2>7. /\ sinceMinute \in 0 .. Seconds /\ sampled \in BOOLEAN /\ inHour \in 0 .. HourLen - 1
        /\ nextSample \in 0 .. SampleNumbers - 1 /\ nextMinute \in 0 .. MinuteNumbers - 1
    BY <2>1 DEF CountersOK
  <2> QED BY <2>3, <2>4, <2>5, <2>6, <2>7 DEF TypeOK
<1>2. SampleInv /\ WarmInv /\ BoundsOK => TypeOK
  BY <1>1
<1> QED BY <1>2, SampleInvariance, WarmInvariance, BoundsInvariance, PTL
=============================================================================
