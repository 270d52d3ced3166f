---------------------------- MODULE AlertProofs ----------------------------
(***************************************************************************)
(* Theorems about the alerts of AlertEngine: TwoHourAlerts for all         *)
(* cooldowns, thresholds and returns, MinuteAlerts for all windows,        *)
(* cooldowns, hourly limits and dwell times.                               *)
(***************************************************************************)
EXTENDS MinuteAlerts, TwoHourAlerts, SequenceTheorems, TLAPS

-----------------------------------------------------------------------------
(* The dispatcher of the two-hour alerts.                                   *)

Dispatcher ==
    [pend : Secondary \cup {"none"}, late : BOOLEAN,
     last : Primary \cup Secondary \cup {"none"}, since : 0 .. Cap,
     sinceSecondary : 0 .. GlobalCd, gap : 0 .. GlobalCd, waiting : SUBSET Secondary]

\* What has been accepted is the pending alert, and the last two secondary alerts were
\* far enough apart.
DispOK(d) ==
    /\ d \in Dispatcher
    /\ d.gap >= GlobalCd
    /\ d.waiting = IF d.pend = "none" THEN {} ELSE {d.pend}

\* A flush sends the pending alert only when the throttle allows it, and leaves none.
LEMMA FlushOK ==
    ASSUME NEW d, DispOK(d)
    PROVE  DispOK(Flush(d)) /\ Flush(d).pend = "none"
<1>1. /\ d \in Dispatcher /\ d.gap >= GlobalCd /\ d.sinceSecondary \in 0 .. GlobalCd
      /\ d.waiting = IF d.pend = "none" THEN {} ELSE {d.pend}
  BY DEF DispOK, Dispatcher
<1>2. CASE d.pend = "none"
  BY <1>1, <1>2 DEF Flush, DispOK
<1>3. CASE d.pend # "none" /\ Throttled(d, d.pend)
  <2>1. Flush(d) = [d EXCEPT !.pend = "none", !.late = FALSE, !.waiting = @ \ {d.pend}]
    BY <1>3 DEF Flush
  <2> QED BY <1>1, <1>3, <2>1 DEF DispOK, Dispatcher
<1>4. CASE d.pend # "none" /\ ~Throttled(d, d.pend)
  <2> DEFINE gone == [d EXCEPT !.pend = "none", !.late = FALSE, !.waiting = @ \ {d.pend}]
  <2>1. Flush(d) = [gone EXCEPT !.last = d.pend, !.since = 0, !.sinceSecondary = 0,
                                !.gap = d.sinceSecondary]
    BY <1>4 DEF Flush
  <2>2. d.sinceSecondary >= GlobalCd /\ 0 \in 0 .. Cap /\ 0 \in 0 .. GlobalCd
    BY <1>1, <1>4, TwoHourAssumption DEF Throttled
  <2>3. /\ gone \in Dispatcher /\ gone.pend = "none" /\ gone.waiting = {}
        /\ d.pend \in Secondary
    BY <1>1, <1>4 DEF Dispatcher
  <2> HIDE DEF gone
  <2> QED BY <1>1, <2>1, <2>2, <2>3 DEF DispOK, Dispatcher
<1> QED BY <1>2, <1>3, <1>4

\* An alert that is accepted becomes the pending one, in the place of a lesser one or
\* after a flush.
LEMMA PutOK ==
    ASSUME NEW d, DispOK(d), NEW s \in Secondary
    PROVE  DispOK(Put(d, s))
<1>0. s # "none"
  BY DEF Secondary
<1>1. ASSUME NEW e \in Dispatcher, e.gap >= GlobalCd, e.waiting = {}
      PROVE  DispOK(Store(e, s))
  <2>1. Store(e, s) = [e EXCEPT !.pend = s, !.late = FALSE, !.waiting = @ \cup {s}]
    BY DEF Store
  <2>2. Store(e, s).waiting = {s}
    BY <1>1, <2>1 DEF Dispatcher
  <2>3. Store(e, s) \in Dispatcher
    BY <1>1, <2>1, <2>2 DEF Dispatcher
  <2>4. Store(e, s).pend = s /\ Store(e, s).gap = e.gap
    BY <2>1, <1>1 DEF Dispatcher
  <2> QED BY <1>0, <1>1, <2>2, <2>3, <2>4 DEF DispOK
<1>2. CASE d.pend # "none" /\ ~d.late
  <2> DEFINE e == [d EXCEPT !.waiting = @ \ {d.pend}]
  <2>1. e \in Dispatcher /\ e.gap >= GlobalCd /\ e.waiting = {}
    BY <1>2 DEF DispOK, Dispatcher
  <2>2. Put(d, s) = Store(e, s)
    BY <1>2 DEF Put
  <2> HIDE DEF e
  <2> QED BY <1>1, <2>1, <2>2
<1>3. CASE ~(d.pend # "none" /\ ~d.late)
  <2>1. Flush(d) \in Dispatcher /\ Flush(d).gap >= GlobalCd /\ Flush(d).waiting = {}
    BY FlushOK DEF DispOK
  <2>2. Put(d, s) = Store(Flush(d), s)
    BY <1>3 DEF Put
  <2> QED BY <1>1, <2>1, <2>2
<1> QED BY <1>2, <1>3

\* A primary alert does not count for the distance of the secondary ones.
LEMMA SendPrimaryOK ==
    ASSUME NEW d, DispOK(d), NEW p \in Primary
    PROVE  DispOK(SendPrimary(d, p))
<1>1. SendPrimary(d, p) = [Flush(d) EXCEPT !.last = p, !.since = 0]
  BY DEF SendPrimary
<1>2. 0 \in 0 .. Cap
  BY TwoHourAssumption
<1>3. DispOK(Flush(d))
  BY FlushOK
<1> QED BY <1>1, <1>2, <1>3 DEF DispOK, Dispatcher

TwoHourInv == TwoHourTypeOK /\ DispOK(disp)

\* The announcement of a trend change, whoever makes it.
LEMMA AnnounceOK ==
    ASSUME TwoHourInv, NEW scope \in Scopes, NEW enough, Announce(scope, enough)
    PROVE  DispOK(disp') /\ recent' \subseteq Scopes
BY PutOK DEF Announce, TwoHourInv, TwoHourTypeOK, Secondary

\* The offer of a family: accepted or not, armed again or not.
LEMMA OfferOK ==
    ASSUME TwoHourInv, NEW f \in Families \cap Secondary, NEW due, NEW over,
           Offer(f, due, over)
    PROVE  /\ DispOK(disp') /\ armed' \subseteq Families
           /\ age' \in [Families -> Nat] /\ \A g \in Families : age'[g] <= FamilyCd[g]
<1>1. DispOK(disp')
  BY PutOK DEF Offer, TwoHourInv
<1>2. armed' \subseteq Families
  BY DEF Offer, TwoHourInv, TwoHourTypeOK
<1>3. age' = age \/ age' = [age EXCEPT ![f] = 0]
  BY DEF Offer
<1>4. FamilyCd[f] \in Nat
  BY TwoHourAssumption
<1> QED BY <1>1, <1>2, <1>3, <1>4 DEF TwoHourInv, TwoHourTypeOK

\* The trends a detector can find.
LEMMA TrendTypes ==
    /\ \A c, r2h, r30m : DetermineTrend(c, r2h, r30m) \in Trends
    /\ \A r, threshold : PlainTrend(r, threshold) \in Trends
BY DEF DetermineTrend, PlainTrend, Trends

\* One step per part of a fetch, and the two kinds of time between fetches.
LEMMA TwoHourStep == TwoHourInv /\ [TwoHourNext]_twoHourVars => TwoHourInv'
<1> SUFFICES ASSUME TwoHourInv, [TwoHourNext]_twoHourVars PROVE TwoHourInv'
  OBVIOUS
<1>0. TwoHourTypeOK /\ DispOK(disp)
  BY DEF TwoHourInv
<1>a. ASSUME DispOK(disp'), UNCHANGED <<armed, wasFar, age, trend, prev, filled, booting>>,
             recent' \subseteq Scopes, place' \in Steps
      PROVE  TwoHourInv'
  BY <1>0, <1>a DEF TwoHourInv, TwoHourTypeOK, DispOK, Dispatcher
<1>1. ASSUME NEW r2h \in Ret2h, NEW r30m \in Ret30m, TwoHourTrend(r2h, r30m)
      PROVE  TwoHourInv'
  <2> DEFINE now == DetermineTrend(trend["2h"], r2h, r30m)
  <2>1. now \in Trends
    BY TrendTypes
  <2>2. DispOK(disp') /\ recent' \subseteq Scopes
    BY <1>0, <1>1, AnnounceOK DEF TwoHourTrend, TwoHourTypeOK, Scopes
  <2>3. trend' = [trend EXCEPT !["2h"] = now] /\ prev' = now
    BY <1>1 DEF TwoHourTrend
  <2> HIDE DEF now
  <2> QED BY <1>0, <1>1, <2>1, <2>2, <2>3
             DEF TwoHourInv, TwoHourTypeOK, TwoHourTrend, DispOK, Dispatcher, Steps, Scopes
<1>2. CASE NoTwoHourTrend
  BY <1>0, <1>2 DEF NoTwoHourTrend, TwoHourInv, TwoHourTypeOK, DispOK, Dispatcher, Steps,
                    Scopes
<1>3. ASSUME NEW at, NEW next \in Steps, NEW scope \in Scopes, NEW threshold, NEW returns,
             NEW fours, SlowTrend(at, next, scope, threshold, returns, fours)
      PROVE  TwoHourInv'
  <2>1. CASE UNCHANGED <<disp, recent, trend>>
    BY <1>0, <1>3, <1>a, <2>1 DEF SlowTrend, TwoHourTypeOK
  <2>2. CASE \E r \in returns, known \in fours :
               LET now == PlainTrend(r, threshold)
               IN  /\ now # trend[scope]
                   /\ Announce(scope, known /\ r # 0)
                   /\ trend' = [trend EXCEPT ![scope] = now]
    <3>1. PICK r \in returns, known \in fours :
               /\ Announce(scope, known /\ r # 0)
               /\ trend' = [trend EXCEPT ![scope] = PlainTrend(r, threshold)]
      BY <2>2
    <3>2. DispOK(disp') /\ recent' \subseteq Scopes
      BY <3>1, AnnounceOK
    <3>3. trend' \in [Scopes -> Trends]
      BY <1>0, <3>1, TrendTypes DEF TwoHourTypeOK
    <3> QED BY <1>0, <1>3, <3>2, <3>3
               DEF SlowTrend, TwoHourInv, TwoHourTypeOK, DispOK, Dispatcher
  <2> QED BY <1>3, <2>1, <2>2 DEF SlowTrend
<1>4. CASE MediumTrend \/ LongTrend
  BY <1>3, <1>4 DEF MediumTrend, LongTrend, Steps, Scopes
<1>5. CASE NothingToCheck \/ BeginCheck
  BY <1>0, <1>5, <1>a, FlushOK DEF NothingToCheck, BeginCheck, TwoHourTypeOK, Steps
<1>6. ASSUME NEW zone \in Zones, Breakout(zone) PROVE TwoHourInv'
  <2> DEFINE fire == IF zone = "above" /\ Fires("up") THEN {"up"}
                     ELSE IF zone = "below" /\ Fires("down") THEN {"down"} ELSE {}
  <2>1. fire \subseteq Primary /\ Primary \subseteq Families
    BY DEF Primary, Families
  <2>2. disp' = disp \/ \E p \in fire : disp' = SendPrimary(disp, p)
    BY <1>6 DEF Breakout
  <2>3. DispOK(disp')
    BY <1>0, <2>1, <2>2, SendPrimaryOK
  <2>4. age' = [f \in Families |-> IF f \in fire THEN 0 ELSE age[f]]
    BY <1>6 DEF Breakout
  <2>5. armed' \subseteq Families
    BY <1>0, <1>6 DEF Breakout, TwoHourTypeOK, Families
  <2> HIDE DEF fire
  <2>6. age' \in [Families -> Nat] /\ \A f \in Families : age'[f] <= FamilyCd[f]
    BY <1>0, <2>4, TwoHourAssumption DEF TwoHourTypeOK
  <2> QED BY <1>0, <1>6, <2>3, <2>5, <2>6
             DEF Breakout, TwoHourInv, TwoHourTypeOK, DispOK, Dispatcher, Steps
<1>7. ASSUME NEW f \in Families \cap Secondary, NEW due, NEW over, Offer(f, due, over),
             wasFar' \in BOOLEAN, place' \in Steps,
             UNCHANGED <<trend, prev, recent, filled, booting>>
      PROVE  TwoHourInv'
  <2>1. /\ DispOK(disp') /\ armed' \subseteq Families
        /\ age' \in [Families -> Nat] /\ \A g \in Families : age'[g] <= FamilyCd[g]
    BY <1>7, OfferOK
  <2> QED BY <1>0, <1>7, <2>1 DEF TwoHourInv, TwoHourTypeOK, DispOK, Dispatcher
<1>8. {"compress", "mean", "anchor"} \subseteq Families \cap Secondary
  BY DEF Families, Secondary
<1>9. ASSUME NEW range, Compression(range) PROVE TwoHourInv'
  BY <1>0, <1>7, <1>8, <1>9 DEF Compression, TwoHourTypeOK, Steps
<1>10. ASSUME NEW dist, MeanTouch(dist) PROVE TwoHourInv'
  <2>1. wasFar' \in BOOLEAN /\ place' \in Steps
    BY <1>10 DEF MeanTouch, Steps
  <2> QED BY <1>7, <1>8, <1>10, <2>1 DEF MeanTouch
<1>11. ASSUME NEW where, AnchorContext(where) PROVE TwoHourInv'
  BY <1>0, <1>7, <1>8, <1>11 DEF AnchorContext, TwoHourTypeOK, Steps
<1>12. CASE BeginFetch
  BY <1>0, <1>12, <1>a DEF BeginFetch, TwoHourTypeOK, Steps
<1>13. CASE Lull
  <2>1. DispOK(disp')
    BY <1>0, <1>13 DEF Lull, DispOK, Dispatcher
  <2> QED BY <1>0, <1>13, <2>1 DEF Lull, TwoHourInv, TwoHourTypeOK, DispOK, Dispatcher
<1>14. CASE Wait
  <2>1. \A n, cap \in Nat : n <= cap => Later(n, cap) \in 0 .. cap
    BY TwoHourAssumption DEF Later
  <2>2. /\ Later(disp.since, Cap) \in 0 .. Cap
        /\ Later(disp.sinceSecondary, GlobalCd) \in 0 .. GlobalCd
    BY <1>0, <2>1, TwoHourAssumption DEF DispOK, Dispatcher
  <2>3. DispOK(disp')
    BY <1>0, <1>14, <2>2 DEF Wait, DispOK, Dispatcher
  <2>4. age' \in [Families -> Nat] /\ \A f \in Families : age'[f] <= FamilyCd[f]
    BY <1>0, <1>14, <2>1, TwoHourAssumption DEF Wait, TwoHourTypeOK
  <2> QED BY <1>0, <1>14, <2>3, <2>4 DEF Wait, TwoHourInv, TwoHourTypeOK, DispOK, Dispatcher
<1>15. CASE UNCHANGED twoHourVars
  BY <1>0, <1>15, <1>a DEF twoHourVars, TwoHourTypeOK
<1> QED
  BY <1>1, <1>2, <1>4, <1>5, <1>6, <1>9, <1>10, <1>11, <1>12, <1>13, <1>14, <1>15
     DEF TwoHourNext, Fetch

\* The invariant of the dispatcher holds in every reachable state.
LEMMA TwoHourInvariance == TwoHourSpec => []TwoHourInv
<1>1. ASSUME TwoHourInit PROVE TwoHourInv
  <2>1. disp \in Dispatcher
    BY <1>1, TwoHourAssumption DEF TwoHourInit, Dispatcher
  <2>2. DispOK(disp)
    BY <1>1, <2>1, TwoHourAssumption DEF TwoHourInit, DispOK
  <2>3. age \in [Families -> Nat] /\ \A f \in Families : age[f] <= FamilyCd[f]
    BY <1>1, TwoHourAssumption DEF TwoHourInit
  <2> QED
    BY <1>1, <2>1, <2>2, <2>3
       DEF TwoHourInit, TwoHourInv, TwoHourTypeOK, Dispatcher, Steps, Trends
<1> QED BY <1>1, TwoHourStep, PTL DEF TwoHourSpec

\* The dispatcher, the families and the trends keep their types.
THEOREM TwoHourTypes == TwoHourSpec => []TwoHourTypeOK
<1>1. TwoHourInv => TwoHourTypeOK
  BY DEF TwoHourInv
<1> QED BY <1>1, TwoHourInvariance, PTL

\* Two secondary alerts never leave within the global cooldown.
THEOREM HardCap == TwoHourSpec => []SecondariesSpaced
<1>1. TwoHourInv => SecondariesSpaced
  BY DEF TwoHourInv, DispOK, SecondariesSpaced
<1> QED BY <1>1, TwoHourInvariance, PTL

\* An accepted alert is the pending one until it leaves the dispatcher openly.
THEOREM NothingOverwritten == TwoHourSpec => []AcceptedIsPending
<1>1. TwoHourInv => AcceptedIsPending
  BY DEF TwoHourInv, DispOK, AcceptedIsPending
<1> QED BY <1>1, TwoHourInvariance, PTL

-----------------------------------------------------------------------------
(* The alerts of the minutes: what is sent between two minutes.             *)

Word == {<<>>, <<"confluence">>, <<"confluence", "five">>} \cup {<<k>> : k \in Kinds}

\* The minute is quiet as long as nothing is sent, and the 5m path may only follow a
\* confluence alert that is the only word of its own round.
WordsOK ==
    /\ sent \in Word
    /\ quiet <=> sent = <<>>
    /\ round.confluence => pc \in {"thirty", "five"} /\ sent = <<"confluence">>

\* What has been pending for a while has been proposed alone for as long.
DwellOK == pend.to # "none" => other[pend.to] >= pend.age

MinuteInv == TypeOK /\ WordsOK /\ DwellOK

\* Two one-word messages in a row.
LEMMA TwoWords == ASSUME NEW x, NEW y PROVE <<x>> \o <<y>> = <<x, y>>
<1> DEFINE t == <<x>> \o <<y>>
<1>1. t \in Seq({x, y}) /\ Len(t) = 2 /\ t[1] = x /\ t[2] = y
  OBVIOUS
<1>2. <<x, y>> \in Seq({x, y}) /\ Len(<<x, y>>) = 2
  OBVIOUS
<1> HIDE DEF t
<1>3. t = <<x, y>>
  BY <1>1, <1>2, SeqEqual
<1> QED BY <1>3 DEF t

\* What Leave appends.
LEMMA LeaveWords ==
    ASSUME MinuteInv, NEW conf \in BOOLEAN, NEW own \in BOOLEAN, NEW k \in Kinds,
           Leave(conf, own, k)
    PROVE  /\ ~conf /\ ~own => sent' = sent
           /\ ~conf /\ own => sent' = sent \o <<k>>
           /\ conf /\ ~own => sent' = sent \o <<"confluence">>
           /\ conf /\ own => sent' = (sent \o <<"confluence">>) \o <<k>>
<1>1. sent \in Seq(Kinds \cup {"confluence"})
  BY DEF MinuteInv, TypeOK
<1>2. \A w \in Seq(Kinds \cup {"confluence"}) : w \o <<>> = w
  OBVIOUS
<1>3. sent \o <<"confluence">> \in Seq(Kinds \cup {"confluence"})
  BY <1>1
<1> QED BY <1>1, <1>2, <1>3 DEF Leave

\* A path sends nothing, one word into the quiet, or the 5m alert after the confluence
\* alert of its round.
LEMMA LeaveOK ==
    ASSUME MinuteInv, NEW conf \in BOOLEAN, NEW own \in BOOLEAN, NEW k \in Kinds,
           Leave(conf, own, k),
           conf => quiet,
           own => count[k] < MaxPerHour[k],
           own => \/ quiet /\ ~conf
                  \/ k = "five" /\ (conf \/ round.confluence)
    PROVE  /\ sent' \in Word
           /\ quiet' <=> sent' = <<>>
           /\ quiet' \in BOOLEAN
           /\ sent' \in Seq(Kinds \cup {"confluence"})
           /\ ~conf /\ ~own => sent' = sent
           /\ conf /\ ~own => sent' = <<"confluence">>
           /\ sinceConf' \in 0 .. Window
           /\ since' \in [Kinds -> 0 .. CooldownCap]
           /\ count' \in [Kinds -> Nat] /\ \A j \in Kinds : count'[j] <= MaxPerHour[j]
<1>0. TypeOK /\ WordsOK
  BY DEF MinuteInv
<1>a. sinceConf' \in 0 .. Window
  BY <1>0, MinuteAssumption DEF Leave, TypeOK
<1>b. quiet' = (quiet /\ ~conf /\ ~own)
  BY DEF Leave
<1>1. /\ sinceConf' \in 0 .. Window /\ quiet' \in BOOLEAN
      /\ quiet' <=> (quiet /\ ~conf /\ ~own)
  BY <1>a, <1>b
<1>2. since' \in [Kinds -> 0 .. CooldownCap]
  BY <1>0, MinuteAssumption DEF Leave, TypeOK
<1>3. count' \in [Kinds -> Nat] /\ \A j \in Kinds : count'[j] <= MaxPerHour[j]
  BY <1>0, MinuteAssumption DEF Leave, TypeOK
<1>4. /\ \A x : <<>> \o <<x>> = <<x>>
      /\ \A x : <<x>> # <<>>
      /\ \A x, y : <<x, y>> # <<>>
  OBVIOUS
<1>5. CASE ~conf /\ ~own
  <2>1. sent' = sent
    BY <1>5, LeaveWords
  <2> QED BY <1>0, <1>1, <1>2, <1>3, <1>5, <2>1 DEF TypeOK, WordsOK
<1>6. CASE conf /\ ~own
  <2>1. sent = <<>>
    BY <1>0, <1>6 DEF WordsOK
  <2>2. sent' = <<"confluence">>
    BY <1>4, <1>6, <2>1, LeaveWords
  <2>3. sent' \in Word /\ sent' # <<>> /\ sent' \in Seq(Kinds \cup {"confluence"})
    BY <1>4, <2>2 DEF Word
  <2> QED BY <1>1, <1>2, <1>3, <1>6, <2>2, <2>3
<1>7. CASE ~conf /\ own /\ quiet
  <2>1. sent = <<>>
    BY <1>0, <1>7 DEF WordsOK
  <2>2. sent' = <<k>>
    BY <1>4, <1>7, <2>1, LeaveWords
  <2>3. sent' \in Word /\ sent' # <<>> /\ sent' \in Seq(Kinds \cup {"confluence"})
    BY <1>4, <2>2 DEF Word
  <2> QED BY <1>1, <1>2, <1>3, <1>7, <2>3
<1>8. CASE own /\ k = "five" /\ (conf \/ (~quiet /\ round.confluence))
  <2>1. sent' = <<"confluence">> \o <<"five">>
    <3>1. CASE conf
      <4>1. sent = <<>>
        BY <1>0, <3>1 DEF WordsOK
      <4> QED BY <1>4, <1>8, <3>1, <4>1, LeaveWords
    <3>2. CASE ~conf
      <4>1. sent = <<"confluence">>
        BY <1>0, <1>8, <3>2 DEF WordsOK
      <4> QED BY <1>8, <3>2, <4>1, LeaveWords
    <3> QED BY <3>1, <3>2
  <2>2. sent' = <<"confluence", "five">>
    BY <2>1, TwoWords
  <2>3. sent' \in Word /\ sent' # <<>> /\ sent' \in Seq(Kinds \cup {"confluence"})
    BY <1>4, <2>2 DEF Word, Kinds
  <2> QED BY <1>1, <1>2, <1>3, <1>8, <2>3
<1>9. \/ ~conf /\ ~own
      \/ conf /\ ~own
      \/ ~conf /\ own /\ quiet
      \/ own /\ k = "five" /\ (conf \/ (~quiet /\ round.confluence))
  OBVIOUS
<1> QED BY <1>5, <1>6, <1>7, <1>8, <1>9

\* What is proposed is a regime.
LEMMA ProposedOK ==
    ASSUME NEW current, NEW s PROVE ClassifyProposed(current, s) \in Regimes
BY DEF ClassifyProposed, Regimes

\* The dwell of a tick: a pending regime starts at zero or is the proposed one again, and
\* what is committed was pending for the dwell time.
LEMMA DwellStep ==
    ASSUME TypeOK, DwellOK, NEW proposed \in Regimes, ApplyDwell(proposed),
           other' = [r \in Regimes |-> IF r = proposed THEN other[r] ELSE 0]
    PROVE  /\ pend' \in [to : Regimes \cup {"none"}, age : 0 .. Dwell]
           /\ committed' \in Regimes
           /\ other' \in [Regimes -> 0 .. Dwell]
           /\ DwellOK'
           /\ committed' # committed => other[committed'] >= Dwell
<1>1. /\ pend \in [to : Regimes \cup {"none"}, age : 0 .. Dwell] /\ committed \in Regimes
      /\ other \in [Regimes -> 0 .. Dwell] /\ 0 \in 0 .. Dwell /\ "none" \notin Regimes
      /\ pend.to \in Regimes \cup {"none"} /\ pend.age \in 0 .. Dwell
  BY MinuteAssumption DEF TypeOK, Regimes
<1>2. other' \in [Regimes -> 0 .. Dwell] /\ other'[proposed] = other[proposed]
  BY <1>1
<1>3. CASE pend' = [to |-> "none", age |-> 0] /\ committed' = committed
  BY <1>1, <1>2, <1>3 DEF DwellOK
<1>4. CASE pend' = [to |-> proposed, age |-> 0] /\ committed' = committed
  <2>1. pend'.to = proposed /\ pend'.age = 0
    BY <1>4
  <2> QED BY <1>1, <1>2, <1>4, <2>1 DEF DwellOK
<1>5. CASE /\ pend.to = proposed /\ pend.age >= Dwell
           /\ pend' = [to |-> "none", age |-> 0] /\ committed' = proposed
  BY <1>1, <1>2, <1>5, MinuteAssumption DEF DwellOK
<1>6. CASE pend.to = proposed /\ UNCHANGED <<pend, committed>>
  BY <1>1, <1>2, <1>6 DEF DwellOK
<1> QED BY <1>3, <1>4, <1>5, <1>6 DEF ApplyDwell

\* One step per action.  Nothing but the tick and the minute touches what DwellOK speaks
\* of, nothing but the paths and the minute what WordsOK does.
LEMMA MinuteStep == MinuteInv /\ [Next]_vars => MinuteInv'
<1> SUFFICES ASSUME MinuteInv, [Next]_vars PROVE MinuteInv'
  OBVIOUS
<1>0. TypeOK /\ WordsOK /\ DwellOK
  BY DEF MinuteInv
<1>a. ASSUME UNCHANGED regimeVars PROVE DwellOK'
  BY <1>0, <1>a DEF regimeVars, DwellOK
<1>1. CASE RegimeTick
  <2>1. CASE UNCHANGED <<committed, pend, other>>
    BY <1>0, <1>1, <2>1 DEF RegimeTick, MinuteInv, TypeOK, WordsOK, DwellOK, alertVars
  <2>2. CASE \E s \in Scores :
                LET proposed == ClassifyProposed(committed, s)
                IN  /\ ApplyDwell(proposed)
                    /\ other' = [r \in Regimes |-> IF r = proposed THEN other[r] ELSE 0]
    <3>1. PICK s \in Scores :
             /\ ApplyDwell(ClassifyProposed(committed, s))
             /\ other' = [r \in Regimes |->
                              IF r = ClassifyProposed(committed, s) THEN other[r] ELSE 0]
      BY <2>2
    <3>2. ClassifyProposed(committed, s) \in Regimes
      BY ProposedOK
    <3>3. /\ pend' \in [to : Regimes \cup {"none"}, age : 0 .. Dwell]
          /\ committed' \in Regimes
          /\ other' \in [Regimes -> 0 .. Dwell]
          /\ DwellOK'
      BY <1>0, <3>1, <3>2, DwellStep
    <3> QED BY <1>0, <1>1, <3>3 DEF RegimeTick, MinuteInv, TypeOK, WordsOK, alertVars
  <2> QED BY <1>1, <2>1, <2>2 DEF RegimeTick
<1>2. ASSUME NEW confirms \in SUBSET Directions, BeginRound(confirms) PROVE MinuteInv'
  <2>1. /\ round' \in [dir : Directions \cup {"any"}, confirms : SUBSET Directions,
                        confluence : BOOLEAN]
        /\ ~round'.confluence
    BY <1>2 DEF BeginRound, NoRound
  <2>2. /\ hour' \in 0 .. Hour
        /\ count' \in [Kinds -> Nat] /\ \A k \in Kinds : count'[k] <= MaxPerHour[k]
    <3>1. CASE hour = Hour /\ hour' = 0 /\ count' = [k \in Kinds |-> 0]
      <4>1. \A k \in Kinds : count'[k] = 0 /\ 0 <= MaxPerHour[k]
        BY <3>1, MinuteAssumption
      <4>2. count' \in [Kinds -> Nat] /\ hour' \in 0 .. Hour
        BY <3>1, MinuteAssumption
      <4> QED BY <4>1, <4>2
    <3>2. CASE UNCHANGED <<hour, count>>
      BY <1>0, <3>2 DEF TypeOK
    <3> QED BY <1>2, <3>1, <3>2 DEF BeginRound
  <2> QED BY <1>0, <1>2, <1>a, <2>1, <2>2
             DEF BeginRound, MinuteInv, TypeOK, WordsOK, regimeVars
<1>3. CASE SkipRound \/ NoOneMinute
  BY <1>0, <1>3, <1>a
     DEF SkipRound, NoOneMinute, MinuteInv, TypeOK, WordsOK, regimeVars, alertVars
<1>4. ASSUME NEW find \in Finds, NEW dir \in Directions, OneMinute(find, dir)
      PROVE  MinuteInv'
  <2>1. PICK conf \in Offered(find # "noisy" /\ Confluent(Happened(dir), ev.five)) :
        \E own \in Offered(find \in {"spike", "burst"} /\ quiet
                               /\ Allowed("one", Cooldown["one"][Row])) :
           /\ ~(conf /\ own)
           /\ ev' = [ev EXCEPT !.one = [Happened(dir) EXCEPT !.used = conf]]
           /\ round' = [round EXCEPT !.dir = IF find \in {"spike", "noisy"} THEN dir
                                             ELSE "any",
                                     !.confluence = conf]
           /\ Leave(conf, own, "one")
    BY <1>4 DEF OneMinute
  <2>2. PICK own \in Offered(find \in {"spike", "burst"} /\ quiet
                               /\ Allowed("one", Cooldown["one"][Row])) :
           /\ ~(conf /\ own)
           /\ ev' = [ev EXCEPT !.one = [Happened(dir) EXCEPT !.used = conf]]
           /\ round' = [round EXCEPT !.dir = IF find \in {"spike", "noisy"} THEN dir
                                             ELSE "any",
                                     !.confluence = conf]
           /\ Leave(conf, own, "one")
    BY <2>1
  <2>3. /\ conf \in BOOLEAN /\ own \in BOOLEAN
        /\ conf => quiet
        /\ own => quiet /\ count["one"] < MaxPerHour["one"]
    BY <2>1, <2>2 DEF Offered, Confluent, Allowed
  <2>4. /\ sent' \in Word
        /\ quiet' <=> sent' = <<>>
        /\ quiet' \in BOOLEAN
        /\ sent' \in Seq(Kinds \cup {"confluence"})
        /\ conf => sent' = <<"confluence">>
        /\ sinceConf' \in 0 .. Window
        /\ since' \in [Kinds -> 0 .. CooldownCap]
        /\ count' \in [Kinds -> Nat] /\ \A j \in Kinds : count'[j] <= MaxPerHour[j]
    BY <2>2, <2>3, LeaveOK DEF Kinds
  <2>5. ev' \in [{"one", "five"} ->
                   [dir : Directions \cup {"none"}, age : 0 .. Window + 1, used : BOOLEAN]]
    <3>1. [Happened(dir) EXCEPT !.used = conf]
             \in [dir : Directions \cup {"none"}, age : 0 .. Window + 1, used : BOOLEAN]
      BY <2>3, MinuteAssumption DEF Happened
    <3> QED BY <1>0, <2>2, <3>1 DEF TypeOK
  <2>6. /\ round' \in [dir : Directions \cup {"any"}, confirms : SUBSET Directions,
                        confluence : BOOLEAN]
        /\ round'.confluence = conf
    BY <1>0, <1>4, <2>2, <2>3 DEF TypeOK, Directions
  <2> QED BY <1>0, <1>4, <1>a, <2>4, <2>5, <2>6
             DEF OneMinute, MinuteInv, TypeOK, WordsOK, regimeVars
<1>5. CASE ThirtyMinute
  <2>1. PICK own \in Offered(quiet /\ Allowed("thirty", Cooldown["thirty"][Row])) :
           Leave(FALSE, own, "thirty")
    BY <1>5 DEF ThirtyMinute
  <2>2. own \in BOOLEAN /\ (own => quiet /\ count["thirty"] < MaxPerHour["thirty"])
    BY <2>1 DEF Offered, Allowed
  <2>3. /\ sent' \in Word
        /\ quiet' <=> sent' = <<>>
        /\ quiet' \in BOOLEAN
        /\ sent' \in Seq(Kinds \cup {"confluence"})
        /\ ~own => sent' = sent
        /\ sinceConf' \in 0 .. Window
        /\ since' \in [Kinds -> 0 .. CooldownCap]
        /\ count' \in [Kinds -> Nat] /\ \A j \in Kinds : count'[j] <= MaxPerHour[j]
    BY <2>1, <2>2, LeaveOK DEF Kinds
  <2>4. ASSUME round.confluence PROVE sent' = <<"confluence">>
    <3>1. sent = <<"confluence">> /\ ~quiet
      BY <1>0, <2>4 DEF WordsOK
    <3> QED BY <2>2, <2>3, <3>1
  <2> QED BY <1>0, <1>5, <1>a, <2>3, <2>4
             DEF ThirtyMinute, MinuteInv, TypeOK, WordsOK, regimeVars
<1>6. ASSUME NEW dir \in Directions, NEW night \in BOOLEAN, FiveMinute(dir, night)
      PROVE  MinuteInv'
  <2> DEFINE cooldown == IF night THEN NightCooldown[Row] ELSE Cooldown["five"][Row]
  <2>1. PICK conf \in Offered(Confluent(ev.one, Happened(dir))) :
        \E matches \in BOOLEAN :
           \E own \in Offered(/\ round.confluence \/ conf \/ quiet
                              /\ ~night \/ matches
                              /\ Allowed("five", cooldown)) :
              /\ ev' = [one |-> [ev.one EXCEPT !.used = @ \/ conf], five |-> Happened(dir)]
              /\ Leave(conf, own, "five")
    BY <1>6 DEF FiveMinute
  <2>2. PICK matches \in BOOLEAN :
           \E own \in Offered(/\ round.confluence \/ conf \/ quiet
                              /\ ~night \/ matches
                              /\ Allowed("five", cooldown)) :
              /\ ev' = [one |-> [ev.one EXCEPT !.used = @ \/ conf], five |-> Happened(dir)]
              /\ Leave(conf, own, "five")
    BY <2>1
  <2>3. PICK own \in Offered(/\ round.confluence \/ conf \/ quiet
                             /\ ~night \/ matches
                             /\ Allowed("five", cooldown)) :
              /\ ev' = [one |-> [ev.one EXCEPT !.used = @ \/ conf], five |-> Happened(dir)]
              /\ Leave(conf, own, "five")
    BY <2>2
  <2>4. /\ conf \in BOOLEAN /\ own \in BOOLEAN
        /\ conf => quiet
        /\ own => (\/ quiet /\ ~conf
                   \/ conf \/ round.confluence) /\ count["five"] < MaxPerHour["five"]
    BY <2>1, <2>3 DEF Offered, Confluent, Allowed
  <2>5. /\ sent' \in Word
        /\ quiet' <=> sent' = <<>>
        /\ quiet' \in BOOLEAN
        /\ sent' \in Seq(Kinds \cup {"confluence"})
        /\ sinceConf' \in 0 .. Window
        /\ since' \in [Kinds -> 0 .. CooldownCap]
        /\ count' \in [Kinds -> Nat] /\ \A j \in Kinds : count'[j] <= MaxPerHour[j]
    BY <2>3, <2>4, LeaveOK DEF Kinds
  <2>6. ev' \in [{"one", "five"} ->
                   [dir : Directions \cup {"none"}, age : 0 .. Window + 1, used : BOOLEAN]]
    <3> DEFINE Event == [dir : Directions \cup {"none"}, age : 0 .. Window + 1,
                         used : BOOLEAN]
    <3>1. Happened(dir) \in Event
      BY MinuteAssumption DEF Happened
    <3>2. [ev.one EXCEPT !.used = @ \/ conf] \in Event
      BY <1>0, <2>4 DEF TypeOK
    <3> HIDE DEF Event
    <3>3. ev' \in [{"one", "five"} -> Event]
      BY <2>3, <3>1, <3>2
    <3> QED BY <3>3 DEF Event
  <2>7. /\ NoRound \in [dir : Directions \cup {"any"}, confirms : SUBSET Directions,
                         confluence : BOOLEAN]
        /\ ~NoRound.confluence
    BY DEF NoRound
  <2> QED BY <1>0, <1>6, <1>a, <2>5, <2>6, <2>7
             DEF FiveMinute, MinuteInv, TypeOK, WordsOK, regimeVars
<1>7. CASE NoFiveMinute
  <2>1. /\ NoRound \in [dir : Directions \cup {"any"}, confirms : SUBSET Directions,
                         confluence : BOOLEAN]
        /\ ~NoRound.confluence
    BY DEF NoRound
  <2> QED BY <1>0, <1>7, <1>a, <2>1
             DEF NoFiveMinute, MinuteInv, TypeOK, WordsOK, regimeVars
<1>8. CASE Toggle
  BY <1>0, <1>8 DEF Toggle, MinuteInv, TypeOK, WordsOK, DwellOK, alertVars
<1>9. CASE Minute
  <2>1. \A cap \in Nat : \A n \in 0 .. cap : Older(n, cap) \in 0 .. cap /\ Older(n, cap) >= n
    BY DEF Older
  <2>2. ev' \in [{"one", "five"} ->
                   [dir : Directions \cup {"none"}, age : 0 .. Window + 1, used : BOOLEAN]]
    <3>1. Window + 1 \in Nat
      BY MinuteAssumption
    <3>2. DOMAIN ev = {"one", "five"}
      BY <1>0 DEF TypeOK
    <3>3. \A e \in {"one", "five"} : [ev[e] EXCEPT !.age = Older(@, Window + 1)]
             \in [dir : Directions \cup {"none"}, age : 0 .. Window + 1, used : BOOLEAN]
      BY <1>0, <2>1, <3>1 DEF TypeOK
    <3> QED BY <1>9, <3>2, <3>3 DEF Minute
  <2>3. /\ since' \in [Kinds -> 0 .. CooldownCap] /\ sinceConf' \in 0 .. Window
        /\ hour' \in 0 .. Hour
    BY <1>0, <1>9, <2>1, MinuteAssumption DEF Minute, TypeOK
  <2>4. /\ pend' \in [to : Regimes \cup {"none"}, age : 0 .. Dwell]
        /\ other' \in [Regimes -> 0 .. Dwell]
    <3>1. \A r \in Regimes : Older(other[r], Dwell) \in 0 .. Dwell
      BY <1>0, <2>1, MinuteAssumption DEF TypeOK
    <3>2. (IF pend.to = "none" THEN 0 ELSE Older(pend.age, Dwell)) \in 0 .. Dwell
      BY <1>0, <2>1, MinuteAssumption DEF TypeOK
    <3> QED BY <1>0, <1>9, <3>1, <3>2 DEF Minute, TypeOK
  <2>5. DwellOK'
    <3>1. pend' = [pend EXCEPT !.age = IF pend.to = "none" THEN 0 ELSE Older(@, Dwell)]
      BY <1>9 DEF Minute
    <3>2. pend'.to = pend.to /\ (pend.to # "none" => pend'.age = Older(pend.age, Dwell))
      BY <1>0, <3>1 DEF TypeOK
    <3>3. ASSUME pend.to # "none" PROVE other'[pend.to] >= pend'.age
      <4>1. pend.to \in Regimes /\ pend.age \in 0 .. Dwell /\ other[pend.to] \in 0 .. Dwell
            /\ other[pend.to] >= pend.age
        BY <1>0, <3>3 DEF TypeOK, DwellOK
      <4>2. other'[pend.to] = Older(other[pend.to], Dwell)
        BY <1>9, <4>1 DEF Minute
      <4> QED BY <3>2, <3>3, <4>1, <4>2, MinuteAssumption DEF Older
    <3> QED BY <3>2, <3>3 DEF DwellOK
  <2>6. sent' = <<>> /\ sent' \in Word /\ sent' \in Seq(Kinds \cup {"confluence"}) /\ quiet'
        /\ quiet' \in BOOLEAN
    BY <1>9 DEF Minute, Word
  <2>7. ~round'.confluence
    BY <1>0, <1>9 DEF Minute, WordsOK
  <2> QED BY <1>0, <1>9, <2>2, <2>3, <2>4, <2>5, <2>6, <2>7
             DEF Minute, MinuteInv, TypeOK, WordsOK
<1>10. CASE UNCHANGED vars
  BY <1>0, <1>10 DEF vars, MinuteInv, TypeOK, WordsOK, DwellOK, alertVars, regimeVars
<1> QED BY <1>1, <1>2, <1>3, <1>4, <1>5, <1>6, <1>7, <1>8, <1>9, <1>10 DEF Next

\* The invariant of the minutes holds in every reachable state.
LEMMA MinuteInvariance == Spec => []MinuteInv
<1>1. ASSUME Init PROVE MinuteInv
  <2>1. /\ NoRound \in [dir : Directions \cup {"any"}, confirms : SUBSET Directions,
                         confluence : BOOLEAN]
        /\ ~NoRound.confluence
    BY DEF NoRound
  <2>2. NoEvent \in [dir : Directions \cup {"none"}, age : 0 .. Window + 1, used : BOOLEAN]
    BY MinuteAssumption DEF NoEvent
  <2>3. /\ since \in [Kinds -> 0 .. CooldownCap] /\ sinceConf \in 0 .. Window
        /\ hour \in 0 .. Hour
        /\ count \in [Kinds -> Nat] /\ \A k \in Kinds : count[k] <= MaxPerHour[k]
    BY <1>1, MinuteAssumption DEF Init
  <2>4. /\ pend \in [to : Regimes \cup {"none"}, age : 0 .. Dwell] /\ pend.to = "none"
        /\ other \in [Regimes -> 0 .. Dwell] /\ committed \in Regimes
    BY <1>1, MinuteAssumption DEF Init, Regimes
  <2>5. sent = <<>> /\ sent \in Word /\ sent \in Seq(Kinds \cup {"confluence"})
    BY <1>1 DEF Init, Word
  <2>6. ev \in [{"one", "five"} ->
                  [dir : Directions \cup {"none"}, age : 0 .. Window + 1, used : BOOLEAN]]
    BY <1>1, <2>2 DEF Init
  <2> QED BY <1>1, <2>1, <2>3, <2>4, <2>5, <2>6
             DEF Init, MinuteInv, TypeOK, WordsOK, DwellOK
<1> QED BY <1>1, MinuteStep, PTL DEF Spec

\* The events, the cooldowns, the counters and the regime keep their types.
THEOREM MinuteTypes == Spec => []TypeOK
<1>1. MinuteInv => TypeOK
  BY DEF MinuteInv
<1> QED BY <1>1, MinuteInvariance, PTL

\* One alert leaves in a minute, or a confluence alert and the 5m alert of its round.
THEOREM OneVoice == Spec => []OneWordPerMinute
<1>1. \A x : Len(<<x>>) <= 1 /\ Len(<<>>) <= 1
  OBVIOUS
<1>2. MinuteInv => OneWordPerMinute
  BY <1>1 DEF MinuteInv, WordsOK, Word, OneWordPerMinute
<1> QED BY <1>2, MinuteInvariance, PTL

\* A word that Leave adds and that is "confluence" is its confluence alert.
LEMMA NewWord ==
    ASSUME MinuteInv, NEW conf \in BOOLEAN, NEW own \in BOOLEAN, NEW k \in Kinds,
           Leave(conf, own, k), Len(sent') > Len(sent),
           sent'[Len(sent) + 1] = "confluence"
    PROVE  conf
<1>1. sent \in Seq(Kinds \cup {"confluence"}) /\ k # "confluence"
  BY DEF MinuteInv, TypeOK, Kinds
<1>2. ASSUME ~conf PROVE FALSE
  <2>1. CASE ~own
    <3>1. sent' = sent
      BY <1>2, <2>1, LeaveWords
    <3>2. Len(sent) \in Nat
      BY <1>1
    <3> QED BY <3>1, <3>2
  <2>2. CASE own
    <3>1. sent' = sent \o <<k>>
      BY <1>2, <2>2, LeaveWords
    <3>2. (sent \o <<k>>)[Len(sent) + 1] = k
      BY <1>1
    <3> QED BY <1>1, <3>1, <3>2
  <2> QED BY <2>1, <2>2
<1> QED BY <1>2

\* Both events of a confluence alert are recent when it is sent: one of them has just
\* happened, and the other is within the window of it.
THEOREM ConfluenceTimely == Spec => ConfluenceIsFresh
<1>1. ASSUME MinuteInv, [Next]_vars, Len(sent') > Len(sent),
             sent'[Len(sent) + 1] = "confluence"
      PROVE  ev'.one.age <= Window /\ ev'.five.age <= Window
  <2>0. /\ TypeOK /\ sent \in Seq(Kinds \cup {"confluence"})
        /\ ev.one.age \in 0 .. Window + 1 /\ ev.five.age \in 0 .. Window + 1
        /\ ev.one \in [dir : Directions \cup {"none"}, age : 0 .. Window + 1, used : BOOLEAN]
    BY <1>1 DEF MinuteInv, TypeOK
  <2>1. sent' # sent /\ sent' # <<>>
    BY <1>1, <2>0
  <2>2. ASSUME NEW find \in Finds, NEW dir \in Directions, OneMinute(find, dir)
        PROVE  ev'.one.age <= Window /\ ev'.five.age <= Window
    <3>1. PICK conf \in Offered(find # "noisy" /\ Confluent(Happened(dir), ev.five)) :
          \E own \in Offered(find \in {"spike", "burst"} /\ quiet
                                 /\ Allowed("one", Cooldown["one"][Row])) :
             /\ ev' = [ev EXCEPT !.one = [Happened(dir) EXCEPT !.used = conf]]
             /\ Leave(conf, own, "one")
      BY <2>2 DEF OneMinute
    <3>2. PICK own \in Offered(find \in {"spike", "burst"} /\ quiet
                                 /\ Allowed("one", Cooldown["one"][Row])) :
             /\ ev' = [ev EXCEPT !.one = [Happened(dir) EXCEPT !.used = conf]]
             /\ Leave(conf, own, "one")
      BY <3>1
    <3>3. conf
      BY <1>1, <3>2, NewWord DEF Offered, Kinds
    <3>4. Apart(Happened(dir), ev.five) <= Window
      BY <3>1, <3>3 DEF Offered, Confluent
    <3>5. ev'.one.age = 0 /\ ev'.five = ev.five
      BY <2>0, <3>2 DEF TypeOK, Happened
    <3>6. ev.five.age <= Window
      BY <2>0, <3>4, MinuteAssumption DEF Apart, Happened
    <3> QED BY <3>5, <3>6, MinuteAssumption
  <2>3. ASSUME ThirtyMinute PROVE FALSE
    <3>1. PICK own \in Offered(quiet /\ Allowed("thirty", Cooldown["thirty"][Row])) :
             Leave(FALSE, own, "thirty")
      BY <2>3 DEF ThirtyMinute
    <3> QED BY <1>1, <3>1, NewWord DEF Offered, Kinds
  <2>4. ASSUME NEW dir \in Directions, NEW night \in BOOLEAN, FiveMinute(dir, night)
        PROVE  ev'.one.age <= Window /\ ev'.five.age <= Window
    <3> DEFINE cooldown == IF night THEN NightCooldown[Row] ELSE Cooldown["five"][Row]
    <3>1. PICK conf \in Offered(Confluent(ev.one, Happened(dir))) :
          \E matches \in BOOLEAN :
             \E own \in Offered(/\ round.confluence \/ conf \/ quiet
                                /\ ~night \/ matches
                                /\ Allowed("five", cooldown)) :
                /\ ev' = [one |-> [ev.one EXCEPT !.used = @ \/ conf], five |-> Happened(dir)]
                /\ Leave(conf, own, "five")
      BY <2>4 DEF FiveMinute
    <3>2. PICK own \in BOOLEAN :
                /\ ev' = [one |-> [ev.one EXCEPT !.used = @ \/ conf], five |-> Happened(dir)]
                /\ Leave(conf, own, "five")
      BY <3>1 DEF Offered
    <3>3. conf
      BY <1>1, <3>2, NewWord DEF Offered, Kinds
    <3>4. Apart(ev.one, Happened(dir)) <= Window
      BY <3>1, <3>3 DEF Offered, Confluent
    <3>5. ev'.one.age = ev.one.age /\ ev'.five.age = 0
      BY <2>0, <3>2 DEF Happened
    <3>6. ev.one.age <= Window
      BY <2>0, <3>4, MinuteAssumption DEF Apart, Happened
    <3> QED BY <3>5, <3>6, MinuteAssumption
  <2>5. ~UNCHANGED alertVars /\ ~UNCHANGED vars /\ ~NoFiveMinute /\ ~Minute
    BY <2>1 DEF alertVars, vars, NoFiveMinute, Minute
  <2>6. \A confirms \in SUBSET Directions : ~BeginRound(confirms)
    BY <2>1 DEF BeginRound
  <2> QED BY <1>1, <2>2, <2>3, <2>4, <2>5, <2>6
             DEF Next, RegimeTick, SkipRound, NoOneMinute, Toggle
<1>2. MinuteInv /\ [Next]_vars
        => [Len(sent') > Len(sent) /\ sent'[Len(sent) + 1] = "confluence"
              => ev'.one.age <= Window /\ ev'.five.age <= Window]_vars
  BY <1>1
<1> QED BY <1>2, MinuteInvariance, PTL DEF Spec, ConfluenceIsFresh

\* A regime is committed only when nothing else was proposed for the dwell time.
THEOREM RegimeSteady == Spec => RegimeDwells
<1>1. ASSUME MinuteInv, [Next]_vars, committed' # committed
      PROVE  other[committed'] >= Dwell
  <2>1. RegimeTick
    BY <1>1 DEF Next, vars, regimeVars, BeginRound, SkipRound, OneMinute, NoOneMinute,
       ThirtyMinute, FiveMinute, NoFiveMinute, Toggle, Minute
  <2>2. PICK s \in Scores :
             /\ ApplyDwell(ClassifyProposed(committed, s))
             /\ other' = [r \in Regimes |->
                              IF r = ClassifyProposed(committed, s) THEN other[r] ELSE 0]
    BY <1>1, <2>1 DEF RegimeTick
  <2>3. ClassifyProposed(committed, s) \in Regimes
    BY ProposedOK
  <2> QED BY <1>1, <2>2, <2>3, DwellStep DEF MinuteInv
<1>2. MinuteInv /\ [Next]_vars
        => [committed' # committed => other[committed'] >= Dwell]_vars
  BY <1>1
<1> QED BY <1>2, MinuteInvariance, PTL DEF Spec, RegimeDwells
=============================================================================
