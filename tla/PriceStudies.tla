---------------------------- MODULE PriceStudies ----------------------------
(***************************************************************************)
(* The studies an operator reads next to the scores: pivots, fair value    *)
(* gaps, candle range theory, Gann cycles, gap fades (analytical_core) and *)
(* the opening range (analytical_core/backtest/orb.py).                    *)
(***************************************************************************)
EXTENDS Indicators

CONSTANTS
    Fvg,    \* swing, window, scan, max, minBp
    Crt,    \* scan, midPct, retestPct, strongPct, volPct
    Gann,   \* lookback, cycles, tol, horizon
    Fade,   \* gapBp, changeBp, box, bufferBp, search
    Orb,    \* rangeEnd, breakStart, breakEnd, until, targets (in percent of the range)
    Dates,  \* the trading days there may be, by the place of their bar
    NoRead

-----------------------------------------------------------------------------
(* pivots.py, in sixths of a point                                         *)

Pivots(b) ==
    LET p == 2 * (b.high + b.low + b.close)
        bc == 3 * (b.high + b.low)
        tc == 2 * p - bc
        range == 6 * Height(b)
    IN  [pivot |-> p, top |-> Max({tc, bc}), bottom |-> Min({tc, bc}),
         r |-> <<2 * p - 6 * b.low, p + range, 6 * b.high + 2 * (p - 6 * b.low)>>,
         s |-> <<2 * p - 6 * b.high, p - range, 6 * b.low - 2 * (6 * b.high - p)>>]
CprRelation(now, prev) ==
    CASE now.top = prev.top /\ now.bottom = prev.bottom -> "UNCHANGED"
      [] OTHER -> IF now.bottom >= prev.top THEN "HIGHER_VALUE"
                  ELSE IF now.top <= prev.bottom THEN "LOWER_VALUE"
                  ELSE IF now.top <= prev.top /\ now.bottom >= prev.bottom THEN "INSIDE_VALUE"
                  ELSE IF now.top >= prev.top /\ now.bottom <= prev.bottom THEN "OUTSIDE_VALUE"
                  ELSE "OVERLAPPING"

-----------------------------------------------------------------------------
(* fvg.py                                                                  *)

NoGap == [top |-> 0, bottom |-> 0]
BullGap(bars, i) ==
    IF i >= 3 /\ bars[i].low > bars[i - 2].high THEN [top |-> bars[i].low, bottom |-> bars[i - 2].high] ELSE NoGap
BearGap(bars, i) ==
    IF i >= 3 /\ bars[i].high < bars[i - 2].low THEN [top |-> bars[i - 2].low, bottom |-> bars[i].high] ELSE NoGap

\* _state: what price has done to the gap after it first rotated clear of it.
GapState(bars, gap, resistance, after) ==
    LET Clear(b) == IF resistance THEN b.high < gap.bottom ELSE b.low > gap.top
        Wick(b) == IF resistance THEN b.high > gap.top ELSE b.low < gap.bottom
        Shut(b) == IF resistance THEN b.close > gap.top ELSE b.close < gap.bottom
        tests == {i \in after..Len(bars) : /\ bars[i].low <= gap.top /\ bars[i].high >= gap.bottom
                                           /\ \E j \in after..i : Clear(bars[j])}
    IN  IF \E i \in tests : Shut(bars[i]) THEN "BREACHED"
        ELSE IF tests = {} THEN "PRIMED"
        ELSE IF \E i \in tests : Wick(bars[i]) THEN "RESPECTED" ELSE "TESTED"

\* The gaps left behind on the leg into the swings of one side.
GapsInto(bars, swings, side) ==
    LET n == Len(bars)
        Gap(j) == IF side = "HIGH" THEN BullGap(bars, j) ELSE BearGap(bars, j)
        Left(s, gap) == IF side = "HIGH" THEN bars[s].high > gap.top ELSE bars[s].low < gap.bottom
        recent == {s \in swings : s > n - Fvg.scan}
        legs == UNION {{<<j, s>> : j \in {i \in Max({1, s - Fvg.window})..(s - 1) : Gap(i) # NoGap}} : s \in recent}
        Thick(gap) == 10000 * (gap.top - gap.bottom) >= Fvg.minBp * bars[n].close
    IN  {[side |-> side, formed |-> x[1], swing |-> x[2], top |-> Gap(x[1]).top, bottom |-> Gap(x[1]).bottom,
          state |-> GapState(bars, Gap(x[1]), side = "HIGH", x[2] + 1)] :
         x \in {y \in legs : Left(y[2], Gap(y[1])) /\ Thick(Gap(y[1]))}}

\* Of identical gaps into a swing the last formed.
UniqGaps(gaps) ==
    LET zone(f) == <<f.top, f.bottom, f.swing>>
    IN  {f \in gaps : ~\E g \in gaps : zone(g) = zone(f) /\ g.formed > f.formed}
NewestGaps(gaps) ==
    LET newer(f) == {g \in gaps : g.swing > f.swing \/ (g.swing = f.swing /\ g.formed > f.formed)}
    IN  {f \in gaps : Cardinality(newer(f)) < Fvg.max}
SwingFvgs(bars) ==
    IF Len(bars) < 2 * Fvg.swing + 5 THEN {}
    ELSE NewestGaps(UniqGaps(GapsInto(bars, SwingHighs(bars, Fvg.swing), "HIGH")
                             \cup GapsInto(bars, SwingLows(bars, Fvg.swing), "LOW")))

\* What the gap nearest to the price, if any, acts as now.  The distance of a
\* gap the price is outside of is taken to its far edge.
FvgBias(bars, gaps) ==
    LET last == bars[Len(bars)].close
        active == {f \in gaps : f.state # "BREACHED"}
        above == {f \in active : f.bottom > last}
        below == {f \in active : f.top < last}
        inside == active \ (above \cup below)
        up == CHOOSE f \in above : \A g \in above : f.bottom <= g.bottom
        down == CHOOSE f \in below : \A g \in below : f.top >= g.top
        newest == CHOOSE f \in inside : \A g \in inside : <<f.swing, f.formed>> = <<g.swing, g.formed>>
                                     \/ f.swing > g.swing \/ (f.swing = g.swing /\ f.formed > g.formed)
        Acts(f) == IF f.side = "HIGH" THEN "BEARISH" ELSE "BULLISH"
    IN  IF inside # {} THEN Acts(newest)
        ELSE IF active = {} THEN "NEUTRAL"
        ELSE IF below = {} THEN Acts(up)
        ELSE IF above = {} THEN Acts(down)
        ELSE IF up.top - last <= last - down.bottom THEN Acts(up) ELSE Acts(down)

-----------------------------------------------------------------------------
(* crt.py                                                                  *)

\* The first bar after the reference to leave its range; who spans it and
\* closes inside ends the search.
CrtBreak(bars, ref) ==
    LET hi(i) == bars[i].high > bars[ref].high
        lo(i) == bars[i].low < bars[ref].low
        out == {i \in (ref + 1)..Len(bars) : hi(i) \/ lo(i)}
        at == Min(out)
        up == IF hi(at) /\ lo(at) THEN bars[at].close > bars[ref].high ELSE hi(at)
        down == IF hi(at) /\ lo(at) THEN bars[at].close < bars[ref].low ELSE lo(at)
    IN  IF out = {} \/ ~(up \/ down) THEN [at |-> NoTime, side |-> "NONE"]
        ELSE [at |-> at, side |-> IF up THEN "HIGH" ELSE "LOW"]

\* What the newest bar says of the range of the reference and of its break.
CrtOf(bars, ref, break) ==
    LET n == Len(bars)
        high == bars[ref].high
        low == bars[ref].low
        range == high - low
        close == bars[n].close
        up == break.side = "HIGH"
        outside == IF up THEN close > high ELSE close < low
        near(i) == IF up THEN 100 * bars[i].low <= 100 * high + Crt.retestPct * range
                   ELSE 100 * bars[i].high >= 100 * low - Crt.retestPct * range
        far == IF up THEN Max({bars[i].high : i \in break.at..n}) - high
               ELSE low - Min({bars[i].low : i \in break.at..n})
        others == {i \in ref..n : i # break.at}
        traded == MapThenSumSet(LAMBDA i : bars[i].vol, others)
        strong == range > 0 /\ 100 * far >= Crt.strongPct * range
        inside == ref > 1 /\ high <= bars[ref - 1].high /\ low >= bars[ref - 1].low
    IN  [position |-> IF close > high THEN "ABOVE_HIGH" ELSE IF close < low THEN "BELOW_LOW"
                      ELSE IF 50 * Abs(2 * close - high - low) <= Crt.midPct * range THEN "AT_MIDPOINT" ELSE "INSIDE",
         side |-> break.side, at |-> break.at, outside |-> break.side # "NONE" /\ outside,
         holds |-> break.side # "NONE" /\ outside /\ (IF up THEN bars[n].low >= high ELSE bars[n].high <= low),
         retested |-> break.side # "NONE" /\ outside /\ \E i \in (break.at + 1)..n : near(i),
         volume |-> IF break.side = "NONE" \/ traded = 0 THEN NoRead
                    ELSE 100 * bars[break.at].vol * Cardinality(others) >= Crt.volPct * traded,
         signal |-> CASE break.side = "NONE" -> IF inside THEN "COMPRESSION" ELSE "NEUTRAL"
                      [] break.side = "HIGH" -> IF ~outside THEN "HIGH_REJECTION"
                           ELSE IF strong THEN "RANGE_EXPANSION_UP" ELSE "BULLISH_CONTINUATION"
                      [] break.side = "LOW" -> IF ~outside THEN "LOW_REJECTION"
                           ELSE IF strong THEN "RANGE_EXPANSION_DOWN" ELSE "BEARISH_CONTINUATION"]
CrtRead(bars) ==
    LET ref == Len(bars) - Crt.scan
    IN  IF ref < 1 THEN NoRead ELSE CrtOf(bars, ref, CrtBreak(bars, ref))

-----------------------------------------------------------------------------
(* gann_cycles.py, a bar a day                                             *)

GannAnchors(bars) ==
    LET window == Max({1, Len(bars) - Gann.lookback + 1})..Len(bars)
    IN  [low |-> Min({i \in window : \A j \in window : bars[i].low <= bars[j].low}),
         high |-> Min({i \in window : \A j \in window : bars[i].high >= bars[j].high})]

\* The dates within the horizon of today, each with the anchor and the count it
\* comes from, and the first session on or after it that has a bar.
Projections(bars, today) ==
    LET anchors == GannAnchors(bars)
        all == {[anchor |-> a, days |-> d, anchorAt |-> anchors[a], date |-> Dates[anchors[a]] + d] : a \in {"low", "high"}, d \in Gann.cycles}
        reached(x) == {i \in DOMAIN bars : Dates[i] >= x.date}
    IN  IF Len(bars) < 5 THEN {}
        ELSE {x @@ [resolved |-> IF reached(x) = {} THEN NoTime ELSE Min(reached(x))] :
              x \in {y \in all : Abs(y.date - today) <= Gann.horizon}}

\* Whatever lies within the tolerance of the date that opened the group joins it.
Clusters(projections) ==
    LET dates == {x.date : x \in projections}
        within(d) == {x \in projections : d <= x.date /\ x.date <= d + Gann.tol}
        opens == FoldLeft(LAMBDA open, d : IF d \in dates /\ \A o \in open : d > o + Gann.tol THEN open \cup {d} ELSE open,
                          {}, [d \in 1..Max({0} \cup dates) |-> d])
    IN  {within(d) : d \in {o \in opens : Cardinality(within(o)) >= 2}}

-----------------------------------------------------------------------------
(* gap_fade_study.py                                                       *)

FadeSide(bars, i) ==
    LET prior == bars[i - 1].close
        gap == 10000 * (bars[i].open - prior)
        change == 10000 * (bars[i].close - prior)
    IN  IF gap >= Fade.gapBp * prior /\ change <= -(Fade.changeBp * prior) THEN "UP"
        ELSE IF gap <= -(Fade.gapBp * prior) /\ change >= Fade.changeBp * prior THEN "DOWN" ELSE "NONE"

\* Where the streak of the event at i ends, past the series if it goes on.
StreakEnd(bars, i, side) ==
    LET Ends(j) == IF side = "UP" THEN bars[j].close >= bars[j - 1].close ELSE bars[j].close <= bars[j - 1].close
    IN  Min({Len(bars) + 1} \cup {j \in (i + 1)..Len(bars) : Ends(j)})

\* What followed a streak that ended at start: the box, the first close beyond it.
FadeFrom(bars, event, start) ==
    LET n == Len(bars)
        box == start..(start + Fade.box - 1)
        high == Max({bars[j].high : j \in box})
        low == Min({bars[j].low : j \in box})
        Above(j) == 10000 * bars[j].close > (10000 + Fade.bufferBp) * high
        Below(j) == 10000 * bars[j].close < (10000 - Fade.bufferBp) * low
        search == (start + Fade.box)..Min({start + Fade.box + Fade.search - 1, n})
        out == {j \in search : Above(j) \/ Below(j)}
    IN  IF start > n THEN event @@ [status |-> "STREAK_ONGOING", box |-> NoRead, days |-> 0]
        ELSE IF start + Fade.box - 1 > n THEN event @@ [status |-> "INSUFFICIENT_BOX_DATA", box |-> NoRead, days |-> 0]
        ELSE IF out = {} THEN event @@ [status |-> "CONSOLIDATING", box |-> <<low, high>>,
                                        days |-> Min({start + Fade.box + Fade.search, n + 1}) - start]
        ELSE event @@ [status |-> IF Above(Min(out)) THEN "BREAKOUT_UP" ELSE "BREAKOUT_DOWN",
                       box |-> <<low, high>>, days |-> Min(out) - start]
FadeAt(bars, i, side, start) == FadeFrom(bars, [at |-> i, side |-> side, streak |-> start - i], start)
FadeOf(bars, i) == FadeAt(bars, i, FadeSide(bars, i), StreakEnd(bars, i, FadeSide(bars, i)))
Fades(bars) ==
    IF Len(bars) < Fade.box + 2 THEN {}
    ELSE {FadeOf(bars, i) : i \in {j \in 2..Len(bars) : FadeSide(bars, j) # "NONE"}}

-----------------------------------------------------------------------------
(* backtest/orb.py, the bars of one day                                    *)

\* The first close at or beyond an edge of the opening range within the breakout
\* window, which may start some time after the range is over; a first bar of the
\* window that opens beyond the edge and stays there breaks at once.
OrbBreak(bars, high, low) ==
    LET window == Orb.breakStart..Min({Orb.breakEnd, Len(bars)})
        first == bars[Orb.breakStart]
        closes == {i \in window : bars[i].close >= high \/ bars[i].close <= low}
        at == Min(closes)
        Break(side, i, immediate) == [side |-> side, at |-> i, immediate |-> immediate]
    IN  IF window = {} THEN Break("NONE", NoTime, FALSE)
        ELSE IF first.open > high /\ first.close >= high THEN Break("LONG", Orb.breakStart, TRUE)
        ELSE IF first.open < low /\ first.close <= low THEN Break("SHORT", Orb.breakStart, TRUE)
        ELSE IF closes = {} THEN Break("NONE", NoTime, FALSE)
        ELSE Break(IF bars[at].close >= high THEN "LONG" ELSE "SHORT", at, FALSE)

\* From the break on, the targets reached before the opposite edge and how far
\* price went for and against the break.
OrbPath(bars, high, low, break) ==
    LET long == break.side = "LONG"
        path == break.at..Min({Orb.until, Len(bars)})
        stops == {i \in path : IF long THEN bars[i].low <= low ELSE bars[i].high >= high}
        stop == IF stops = {} THEN NoTime ELSE Min(stops)
        walked == {i \in path : \A j \in stops : i <= j}
        alive == walked \ {stop}
        For(i) == IF long THEN bars[i].high - high ELSE low - bars[i].low
        Against(i) == IF long THEN high - bars[i].low ELSE bars[i].high - low
        Reaches(i, m) == 100 * For(i) >= m * (high - low)
    IN  IF break.side = "NONE"
        THEN [side |-> "NONE", at |-> NoTime, stop |-> NoTime, immediate |-> FALSE, hits |-> {}, size |-> high - low, far |-> 0, near |-> 0]
        ELSE [side |-> break.side, at |-> break.at, stop |-> stop, immediate |-> break.immediate,
              hits |-> {<<m, Min({i \in alive : Reaches(i, m)})>> : m \in {t \in Orb.targets : \E i \in alive : Reaches(i, t)}},
              size |-> high - low, far |-> Max({0} \cup {For(i) : i \in walked}), near |-> Max({0} \cup {Against(i) : i \in walked})]

\* _day
OrbRanged(bars, high, low) == IF high <= low THEN NoRead ELSE OrbPath(bars, high, low, OrbBreak(bars, high, low))
OrbDay(bars) ==
    LET opening == 1..Min({Orb.rangeEnd, Len(bars)})
    IN  IF bars = <<>> THEN NoRead
        ELSE OrbRanged(bars, Max({bars[i].high : i \in opening}), Min({bars[i].low : i \in opening}))

\* OrbConfig.validate.
OrbValid ==
    /\ 1 <= Orb.rangeEnd /\ Orb.rangeEnd + 1 <= Orb.breakEnd
    /\ 1 <= Orb.breakStart /\ Orb.breakStart <= Orb.breakEnd /\ Orb.breakStart <= Orb.until
    /\ Orb.targets # {} /\ \A m \in Orb.targets : m > 0

\* What the days add up to.
OrbSums(results) ==
    LET ranged == SelectSeq(results, LAMBDA r : r # NoRead)
        broke == SelectSeq(ranged, LAMBDA r : r.side # "NONE")
        Count(Test(_)) == Len(SelectSeq(broke, Test))
        Hits(m) == Count(LAMBDA r : \E x \in r.hits : x[1] = m)
    IN  [days |-> Len(results), ranged |-> Len(ranged), broke |-> Len(broke),
         sides |-> [side \in {"LONG", "SHORT"} |-> Count(LAMBDA r : r.side = side)],
         immediate |-> Count(LAMBDA r : r.immediate), stopped |-> Count(LAMBDA r : r.stop # NoTime),
         hits |-> {<<m, Hits(m)>> : m \in Orb.targets}]

\* run_orb: each day on its own.
OrbRun(days) ==
    IF OrbValid THEN OrbSums(FoldLeft(LAMBDA s, day : Append(s, OrbDay(day)), <<>>, days)) ELSE NoRead
=============================================================================
