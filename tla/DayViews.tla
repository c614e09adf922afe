------------------------------ MODULE DayViews ------------------------------
(***************************************************************************)
(* The views the API computes on read from stored bars                     *)
(* (app/api/services.py) and from stored sessions                          *)
(* (market_profile/levels.py): what they select, fold and compare.         *)
(***************************************************************************)
EXTENDS Scoring

CONSTANTS
    Cal,    \* days in a week, a month, a year; the grace of a calendar date
    OnDay,  \* the day of the year the calendar history is asked for
    Hist,   \* pivot sets a history keeps
    Bands,  \* at, near, approaching, in points
    Day,    \* daily_digest: window, widePct, narrowPct; constituents: range52, posBp, least
    Grid    \* fold: M5 bars in half an hour; candles, fvg, crt: bars loaded; minFvg,
            \* minCrt: bars needed; limit: patterns shown; nearBp; recent: bars for key levels

UpTo(s, n) == Tail2(s, Min({n, Len(s)}))

-----------------------------------------------------------------------------
(* pivots_view                                                             *)

Spans == {"DAILY", "WEEKLY", "MONTHLY"}
PeriodOf(span, date) ==
    CASE span = "DAILY" -> date [] span = "WEEKLY" -> date \div Cal.week [] span = "MONTHLY" -> date \div Cal.month

\* _fold: the days of each period as one bar, in order.
Folded(bars, span) ==
    FoldLeft(LAMBDA acc, b :
        LET key == PeriodOf(span, b[1])
        IN  IF acc # <<>> /\ Last(acc).key = key
            THEN [acc EXCEPT ![Len(acc)] = [@ EXCEPT !.high = Max({@, b[2].high}), !.low = Min({@, b[2].low}),
                                                     !.close = b[2].close, !.days = @ + 1]]
            ELSE Append(acc, [key |-> key, high |-> b[2].high, low |-> b[2].low, close |-> b[2].close, days |-> 1]),
        <<>>, Zip(SubSeq(Dates, 1, Len(bars)), bars))

WidthBand(p) ==
    IF 400 * (p.top - p.bottom) <= p.pivot THEN "NARROW"
    ELSE IF 400 * (p.top - p.bottom) >= 3 * p.pivot THEN "WIDE" ELSE "AVERAGE"

\* _period_out: the set a period gives, against the one before it.
PivotSet(folded, i) ==
    LET set == Pivots(folded[i])
    IN  [from |-> folded[i], set |-> set, band |-> WidthBand(set),
         vs |-> IF i = 1 THEN "NONE" ELSE CprRelation(set, Pivots(folded[i - 1]))]

\* The sets of the periods, in order.
SetsOf(folded) == FoldLeft(LAMBDA s, i : Append(s, PivotSet(folded, i)), <<>>, [i \in DOMAIN folded |-> i])

\* One block of the view: the set in force, the next one, the ones before.
\* A period is over when today is past it; a day when its bar is final.
BlockFrom(sets, final, span, today) ==
    LET n == Len(sets)
        inProgress == sets[n].from.key >= PeriodOf(span, today) /\ ~(span = "DAILY" /\ final)
        completed == IF inProgress THEN n - 1 ELSE n
        current == IF inProgress THEN completed ELSE completed - 1
    IN  IF n = 0 THEN [current |-> NoRead, next |-> NoRead, provisional |-> FALSE, history |-> <<>>]
        ELSE [current |-> IF current >= 1 THEN sets[current] ELSE NoRead,
              next |-> sets[n], provisional |-> inProgress, history |-> UpTo(SubSeq(sets, 1, completed), Hist)]
PivotBlock(bars, final, span, today) == BlockFrom(SetsOf(Folded(bars, span)), final, span, today)

\* _pivot_level_rows, in sixths of a point.
LevelRows(p, price, span) ==
    LET levels == {<<"P", p.pivot>>, <<"TC", p.top>>, <<"BC", p.bottom>>}
                  \cup {<<<<"R1", "R2", "R3">>[k], p.r[k]>> : k \in 1..3} \cup {<<<<"S1", "S2", "S3">>[k], p.s[k]>> : k \in 1..3}
        near(d) == Abs(d) <= 6 * Bands.near
        at(d) == Abs(d) <= 6 * Bands.at
        Row(name, d) == [span |-> span, name |-> name, distance |-> d,
                         tier |-> IF at(d) THEN "AT" ELSE IF near(d) THEN "NEAR" ELSE "FAR",
                         side |-> IF at(d) THEN "AT" ELSE IF d > 0 THEN "ABOVE" ELSE "BELOW"]
    IN  {Row(x[1], x[2] - 6 * price) : x \in levels}

\* Of the rows on one side the distance of the nearest.
NearestOf(rows, side) ==
    LET own == {Abs(r.distance) : r \in {x \in rows : x.side = side}}
    IN  IF own = {} THEN NoRead ELSE Min(own)

\* The rows of the sets in force, the nearest on either side and the alerts.
RowsView(rows) ==
    [rows |-> rows, above |-> NearestOf(rows, "ABOVE"), below |-> NearestOf(rows, "BELOW"),
     alerts |-> {r \in rows : r.tier # "FAR"}]
PivotsView(bars, final, today, price) ==
    LET Rows(block, span) == IF block.current = NoRead THEN {} ELSE LevelRows(block.current.set, price, span)
    IN  RowsView(UNION {Rows(PivotBlock(bars, final, span, today), span) : span \in Spans})

\* The same date in each year: its first session within the grace, with the
\* set of the session before it and what the day made of it.
CalendarRows(bars) ==
    LET YearOf(i) == Dates[i] \div Cal.year
        OnTarget(i) == (Dates[i] % Cal.year) - OnDay \in 0..Cal.grace
        picked == {i \in DOMAIN bars : OnTarget(i) /\ ~\E j \in 1..(i - 1) : YearOf(j) = YearOf(i) /\ OnTarget(j)}
        rows == picked \ {1}
        earlier(i) == {j \in rows : j < i}
        Row(i) ==
            LET p == Pivots(bars[i - 1])
                b == bars[i]
            IN  [year |-> YearOf(i), at |-> i, set |-> p,
                 vs |-> IF earlier(i) = {} THEN "NONE" ELSE CprRelation(p, Pivots(bars[Max(earlier(i)) - 1])),
                 close |-> IF 6 * b.close > p.pivot + 6 * Bands.at THEN "ABOVE"
                           ELSE IF 6 * b.close < p.pivot - 6 * Bands.at THEN "BELOW" ELSE "AT",
                 touched |-> [r1 |-> 6 * b.high >= p.r[1], s1 |-> 6 * b.low <= p.s[1]]]
    IN  {Row(i) : i \in rows}

-----------------------------------------------------------------------------
(* daily_digest                                                            *)

\* _d1_day_type, against the day before and the ranges of the days before that
\* (their sum and count).
DayType(b, prior, sum, count) ==
    LET range == Height(b)
        place == b.close - b.low
        rated == count > 0 /\ sum > 0
        wide == rated /\ 100 * range * count >= Day.widePct * sum
        narrow == rated /\ 100 * range * count <= Day.narrowPct * sum
        brokeHigh == b.high > prior.high
        brokeLow == b.low < prior.low
        inside == ~brokeHigh /\ ~brokeLow
    IN  CASE range <= 0 -> "UNDETERMINED"
          [] OTHER ->
             IF wide /\ 10 * place >= 7 * range /\ brokeHigh /\ ~brokeLow THEN "TREND_UP"
             ELSE IF wide /\ 10 * place <= 3 * range /\ brokeLow /\ ~brokeHigh THEN "TREND_DOWN"
             ELSE IF brokeHigh /\ brokeLow
                  THEN IF 100 * place >= 35 * range /\ 100 * place <= 65 * range THEN "NEUTRAL_EXTREME" ELSE "NEUTRAL"
             ELSE IF inside THEN IF narrow THEN "RANGE" ELSE "NORMAL_VARIATION"
             ELSE IF wide THEN "LARGE_RANGE" ELSE "NORMAL"

\* Where a price lies against a band.
PosWord(x, ref, eps) == IF x > ref + eps THEN "ABOVE" ELSE IF x < ref - eps THEN "BELOW" ELSE "AT"
VsValue(close, profile) ==
    IF close > profile.vah THEN "ABOVE" ELSE IF close < profile.val THEN "BELOW" ELSE "INSIDE"

\* A row per day that has one before it; profiles[i] is the day's session.  The
\* average of the ranges is one of rows: it does not know the first day.
DigestRows(bars, profiles) ==
    LET Row(i) ==
            LET b == bars[i]
                prior == bars[i - 1]
                before == SubSeq(bars, Max({2, i - Day.window}), i - 1)
                brokeHigh == b.high > prior.high
                brokeLow == b.low < prior.low
            IN  [at |-> i, prior |-> prior.close, high |-> prior.high, low |-> prior.low,
                 gap |-> b.open - prior.close, change |-> b.close - prior.close,
                 beyond |-> IF b.close > prior.high THEN "ABOVE" ELSE IF b.close < prior.low THEN "BELOW" ELSE "INSIDE",
                 range |-> IF brokeHigh /\ brokeLow THEN "OUTSIDE" ELSE IF brokeHigh THEN "UP" ELSE IF brokeLow THEN "DOWN" ELSE "INSIDE",
                 type |-> DayType(b, prior, FoldLeft(LAMBDA s, x : s + Height(x), 0, before), Len(before)),
                 value |-> IF profiles[i] = NoRead THEN "NONE" ELSE VsValue(b.close, profiles[i]),
                 poc |-> IF profiles[i] = NoRead THEN "NONE" ELSE PosWord(b.close, profiles[i].poc, 0)]
    IN  FoldLeft(LAMBDA s, i : Append(s, Row(i)), <<>>, [k \in 1..Max({0, Len(bars) - 1}) |-> k + 1])

\* The days of a digest between two dates whose move is in given bounds, in tenths
\* of a percent; what a row says does not depend on them.
Selected(rows, first, last, least, most) ==
    SelectSeq(rows, LAMBDA r : /\ Dates[r.at] >= first /\ Dates[r.at] <= last
                               /\ 1000 * r.change >= least * r.prior /\ 1000 * r.change <= most * r.prior)
DigestSummary(rows) ==
    LET Count(Test(_)) == Len(SelectSeq(rows, Test))
    IN  [days |-> Len(rows),
         highs |-> Count(LAMBDA r : r.range \in {"UP", "OUTSIDE"}), lows |-> Count(LAMBDA r : r.range \in {"DOWN", "OUTSIDE"}),
         outside |-> Count(LAMBDA r : r.range = "OUTSIDE"), inside |-> Count(LAMBDA r : r.range = "INSIDE"),
         above |-> Count(LAMBDA r : r.beyond = "ABOVE"), below |-> Count(LAMBDA r : r.beyond = "BELOW"),
         profiled |-> Count(LAMBDA r : r.value # "NONE")]

-----------------------------------------------------------------------------
(* market_board and constituent_levels                                     *)

\* The newest daily bar is taken for today's.
Board(bars, price) ==
    LET n == Len(bars)
        ref == IF n > 1 THEN bars[n - 1].close ELSE bars[n].open
    IN  IF n = 0 THEN NoRead
        ELSE [prior |-> IF n > 1 THEN bars[n - 1].close ELSE NoTime, open |-> bars[n].open, change |-> price - ref,
              range |-> Height(bars[n]), ref |-> ref, through |-> Dates[n]]

\* The newest M1 close or, without one, that of M5.
LastPrice(m1, m5) == IF m1 # NoTime THEN m1 ELSE m5

\* One name of an index: its daily bars and, if they could be read, those of H1.
Constituent(bars, hours) ==
    LET n == Len(bars)
        price == IF hours = NoRead THEN bars[n].close ELSE Last(hours).close
        src == IF n >= 2 THEN bars[n - 1] ELSE bars[n]
        set == Pivots(src)
        year == UpTo(bars, Day.range52)
        high == Max({b.high : b \in Range(year)})
        low == Min({b.low : b \in Range(year)})
        sum(k) == Total(Field(Tail2(bars, k), "close"))
        gap == sum(Gc.fast) * Gc.slow - sum(Gc.slow) * Gc.fast
    IN  [price |-> price, prior |-> src.close, set |-> set, band |-> WidthBand(set),
         pivot |-> IF 60000 * price > 10000 * set.pivot + 6 * Day.posBp * price THEN "ABOVE"
                   ELSE IF 60000 * price < 10000 * set.pivot - 6 * Day.posBp * price THEN "BELOW" ELSE "AT",
         span |-> high - low, place |-> price - low,
         cross |-> IF n < Gc.slow THEN "NONE" ELSE IF gap > 0 THEN "ABOVE" ELSE "BELOW",
         rsi |-> IF n > Rsi.period THEN RsiState(bars) ELSE "NONE"]

\* The names, heaviest first, with what the provider gave for each: a name that
\* is not mapped or fails (NoRead) or is too short is an error and nothing else;
\* without its hours it is read by its days.
ConstituentLevels(names, days, hours) ==
    LET Enough(name) == days[name] # NoRead /\ Len(days[name]) >= Day.least
        stocks == SelectSeq(names, Enough)
    IN  [stocks |-> FoldLeft(LAMBDA s, name : Append(s, <<name, Constituent(days[name], hours[name])>>), <<>>, stocks),
         errors |-> Range(names) \ Range(stocks)]

-----------------------------------------------------------------------------
(* market_profile/levels.py and key_levels                                 *)

\* Slip: a rejection from below is looked for above the level.
AcceptanceOneSided(level, price, recent) ==
    LET tail == Tail2(recent, Bands.accept)
        enough == Len(recent) >= Bands.accept
    IN  IF enough /\ price > level /\ \A b \in Range(tail) : b.close > level THEN "ACCEPTED_ABOVE"
        ELSE IF enough /\ price < level /\ \A b \in Range(tail) : b.close < level THEN "ACCEPTED_BELOW"
        ELSE IF price <= level /\ \E b \in Range(UpTo(recent, Bands.reject)) : b.high > level /\ b.close <= level
        THEN "REJECTED_FROM_ABOVE"
        ELSE IF Abs(price - level) <= Bands.at THEN "TESTING" ELSE "UNTOUCHED"

\* _acceptance: through the level with the last closes, back from beyond it in
\* one of the last bars, at it, or none of these.
Acceptance(level, price, recent) ==
    LET tail == Tail2(recent, Bands.accept)
        enough == Len(recent) >= Bands.accept
        look == Range(UpTo(recent, Bands.reject))
    IN  IF enough /\ price > level /\ \A b \in Range(tail) : b.close > level THEN "ACCEPTED_ABOVE"
        ELSE IF enough /\ price < level /\ \A b \in Range(tail) : b.close < level THEN "ACCEPTED_BELOW"
        ELSE IF price <= level /\ \E b \in look : b.high > level /\ b.close <= level THEN "REJECTED_FROM_ABOVE"
        ELSE IF price >= level /\ \E b \in look : b.low < level /\ b.close >= level THEN "REJECTED_FROM_BELOW"
        ELSE IF Abs(price - level) <= Bands.at THEN "TESTING" ELSE "UNTOUCHED"

Tier(distance) ==
    IF distance <= Bands.at THEN "AT" ELSE IF distance <= Bands.near THEN "NEAR"
    ELSE IF distance <= Bands.approaching THEN "APPROACHING" ELSE "FAR"

\* The lines of a session, by what they are.
LevelsOf(s) == {<<"POC", s.poc>>, <<"VAH", s.vah>>, <<"VAL", s.val>>, <<"IB_HIGH", s.ibHigh>>, <<"IB_LOW", s.ibLow>>,
                <<"HIGH", s.high>>, <<"LOW", s.low>>}

\* key_levels: the lines of the last two whole sessions (D-1 first) against the
\* latest price; only one that is near is read for acceptance.
KeyLevels(sessions, price, recent) ==
    LET Row(place, kind, level) ==
            LET d == level - price
                tier == Tier(Abs(d))
            IN  [session |-> place, kind |-> kind, distance |-> d, tier |-> tier, level |-> level,
                 side |-> PosWord(level, price, 0),
                 read |-> IF tier \in {"AT", "NEAR"} THEN Acceptance(level, price, recent) ELSE "NONE"]
        latest == UpTo(sessions, 2)
        rows == UNION {{Row(Len(latest) - i + 1, x[1], x[2]) : x \in LevelsOf(latest[i])} : i \in DOMAIN latest}
    IN  IF sessions = <<>> THEN NoRead
        ELSE [levels |-> rows, alerts |-> {r \in rows : r.tier # "FAR"},
              above |-> NearestOf(rows, "ABOVE"), below |-> NearestOf(rows, "BELOW"),
              closes |-> FoldLeft(LAMBDA s, x : Append(s, VsValue(x.close, x)), <<>>, latest)]

-----------------------------------------------------------------------------
(* The grids: the same study for each bar size                             *)

\* Slip: half an hour is over once its bars are.
FoldWithoutClock(bars, offset, final) ==
    FoldLeft(LAMBDA acc, i :
        LET at == (offset + i - 1) \div Grid.fold
            b == bars[i]
            done == i < Len(bars) \/ final
        IN  IF acc # <<>> /\ Last(acc).at = at
            THEN [acc EXCEPT ![Len(acc)] = [@ EXCEPT !.high = Max({@, b.high}), !.low = Min({@, b.low}), !.close = b.close, !.vol = @ + b.vol, !.final = done]]
            ELSE Append(acc, [at |-> at, open |-> b.open, high |-> b.high, low |-> b.low, close |-> b.close, vol |-> b.vol, final |-> done]),
        <<>>, [i \in DOMAIN bars |-> i])

\* _fold_m5_to_m30, of the bars after the first offset ones: it is final when its
\* bars are and its half hour has passed.
FoldM30(bars, offset, final) ==
    FoldLeft(LAMBDA acc, i :
        LET at == (offset + i - 1) \div Grid.fold
            b == bars[i]
            done == (i < Len(bars) \/ final) /\ (offset + i) % Grid.fold = 0
        IN  IF acc # <<>> /\ Last(acc).at = at
            THEN [acc EXCEPT ![Len(acc)] = [@ EXCEPT !.high = Max({@, b.high}), !.low = Min({@, b.low}),
                                                     !.close = b.close, !.vol = @ + b.vol, !.final = done]]
            ELSE Append(acc, [at |-> at, open |-> b.open, high |-> b.high, low |-> b.low, close |-> b.close,
                              vol |-> b.vol, final |-> done]),
        <<>>, [i \in DOMAIN bars |-> i])

\* The newest bars a grid loads, as they are and folded.
Loaded(bars, final, load, size) ==
    LET newest == UpTo(bars, load)
    IN  IF size = "M30" THEN FoldM30(newest, Len(bars) - Len(newest), final) ELSE newest

\* What stands in a column for which there is nothing to read.
Unread(type, enough) ==
    IF type = "OPTION" THEN "NOT_APPLICABLE" ELSE IF ~enough THEN "INSUFFICIENT_DATA" ELSE "OK"

\* A column of a study that has enough bars, and any column.
CandlesCell(found, limit) ==
    [status |-> "OK", bias |-> BiasOf(found), patterns |-> {x \in found : Cardinality({y \in found : y.at > x.at}) < limit}]
CandlesColumn(type, bars, limit) ==
    LET status == Unread(type, Len(bars) >= Cdl.scan + Cdl.trend + 3)
    IN  IF status # "OK" THEN [status |-> status, bias |-> "NONE", patterns |-> {}] ELSE CandlesCell(Candles(bars), limit)
FvgCell(bars, gaps) ==
    [status |-> "OK", bias |-> FvgBias(bars, gaps), active |-> Cardinality({f \in gaps : f.state # "BREACHED"}), gaps |-> gaps]
FvgColumn(type, bars) ==
    LET status == Unread(type, Len(bars) >= Grid.minFvg)
    IN  IF status # "OK" THEN [status |-> status, bias |-> "NEUTRAL", active |-> 0, gaps |-> {}]
        ELSE FvgCell(bars, SwingFvgs(bars))
CrtColumn(type, bars) ==
    LET status == Unread(type, Len(bars) >= Grid.minCrt)
    IN  IF status # "OK" THEN NoRead ELSE CrtRead(bars)

\* _gc_ma_proximity: the average nearest to the price, if one is near, and what
\* it acts as.  The distance is in proportion to the average.
MaProximity(bars) ==
    LET price == Last(bars).close
        sum(k) == Total(Field(Tail2(bars, k), "close"))
        Off(k) == price * k - sum(k)
        Near(k) == 10000 * Abs(Off(k)) <= Grid.nearBp * sum(k)
        near == {k \in {Gc.fast, Gc.slow} : Near(k)}
        slowNearer == Abs(Off(Gc.slow)) * sum(Gc.fast) < Abs(Off(Gc.fast)) * sum(Gc.slow)
        nearest == IF Gc.fast \in near /\ (Gc.slow \in near => ~slowNearer) THEN Gc.fast ELSE Gc.slow
    IN  IF near = {} THEN [near |-> near, nearest |-> NoTime, side |-> "NONE"]
        ELSE [near |-> near, nearest |-> nearest, side |-> IF Off(nearest) < 0 THEN "RESISTANCE" ELSE "SUPPORT"]
CrossColumn(bars, final) ==
    IF GoldenCross(bars, final) = NoHit THEN NoRead
    ELSE [cross |-> GoldenCross(bars, final), near |-> MaProximity(bars)]

\* Each study for each bar size of the series.
Column(type, bars, final, size) ==
    [candles |-> CandlesColumn(type, Loaded(bars, final, Grid.candles, size), Grid.limit),
     fvg |-> FvgColumn(type, Loaded(bars, final, Grid.fvg, size)),
     crt |-> CrtColumn(type, Loaded(bars, final, Grid.crt, size)),
     cross |-> IF size = "M5" THEN CrossColumn(bars, final) ELSE NoRead]
Grids(type, bars, final) == [M5 |-> Column(type, bars, final, "M5"), M30 |-> Column(type, bars, final, "M30")]

\* gann_cycles and gap_fade_study: for an index or a future with bars.
GannView(type, bars, today) ==
    IF Unread(type, bars # <<>>) # "OK" THEN {} ELSE Projections(bars, today)
FadeView(type, bars) == IF Unread(type, bars # <<>>) # "OK" THEN {} ELSE Fades(bars)

\* orb_backtest: the bars of the days between two dates, on an index.
OrbBacktest(type, days, first, last) ==
    IF type # "INDEX" \/ last < first THEN NoRead ELSE OrbRun(SubSeq(days, first, last))
=============================================================================
