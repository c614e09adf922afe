----------------------------- MODULE Indicators -----------------------------
(***************************************************************************)
(* The studies of a price series, analytical_core/indicators: candles,     *)
(* order blocks, averages and their crosses, bands, RSI, volume and open   *)
(* interest.  Prices are whole numbers, the parameters of params.py are    *)
(* given by study, percentages in points (Pct) or basis points (Bp).  A    *)
(* quotient is a pair <<num, den>>; what is compared is cross multiplied,  *)
(* so nothing is rounded.  The two sides of a study are written out where  *)
(* the code writes them out.                                               *)
(***************************************************************************)
EXTENDS Integers, SequencesExt, OIBehavior

CONSTANTS
    Cdl,    \* candles: scan, trend, trendBp, dojiPct, marubozuPct, wickMult, oppWickPct, starPct, frozen
    Ob,     \* order_block: swing, atr, impulse, bos, maxAge
    Gc,     \* golden_cross: fast, slow, search, recent
    Ema,    \* ema7: period, slope, flatBp
    Boll,   \* bollinger: period, std
    Rsi,    \* rsi: period, div, minDelta
    Vol,    \* volume: ma, spike, rvol, flatPct
    OI,     \* open_interest: lookback, priceBp, oiBp, oiAbs
    NoHit, NoTime

\* A bar is [open, high, low, close, vol]; its place in the series is its time.
Abs(x) == IF x < 0 THEN -x ELSE x
Total(s) == FoldLeft(+, 0, s)
Tail2(s, n) == SubSeq(s, Len(s) - n + 1, Len(s))
Field(bars, f) == FoldLeft(LAMBDA s, b : Append(s, b[f]), <<>>, bars)

-----------------------------------------------------------------------------
(* candles                                                                 *)

Body(b) == Abs(b.close - b.open)
Height(b) == b.high - b.low
Top(b) == Max({b.open, b.close})
Bottom(b) == Min({b.open, b.close})
Bull(b) == b.close > b.open
Bear(b) == b.close < b.open
Hit(pattern, bias, strength) == [pattern |-> pattern, bias |-> bias, strength |-> strength]

\* _frozen_tape_artifact: a quote carried forward, then one jump.
Frozen(bars, i) ==
    LET still(j) == Height(bars[j]) <= 0 /\ bars[j].open = bars[i].open
    IN  Cdl.frozen > 0 /\ i > Cdl.frozen /\ Height(bars[i]) > 0 /\ \A j \in (i - Cdl.frozen)..(i - 1) : still(j)

\* Slip: the trend is that of the end of the series.
TrendAtEnd(bars, i) ==
    LET ref == bars[i - 1 - Cdl.trend].close
        change == 10000 * (bars[Len(bars)].close - ref)
    IN  IF change <= -(Cdl.trendBp * ref) THEN "DOWNTREND"
        ELSE IF change >= Cdl.trendBp * ref THEN "UPTREND" ELSE "SIDEWAYS"

\* _trend: the trend of the bars before the i-th.
TrendAt(bars, i) ==
    LET ref == bars[i - 1 - Cdl.trend].close
        change == 10000 * (bars[i - 1].close - ref)
    IN  IF change <= -(Cdl.trendBp * ref) THEN "DOWNTREND"
        ELSE IF change >= Cdl.trendBp * ref THEN "UPTREND" ELSE "SIDEWAYS"

OneBar(b, trend) ==
    LET wick == Cdl.oppWickPct * Height(b)
        smallUpper == 100 * (b.high - Top(b)) <= wick
        smallLower == 100 * (Bottom(b) - b.low) <= wick
        smallBody == 100 * Body(b) <= Cdl.starPct * Height(b)
        longLower == Bottom(b) - b.low >= Cdl.wickMult * Body(b)
        longUpper == b.high - Top(b) >= Cdl.wickMult * Body(b)
    IN  IF Height(b) <= 0 THEN NoHit
        ELSE IF 100 * Body(b) <= Cdl.dojiPct * Height(b) THEN
            IF smallLower /\ ~smallUpper
            THEN Hit("GRAVESTONE_DOJI", "BEARISH", IF trend = "UPTREND" THEN "STRONG" ELSE "WEAK")
            ELSE IF smallUpper /\ ~smallLower
            THEN Hit("DRAGONFLY_DOJI", "BULLISH", IF trend = "DOWNTREND" THEN "STRONG" ELSE "WEAK")
            ELSE Hit("DOJI", "NEUTRAL", IF trend = "SIDEWAYS" THEN "WEAK" ELSE "MODERATE")
        ELSE IF 100 * Body(b) >= Cdl.marubozuPct * Height(b)
        THEN Hit("MARUBOZU", IF Bull(b) THEN "BULLISH" ELSE "BEARISH", "STRONG")
        ELSE IF longLower /\ smallUpper /\ smallBody THEN
            CASE trend = "DOWNTREND" -> Hit("HAMMER", "BULLISH", "STRONG")
              [] trend = "UPTREND" -> Hit("HANGING_MAN", "BEARISH", "MODERATE")
              [] OTHER -> Hit("HAMMER", "BULLISH", "WEAK")
        ELSE IF longUpper /\ smallLower /\ smallBody THEN
            CASE trend = "UPTREND" -> Hit("SHOOTING_STAR", "BEARISH", "STRONG")
              [] trend = "DOWNTREND" -> Hit("INVERTED_HAMMER", "BULLISH", "MODERATE")
              [] OTHER -> Hit("SHOOTING_STAR", "BEARISH", "WEAK")
        ELSE NoHit

TwoBar(a, b, trend) ==
    LET contain == Bottom(a) < Bottom(b) /\ Top(b) < Top(a) /\ Body(a) >= 2 * Body(b)
        down(strong, weak) == IF trend = "DOWNTREND" THEN strong ELSE weak
        up(strong, weak) == IF trend = "UPTREND" THEN strong ELSE weak
        rise == Bear(a) /\ Bull(b)
        fall == Bull(a) /\ Bear(b)
    IN  IF Height(a) <= 0 \/ Height(b) <= 0 THEN NoHit
        ELSE IF rise /\ b.open <= a.close /\ b.close >= a.open /\ Body(b) > Body(a)
        THEN Hit("BULLISH_ENGULFING", "BULLISH", down("STRONG", "MODERATE"))
        ELSE IF fall /\ b.open >= a.close /\ b.close <= a.open /\ Body(b) > Body(a)
        THEN Hit("BEARISH_ENGULFING", "BEARISH", up("STRONG", "MODERATE"))
        ELSE IF rise /\ contain THEN Hit("BULLISH_HARAMI", "BULLISH", down("MODERATE", "WEAK"))
        ELSE IF fall /\ contain THEN Hit("BEARISH_HARAMI", "BEARISH", up("MODERATE", "WEAK"))
        ELSE IF rise /\ b.open < a.close /\ a.open + a.close < 2 * b.close /\ b.close < a.open
        THEN Hit("PIERCING_LINE", "BULLISH", down("STRONG", "MODERATE"))
        ELSE IF fall /\ b.open > a.close /\ a.open < b.close /\ 2 * b.close < a.open + a.close
        THEN Hit("DARK_CLOUD_COVER", "BEARISH", up("STRONG", "MODERATE"))
        ELSE NoHit

ThreeBar(a, mid, c) ==
    LET star == 100 * Body(mid) <= Cdl.starPct * Height(mid) /\ 10 * Body(c) >= 6 * Body(a)
    IN  IF Height(a) <= 0 \/ Height(c) <= 0 \/ Height(mid) <= 0 \/ ~star THEN NoHit
        ELSE IF Bear(a) /\ Bull(c) /\ 2 * c.close > a.open + a.close THEN Hit("MORNING_STAR", "BULLISH", "STRONG")
        ELSE IF Bull(a) /\ Bear(c) /\ 2 * c.close < a.open + a.close THEN Hit("EVENING_STAR", "BEARISH", "STRONG")
        ELSE NoHit

PatternAt(bars, i) ==
    LET trend == TrendAt(bars, i)
        three == ThreeBar(bars[i - 2], bars[i - 1], bars[i])
        two == TwoBar(bars[i - 1], bars[i], trend)
    IN  IF Frozen(bars, i) THEN NoHit
        ELSE IF three # NoHit THEN three ELSE IF two # NoHit THEN two ELSE OneBar(bars[i], trend)

\* The patterns of the last bars, each with its place.
Candles(bars) ==
    IF Len(bars) < Cdl.scan + Cdl.trend + 3 THEN {}
    ELSE {hit \in {[at |-> i, hit |-> PatternAt(bars, i)] : i \in (Len(bars) - Cdl.scan + 1)..Len(bars)} : hit.hit # NoHit}
\* The bias is that of the newest pattern.
LastHit(found) == CHOOSE x \in found : \A y \in found : y.at <= x.at
BiasOf(found) == IF found = {} THEN "NEUTRAL" ELSE LastHit(found).hit.bias
CandleBias(bars) == BiasOf(Candles(bars))

-----------------------------------------------------------------------------
(* order blocks                                                            *)

\* wilder_atr, as a quotient.
Atr(bars, period) ==
    LET tr(i) == Max({Height(bars[i]), Abs(bars[i].high - bars[i - 1].close), Abs(bars[i].low - bars[i - 1].close)})
        seed == <<FoldLeft(LAMBDA s, i : s + tr(i + 1), 0, [i \in 1..period |-> i]), period>>
    IN  FoldLeft(LAMBDA q, i : <<q[1] * (period - 1) + tr(i + period + 1) * q[2], q[2] * period>>,
                 seed, [i \in 1..(Len(bars) - period - 1) |-> i])

\* _swings: the strict extremes of the k values on either side.
SwingHighs(bars, k) ==
    {i \in (k + 1)..(Len(bars) - k) : \A j \in (i - k)..(i + k) : j # i => bars[i].high > bars[j].high}
SwingLows(bars, k) ==
    {i \in (k + 1)..(Len(bars) - k) : \A j \in (i - k)..(i + k) : j # i => bars[i].low < bars[j].low}

\* Slip: a wick through a swing low already breaks it.
BreakByWick(bars, s, bullish) ==
    LET through == {j \in (s + 1)..Min({Len(bars), s + Ob.bos}) :
                        IF bullish THEN bars[j].close > bars[s].high ELSE bars[j].low < bars[s].low}
    IN  IF through = {} THEN NoTime ELSE Min(through)

\* The first close beyond the swing, within the search.
BreakOf(bars, s, bullish) ==
    LET through == {j \in (s + 1)..Min({Len(bars), s + Ob.bos}) :
                        IF bullish THEN bars[j].close > bars[s].high ELSE bars[j].close < bars[s].low}
    IN  IF through = {} THEN NoTime ELSE Min(through)

\* The last opposing candle before the break, or the extreme one of the run.
BlockBefore(bars, s, j, bullish) ==
    LET opposing == {i \in s..(j - 1) : IF bullish THEN Bear(bars[i]) ELSE ~Bear(bars[i])}
        extreme == {i \in s..(j - 1) : IF bullish THEN \A h \in s..(j - 1) : bars[i].low <= bars[h].low
                                       ELSE \A h \in s..(j - 1) : bars[i].high >= bars[h].high}
    IN  IF opposing # {} THEN Max(opposing) ELSE Min(extreme)

\* _mitigated_at, by touch.
MitigatedAt(bars, zone, after) ==
    LET back == {i \in (after + 1)..Len(bars) : bars[i].low <= zone.high /\ bars[i].high >= zone.low}
    IN  IF back = {} THEN NoTime ELSE Min(back)

\* One block, its distance from the price still to be divided by the price.
BlockOf(bars, s, j, bullish) ==
    LET k == BlockBefore(bars, s, j, bullish)
        price == bars[Len(bars)].close
        zone == [low |-> bars[k].low, high |-> bars[k].high]
    IN  [side |-> IF bullish THEN "BULLISH" ELSE "BEARISH", low |-> zone.low, high |-> zone.high,
         formed |-> k, bos |-> j, mitigated |-> MitigatedAt(bars, zone, j),
         dist |-> IF zone.low <= price /\ price <= zone.high THEN 0
                  ELSE IF bullish THEN Abs(price - zone.high) ELSE Abs(zone.low - price),
         impulse |-> IF bullish THEN bars[j].high - zone.low ELSE zone.high - bars[j].low]

Later(a, b) == a.bos > b.bos \/ (a.bos = b.bos /\ a.formed > b.formed)
Newest(S) == CHOOSE z \in S : \A y \in S : ~Later(y, z)

\* The blocks behind the swings of one side that were broken.
BlocksOf(bars, swings, bullish) ==
    {BlockOf(bars, s, BreakOf(bars, s, bullish), bullish) : s \in {i \in swings : BreakOf(bars, i, bullish) # NoTime}}
Dedupe(zones) ==
    {z \in zones : ~\E y \in zones : <<y.side, y.low, y.high>> = <<z.side, z.low, z.high>> /\ Later(y, z)}

\* The recent blocks that left with force, of identical zones the newest.
OrderBlocks(bars) ==
    LET atr == Atr(bars, Ob.atr)
        Strong(z) == (atr[1] > 0 => z.impulse * atr[2] >= Ob.impulse * atr[1]) /\ Len(bars) - z.bos <= Ob.maxAge
    IN  IF Len(bars) < 2 * Ob.swing + Ob.bos + Ob.atr + 1 THEN {}
        ELSE Dedupe({z \in BlocksOf(bars, SwingHighs(bars, Ob.swing), TRUE) \cup BlocksOf(bars, SwingLows(bars, Ob.swing), FALSE) :
                        Strong(z)})

ZoneState(bars, zones) ==
    LET price == bars[Len(bars)].close
        around(side) == {z \in zones : z.side = side /\ z.low <= price /\ price <= z.high}
        bull == around("BULLISH")
        bear == around("BEARISH")
    IN  CASE bull # {} /\ bear = {} -> "IN_BULLISH"
          [] bull = {} /\ bear # {} -> "IN_BEARISH"
          [] bull # {} /\ bear # {} -> IF Newest(bull).bos >= Newest(bear).bos THEN "IN_BULLISH" ELSE "IN_BEARISH"
          [] OTHER -> "OUTSIDE"
ActiveDist(zones, side) ==
    LET active == {z.dist : z \in {y \in zones : y.side = side /\ y.mitigated = NoTime}}
    IN  IF active = {} THEN NoTime ELSE Min(active)
BlockBias(bars, zones) ==
    LET bull == ActiveDist(zones, "BULLISH")
        bear == ActiveDist(zones, "BEARISH")
        state == ZoneState(bars, zones)
    IN  CASE state = "IN_BULLISH" -> "BULLISH"
          [] state = "IN_BEARISH" -> "BEARISH"
          [] OTHER -> IF bull = NoTime /\ bear = NoTime THEN "NEUTRAL"
                      ELSE IF bear = NoTime THEN "BULLISH"
                      ELSE IF bull = NoTime THEN "BEARISH"
                      ELSE IF bull < bear THEN "BULLISH" ELSE "BEARISH"

-----------------------------------------------------------------------------
(* averages                                                                *)

\* The sign of fast over slow at i, both simple averages; 0 before the slow one is.
CrossSign(bars, i) ==
    LET closes == Field(bars, "close")
        sum(n) == Total(SubSeq(closes, i - n + 1, i))
        gap == sum(Gc.fast) * Gc.slow - sum(Gc.slow) * Gc.fast
    IN  IF i < Gc.slow \/ gap = 0 THEN 0 ELSE IF gap > 0 THEN 1 ELSE -1

\* One bar of the search: a tie leaves what was carried.
CrossStep(x, sign, i) ==
    IF sign = 0 THEN x
    ELSE [carried |-> sign, at |-> IF x.carried # 0 /\ sign # x.carried THEN i ELSE x.at,
          type |-> IF x.carried = 0 \/ sign = x.carried THEN x.type ELSE IF x.carried < 0 THEN "GOLDEN" ELSE "DEATH"]
LastCross(sign) ==
    LET look == Min({Gc.search, Len(sign)})
    IN  FoldLeft(LAMBDA x, i : CrossStep(x, sign[i], i), [carried |-> 0, at |-> NoTime, type |-> "NONE_IN_WINDOW"],
                 [i \in 1..look |-> Len(sign) - look + i])
CrossOf(found, n, sign, final) ==
    [type |-> found.type, at |-> found.at, state |-> IF sign > 0 THEN "ABOVE" ELSE "BELOW",
     recent |-> found.at # NoTime /\ n - found.at <= Gc.recent, tied |-> sign = 0, provisional |-> found.at = n /\ ~final]

\* golden_cross on an index: the last change of sign within the search.
GoldenCross(bars, final) ==
    LET n == Len(bars)
    IN  IF n < Gc.slow + 1 THEN NoHit
        ELSE CrossOf(LastCross(FoldLeft(LAMBDA s, i : Append(s, CrossSign(bars, i)), <<>>, [i \in 1..n |-> i])), n,
                     CrossSign(bars, n), final)

\* ema_series, seeded with the average of the first period, as a quotient at its end.
EmaOf(xs, period) ==
    FoldLeft(LAMBDA q, x : <<2 * x * q[2] + q[1] * (period - 1), q[2] * (period + 1)>>,
             <<Total(SubSeq(xs, 1, period)), period>>, SubSeq(xs, period + 1, Len(xs)))
SlopeState(bars) ==
    LET closes == Field(bars, "close")
        now == EmaOf(closes, Ema.period)
        then == EmaOf(SubSeq(closes, 1, Len(closes) - Ema.slope), Ema.period)
        rise == 10000 * (now[1] - then[1] * (now[2] \div then[2]))
        eps == Ema.flatBp * now[1]
    IN  IF Len(bars) < Ema.period + Ema.slope THEN "UNKNOWN"
        ELSE IF rise > eps THEN "RISING" ELSE IF rise < -eps THEN "FALLING" ELSE "FLAT"

\* The square of the deviation of the window that ends at end, times period^2.
Spread(closes, end) ==
    LET window == SubSeq(closes, end - Boll.period + 1, end)
    IN  Boll.period * Total(FoldLeft(LAMBDA s, x : Append(s, x * x), <<>>, window)) - Total(window) * Total(window)
BandPosition(bars) ==
    LET closes == Field(bars, "close")
        spread == Spread(closes, Len(closes))
        off == Boll.period * Last(closes) - Total(Tail2(closes, Boll.period))
    IN  IF spread = 0 THEN "MIDDLE"
        ELSE IF off >= 0 /\ off * off >= Boll.std * Boll.std * spread THEN "ABOVE_UPPER"
        ELSE IF off <= 0 /\ off * off >= Boll.std * Boll.std * spread THEN "BELOW_LOWER"
        ELSE IF off >= 0 THEN "UPPER_HALF" ELSE "LOWER_HALF"

\* _wilder_rsi at the end of xs: RSI is 100 * gain / (gain + loss).  The averages
\* are q[1] and q[2] over q[3]; the first ones are of a whole period.
RsiOf(xs) ==
    LET move(i) == xs[i + 1] - xs[i]
        gain(i) == Max({move(i), 0})
        loss(i) == Max({-move(i), 0})
        first == [i \in 1..Rsi.period |-> i]
        seed == <<FoldLeft(LAMBDA s, i : s + gain(i), 0, first), FoldLeft(LAMBDA s, i : s + loss(i), 0, first), Rsi.period>>
        avg == FoldLeft(LAMBDA q, i : <<q[1] * (Rsi.period - 1) + gain(i) * q[3], q[2] * (Rsi.period - 1) + loss(i) * q[3],
                                        q[3] * Rsi.period>>,
                        seed, [i \in 1..(Len(xs) - 1 - Rsi.period) |-> i + Rsi.period])
    IN  IF avg[1] = 0 /\ avg[2] = 0 THEN <<50, 1>> ELSE <<100 * avg[1], avg[1] + avg[2]>>
RsiState(bars) ==
    LET rsi == RsiOf(Field(bars, "close"))
    IN  IF rsi[1] >= 70 * rsi[2] THEN "OVERBOUGHT" ELSE IF rsi[1] <= 30 * rsi[2] THEN "OVERSOLD" ELSE "NEUTRAL"

\* _divergence: the close is the extreme of the window, the RSI is not.
Divergence(bars) ==
    LET closes == Field(bars, "close")
        n == Len(closes)
        window == (n - Rsi.div + 1)..n
        rsi(i) == RsiOf(SubSeq(closes, 1, i))
        lo == Min({i \in window : \A j \in window : closes[i] <= closes[j]})
        hi == Min({i \in window : \A j \in window : closes[i] >= closes[j]})
        above(a, b) == a[1] * b[2] - b[1] * a[2] >= Rsi.minDelta * a[2] * b[2]
    IN  IF n < Rsi.div \/ n - Rsi.div < Rsi.period THEN "NONE"
        ELSE IF closes[n] = closes[lo] /\ above(rsi(n), rsi(lo)) THEN "BULLISH"
        ELSE IF closes[n] = closes[hi] /\ above(rsi(hi), rsi(n)) THEN "BEARISH" ELSE "NONE"

-----------------------------------------------------------------------------
(* volume and open interest                                                *)

\* ols_slope against 0..n-1, times the positive sum of squares it is divided by.
SlopeNum(xs) ==
    LET n == Len(xs) IN FoldLeft(LAMBDA s, i : s + (2 * i - n - 1) * (n * xs[i] - Total(xs)), 0, [i \in 1..n |-> i])
VolumeRead(bars) ==
    LET n == Len(bars)
        vols == Field(bars, "vol")
        window == Tail2(vols, Vol.ma)
        ups == Cardinality({i \in (n - Vol.ma + 1)..n : bars[i].close >= bars[i].open})
        before == SubSeq(vols, n - Vol.rvol, n - 1)
        scale == Vol.ma * Vol.ma * (Vol.ma * Vol.ma - 1)
        tilt == 600 * SlopeNum(window)
        eps == Vol.flatPct * Total(window) * (scale \div Vol.ma)
    IN  IF n < Max({Vol.ma, Vol.rvol + 1}) THEN NoHit
        ELSE IF Total(window) = 0 THEN NoHit
        ELSE [rvol |-> <<Vol.rvol * Last(vols), Total(before)>>,
              spike |-> Last(vols) * Vol.ma >= Vol.spike * Total(window),
              mix |-> IF ups = Vol.ma THEN "ALL_UP" ELSE IF ups = 0 THEN "ALL_DOWN"
                      ELSE IF 2 * ups > Vol.ma THEN "MORE_UP" ELSE IF 2 * ups < Vol.ma THEN "MORE_DOWN" ELSE "BALANCED",
              trend |-> IF tilt > eps THEN "RISING" ELSE IF tilt < -eps THEN "FALLING" ELSE "FLAT"]

\* open_interest of a future: the volume of a bar stands for its open interest.
OpenInterest(bars) ==
    LET now == bars[Len(bars)]
        prev == bars[Len(bars) - OI.lookback]
    IN  IF Len(bars) < OI.lookback + 1 THEN NoHit
        ELSE [price |-> Direction(10000 * (now.close - prev.close), OI.priceBp * prev.close),
              oi |-> Direction(10000 * (now.vol - prev.vol), Max({OI.oiBp * prev.vol, 10000 * OI.oiAbs})),
              behavior |-> ClassifyOI(Direction(10000 * (now.close - prev.close), OI.priceBp * prev.close),
                                      Direction(10000 * (now.vol - prev.vol), Max({OI.oiBp * prev.vol, 10000 * OI.oiAbs})))]
=============================================================================
