------------------------------ MODULE Scoring ------------------------------
(***************************************************************************)
(* scoring.py: what the studies say becomes factors, each with a sub-score *)
(* and a confidence, and their weighted mean a label.  Sub-scores are in   *)
(* tenths, truncated toward zero, confidences in thousandths, weights in   *)
(* quarters.  The reasons, the rationale and the explanation are left out. *)
(***************************************************************************)
EXTENDS PriceStudies

CONSTANTS
    Profiles    \* the market profiles a session may have: [position, shape, inValue, complete]

Clamp(x, lo, hi) == Max({lo, Min({x, hi})})
Quot(num, den) == IF num >= 0 THEN num \div den ELSE -((-num) \div den)
Score100(x) == Clamp(x, -1000, 1000)
Sub(score, conf) == [score |-> Score100(score), conf |-> conf]

-----------------------------------------------------------------------------
(* What a study hands to its factor, NoHit when it is not OK               *)

RsiFactor(bars, final) ==
    IF Len(bars) < Rsi.period + 1 THEN NoHit
    ELSE [rsi |-> RsiOf(Field(bars, "close")), divergence |-> Divergence(bars),
          warm |-> final /\ Len(bars) >= 5 * Rsi.period]

\* %B, of which only its distance from the middle counts, in whole points of the score.
PercentB(bars) ==
    LET closes == Field(bars, "close")
        off == Boll.period * Last(closes) - Total(Tail2(closes, Boll.period))
        within(n) == n * n * Boll.std * Boll.std * Spread(closes, Len(closes)) <= 400 * off * off
    IN  IF Spread(closes, Len(closes)) = 0 THEN 0
        ELSE LET size == Max({n \in 0..20 : within(n)}) IN IF off < 0 THEN -size ELSE size
BollingerFactor(bars) ==
    IF Len(bars) < Boll.period THEN NoHit ELSE [position |-> BandPosition(bars), tilt |-> PercentB(bars)]

\* The close's distance from the average in units of the ATR, or of a hundredth of the average.
EmaFactor(bars) ==
    LET ema == EmaOf(Field(bars, "close"), Ema.period)
        off == Last(bars).close * ema[2] - ema[1]
        atr == Atr(bars, Ob.atr)
        ranged == Len(bars) > Ob.atr
    IN  IF Len(bars) < Ema.period THEN NoHit
        ELSE [norm |-> IF ranged THEN <<off * atr[2], ema[2] * atr[1]>> ELSE <<100 * off, ema[1]>>,
              ranged |-> ranged, slope |-> SlopeState(bars), warm |-> Len(bars) >= Ema.period + Ema.slope]

\* What is handed on of a cross, of the blocks and of the patterns found.
CrossSays(bars, cross) ==
    LET mean(n) == Total(Tail2(Field(bars, "close"), n))
    IN  IF cross = NoHit THEN NoHit
        ELSE [state |-> cross.state, type |-> cross.type, recent |-> cross.recent, provisional |-> cross.provisional,
              separation |-> <<mean(Gc.fast) * Gc.slow - mean(Gc.slow) * Gc.fast, mean(Gc.slow) * Gc.fast>>,
              bars |-> Len(bars)]
CrossFactor(bars, final) == CrossSays(bars, GoldenCross(bars, final))

VolumeFactor(bars) ==
    LET read == VolumeRead(bars)
    IN  IF read = NoHit THEN NoHit
        ELSE [rvol |-> read.rvol, spike |-> read.spike, trend |-> read.trend,
              move |-> Last(bars).close - bars[Len(bars) - Vol.rvol].close]

OiFactor(bars) ==
    LET read == OpenInterest(bars)
        before == bars[Len(bars) - OI.lookback].vol
    IN  IF read = NoHit THEN NoHit
        ELSE [behavior |-> read.behavior, change |-> <<Abs(Last(bars).vol - before), before>>]

\* The nearest active block of a side, of equally near ones the newest.
NearestBlock(bars, zones, side) ==
    LET near == {z \in zones : z.side = side /\ z.mitigated = NoTime /\ z.dist = ActiveDist(zones, side)}
    IN  IF near = {} THEN NoHit ELSE [dist |-> Newest(near).dist, age |-> Len(bars) - Newest(near).bos]
BlocksSay(bars, zones, final) ==
    [zone |-> ZoneState(bars, zones), bull |-> NearestBlock(bars, zones, "BULLISH"),
     bear |-> NearestBlock(bars, zones, "BEARISH"), price |-> Last(bars).close, warm |-> final]
BlockFactor(bars, final) ==
    IF Len(bars) < 2 * Ob.swing + Ob.bos + Ob.atr + 1 THEN NoHit ELSE BlocksSay(bars, OrderBlocks(bars), final)

CandlesSay(n, found, final) ==
    LET count(bias) == Cardinality({x \in found : x.hit.bias = bias})
        last == LastHit(found)
    IN  IF found = {} THEN [bias |-> NoHit, strength |-> NoHit, ago |-> 0, net |-> 0, warm |-> final]
        ELSE [bias |-> last.hit.bias, strength |-> last.hit.strength, ago |-> n - last.at,
              net |-> count("BULLISH") - count("BEARISH"), warm |-> final]
CandleFactor(bars, final) ==
    IF Len(bars) < Cdl.scan + Cdl.trend + 3 THEN NoHit ELSE CandlesSay(Len(bars), Candles(bars), final)

Keys == {"rsi", "bollinger", "ema7", "golden_cross", "volume", "open_interest", "market_profile", "order_block", "candles"}
FactorsOf(bars, final) ==
    [rsi |-> RsiFactor(bars, final), bollinger |-> BollingerFactor(bars), ema7 |-> EmaFactor(bars),
     golden_cross |-> CrossFactor(bars, final), volume |-> VolumeFactor(bars), open_interest |-> OiFactor(bars),
     market_profile |-> NoHit, order_block |-> BlockFactor(bars, final), candles |-> CandleFactor(bars, final)]

-----------------------------------------------------------------------------
(* The sub-scores                                                          *)

Signed(x, up, down, size) == IF x = up THEN size ELSE IF x = down THEN -size ELSE 0

\* _score_rsi
SubRsi(f) ==
    LET base == Clamp(Quot(20 * (f.rsi[1] - 50 * f.rsi[2]), f.rsi[2]), -1000, 1000)
        damped == IF f.rsi[1] >= 70 * f.rsi[2] THEN base - 200 ELSE IF f.rsi[1] <= 30 * f.rsi[2] THEN base + 200 ELSE base
    IN  Sub(damped + Signed(f.divergence, "BULLISH", "BEARISH", 250), IF f.warm THEN 900 ELSE 500)

\* _score_bollinger; the history is too short for a bandwidth percentile.
SubBollinger(f) ==
    Sub(Signed(f.position, "ABOVE_UPPER", "BELOW_LOWER", 600) + Signed(f.position, "UPPER_HALF", "LOWER_HALF", 250)
          + 10 * f.tilt, 560)

\* _score_ema7
SubEma(f) ==
    LET far == Abs(f.norm[1]) >= 2 * f.norm[2]
        base == IF far THEN (IF f.norm[1] > 0 THEN 700 ELSE IF f.norm[1] < 0 THEN -700 ELSE 0)
                ELSE Quot(350 * f.norm[1], f.norm[2])
    IN  Sub(base + Signed(f.slope, "RISING", "FALLING", 150),
            IF ~f.ranged THEN 600 ELSE IF f.slope # "UNKNOWN" /\ f.warm THEN 800 ELSE 500)

\* Slip: a death cross is taken for an old one.
SubDeathLost(f) ==
    LET bump == IF f.recent THEN Signed(f.type, "GOLDEN", "NEVER", 400) ELSE 0
        sep == Clamp(Quot(8000 * f.separation[1], f.separation[2]), -200, 200)
        base == Signed(f.state, "ABOVE", "BELOW", 400) + bump + sep
    IN  Sub(IF f.provisional THEN Quot(base, 2) ELSE base, Clamp((900 * f.bars) \div (Gc.slow + Gc.search), 400, 900))

\* _score_golden_cross.  With enough bars a last one that is not final costs nothing.
SubCross(f) ==
    LET bump == IF f.recent THEN Signed(f.type, "GOLDEN", "DEATH", 400) ELSE 0
        sep == Clamp(Quot(8000 * f.separation[1], f.separation[2]), -200, 200)
        base == Signed(f.state, "ABOVE", "BELOW", 400) + bump + sep
    IN  Sub(IF f.provisional THEN Quot(base, 2) ELSE base, Clamp((900 * f.bars) \div (Gc.slow + Gc.search), 400, 900))

\* _score_volume: without a move a spike counts as a rise.
SubVolume(f) ==
    LET scaled == IF f.rvol[2] = 0 THEN 0 ELSE Clamp(Quot(400 * (f.rvol[1] - f.rvol[2]), f.rvol[2]), 0, 400)
        turn(x) == IF f.move > 0 THEN x ELSE IF f.move < 0 THEN -x ELSE 0
    IN  Sub(turn(scaled) + (IF ~f.spike THEN 0 ELSE IF f.move < 0 THEN -150 ELSE 150)
              + (IF f.trend = "RISING" THEN turn(80) ELSE 0), 700)

\* _score_open_interest
SubOi(f) ==
    LET size == Signed(f.behavior, "LONG_BUILDUP", "SHORT_BUILDUP", 500) + Signed(f.behavior, "SHORT_COVERING", "LONG_UNWINDING", 350)
    IN  Sub(IF f.change[2] = 0 THEN Quot(size, 2)
            ELSE IF 50 * f.change[1] >= f.change[2] THEN size ELSE Quot(50 * size * f.change[1], f.change[2]),
            IF f.behavior = "INDETERMINATE" THEN 400 ELSE 750)

\* _score_market_profile; the position is above or below the value area, or about the point of control.
SubProfile(f) ==
    LET base == Signed(f.position, "ABOVE_VAH", "BELOW_VAL", 400) + Signed(f.position, "ABOVE_POC", "BELOW_POC", 200)
                  + Signed(f.shape, "TREND_UP", "TREND_DOWN", 150) + Signed(f.shape, "P_SHAPE", "B_SHAPE", 80)
    IN  Sub(IF f.inValue THEN Quot(6 * base, 10) ELSE base, IF f.complete THEN 800 ELSE 550)

\* _score_order_block: a block in play, or the pull of the nearest of either side.
SubBlock(f) ==
    LET pull(z) == IF z = NoHit THEN 0
                   ELSE (10 * Max({0, f.price - 100 * z.dist}) * Max({0, 60 - z.age})) \div f.price
    IN  Sub(IF f.zone = "OUTSIDE" THEN pull(f.bull) - pull(f.bear) ELSE Signed(f.zone, "IN_BULLISH", "IN_BEARISH", 700),
            IF f.bull = NoHit /\ f.bear = NoHit THEN 0 ELSE IF f.warm THEN 800 ELSE 450)

\* _score_candles
SubCandles(f) ==
    LET strength == CASE f.strength = "STRONG" -> 10 [] f.strength = "MODERATE" -> 7 [] OTHER -> 4
        size == 11 * strength * Max({0, 5 - f.ago})
    IN  IF f.bias = NoHit THEN Sub(0, 0)
        ELSE Sub(Signed(f.bias, "BULLISH", "BEARISH", size) + Clamp(60 * f.net, -180, 180),
                 ((IF f.warm THEN 75 ELSE 45) * (60 + 4 * strength)) \div 10)

\* SUBSCORES: a factor that is not OK abstains.
SubsOf(f) ==
    LET or(x, sub(_)) == IF x = NoHit THEN NoHit ELSE sub(x)
    IN  [rsi |-> or(f.rsi, SubRsi), bollinger |-> or(f.bollinger, SubBollinger), ema7 |-> or(f.ema7, SubEma),
         golden_cross |-> or(f.golden_cross, SubCross), volume |-> or(f.volume, SubVolume),
         open_interest |-> or(f.open_interest, SubOi), market_profile |-> or(f.market_profile, SubProfile),
         order_block |-> or(f.order_block, SubBlock), candles |-> or(f.candles, SubCandles)]

-----------------------------------------------------------------------------
(* Aggregation and labels                                                  *)

Weight(key) ==
    CASE key = "golden_cross" -> 6 [] key = "open_interest" -> 5 [] key \in {"candles", "volume"} -> 3 [] OTHER -> 4
\* expected_analyses
Expected(type) ==
    CASE type = "INDEX" -> Keys \ {"open_interest", "volume"}
      [] type = "FUTURE" -> Keys \ {"golden_cross"}
      [] OTHER -> {"open_interest"}

\* label_for: num / den against the bands, either edge to the stronger label.
LabelFor(num, den) ==
    CASE num >= 600 * den -> "STRONG_BULLISH"
      [] num < 600 * den /\ num >= 200 * den -> "BULLISH"
      [] num < 200 * den /\ num > -200 * den -> "NEUTRAL"
      [] num <= -200 * den /\ num > -600 * den -> "BEARISH"
      [] OTHER -> "STRONG_BEARISH"
TowardNeutral(label) ==
    CASE label = "STRONG_BULLISH" -> "BULLISH" [] label = "STRONG_BEARISH" -> "BEARISH" [] OTHER -> "NEUTRAL"

\* score: the weighted mean of what was said; what was expected and not said
\* costs confidence.
ScoreOf(type, sub) ==
    LET usable == {k \in Keys : sub[k] # NoHit}
        mass(S) == MapThenSumSet(LAMBDA k : Weight(k) * sub[k].conf, S)
        den == mass(usable)
        num == MapThenSumSet(LAMBDA k : Weight(k) * sub[k].conf * sub[k].score, usable)
        hoped == 1000 * MapThenSumSet(Weight, Expected(type)) + mass(usable \ Expected(type))
        raw == LabelFor(num, den)
        low == 100 * den < 35 * hoped
    IN  IF den = 0 THEN [num |-> 0, den |-> 0, hoped |-> hoped, raw |-> "NEUTRAL", label |-> "NEUTRAL", low |-> TRUE]
        ELSE [num |-> num, den |-> den, hoped |-> hoped, raw |-> raw, label |-> IF low THEN TowardNeutral(raw) ELSE raw,
              low |-> low]
=============================================================================
