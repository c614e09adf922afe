------------------------------- MODULE Prices -------------------------------
(***************************************************************************)
(* A price series as the studies meet it: bars are printed one by one, and *)
(* the last one may be revised until it is final.                          *)
(***************************************************************************)
EXTENDS DayViews

CONSTANTS
    Start,      \* the close before the first bar
    Moves,      \* bound: for each bar there may be, its shapes [gap, body, up, down, vol]
    Axis        \* the mirror of a price p is Axis - p

VARIABLES
    bars,       \* the series
    final       \* whether its last bar is
vars == <<bars, final>>

\* The bar a move makes after the close before it.
BarAfter(close, m) ==
    LET open == close + m.gap
        end == open + m.body
    IN  [open |-> open, close |-> end, high |-> Max({open, end}) + m.up, low |-> Min({open, end}) - m.down, vol |-> m.vol]
CloseBefore(i) == IF i = 1 THEN Start ELSE bars[i - 1].close

Init == bars = <<>> /\ final = TRUE

\* The fetch stores the next bar.
Store ==
    /\ final /\ Len(bars) < Len(Moves)
    /\ \E m \in Moves[Len(bars) + 1] : bars' = Append(bars, BarAfter(CloseBefore(Len(bars) + 1), m))
    /\ final' \in BOOLEAN

\* A later fetch stores another version of the last bar.
Revise ==
    /\ ~final
    /\ \E m \in Moves[Len(bars)] : bars' = [bars EXCEPT ![Len(bars)] = BarAfter(CloseBefore(Len(bars)), m)]
    /\ final' = TRUE

Next == Store \/ Revise
Spec == Init /\ [][Next]_vars

-----------------------------------------------------------------------------
\* The bars no step may change any more.
Settled(S) == {x \in S : x.at < Len(bars) + (IF final THEN 1 ELSE 0)}
Rank(state) == CHOOSE i \in 1..4 : <<"PRIMED", "TESTED", "RESPECTED", "BREACHED">>[i] = state
FadeRank(state) ==
    CASE state = "STREAK_ONGOING" -> 1 [] state = "INSUFFICIENT_BOX_DATA" -> 2 [] state = "CONSOLIDATING" -> 3 [] OTHER -> 4

\* Nothing repaints.  What a study has read off settled bars a later bar only
\* continues: a candle pattern stays the pattern of its bar, no cross appears on
\* a bar that had none, a mitigated block stays so, a gap goes from primed to
\* tested to respected to breached, a fade from its streak to its box to its
\* breakout, and an opening range breaks once and keeps its targets.
HistoryStands ==
    [][final /\ Len(bars') = Len(bars) + 1 =>
        LET n == Len(bars)
            cross == GoldenCross(bars', final')
            old == GoldenCross(bars, final)
        IN  /\ {x \in Candles(bars') : x.at <= n} \subseteq Candles(bars) \/ Candles(bars) = {}
            /\ {x \in Candles(bars) : x.at > n - Cdl.scan + 1} \subseteq Candles(bars')
            /\ old # NoHit /\ cross.at # NoTime /\ cross.at <= n => cross.at = old.at /\ cross.type = old.type
            /\ \A z \in OrderBlocks(bars), y \in OrderBlocks(bars') :
                   <<z.side, z.formed, z.bos>> = <<y.side, y.formed, y.bos>> /\ z.mitigated # NoTime => y.mitigated = z.mitigated
            /\ \A f \in SwingFvgs(bars), g \in SwingFvgs(bars') :
                   <<f.side, f.formed, f.swing>> = <<g.side, g.formed, g.swing>> => Rank(f.state) <= Rank(g.state)
            /\ \A f \in Fades(bars) : \E g \in Fades(bars') :
                   /\ g.at = f.at /\ g.side = f.side /\ FadeRank(f.status) <= FadeRank(g.status) /\ f.days <= g.days
                   /\ f.status # "STREAK_ONGOING" => g.streak = f.streak
                   /\ f.box # NoRead => g.box = f.box
                   /\ FadeRank(f.status) = 4 => g = f
            /\ OrbDay(bars) # NoRead /\ n >= Orb.rangeEnd =>
                   /\ OrbDay(bars).side # "NONE" => OrbDay(bars').side = OrbDay(bars).side /\ OrbDay(bars').at = OrbDay(bars).at
                   /\ OrbDay(bars).hits \subseteq OrbDay(bars').hits
                   /\ OrbDay(bars).stop # NoTime => OrbDay(bars') = OrbDay(bars)]_vars

-----------------------------------------------------------------------------
(* The mirror: every price p becomes Axis - p                              *)

Mirror(s) ==
    FoldLeft(LAMBDA t, b : Append(t, [open |-> Axis - b.open, close |-> Axis - b.close, high |-> Axis - b.low,
                                      low |-> Axis - b.high, vol |-> b.vol]), <<>>, s)
Swaps == {<<"BULLISH", "BEARISH">>, <<"HIGH", "LOW">>, <<"LONG", "SHORT">>, <<"UP", "DOWN">>, <<"ABOVE", "BELOW">>,
          <<"GOLDEN", "DEATH">>, <<"RISING", "FALLING">>, <<"OVERBOUGHT", "OVERSOLD">>, <<"IN_BULLISH", "IN_BEARISH">>,
          <<"ABOVE_UPPER", "BELOW_LOWER">>, <<"UPPER_HALF", "LOWER_HALF">>, <<"ABOVE_HIGH", "BELOW_LOW">>,
          <<"HIGH_REJECTION", "LOW_REJECTION">>, <<"RANGE_EXPANSION_UP", "RANGE_EXPANSION_DOWN">>,
          <<"BULLISH_CONTINUATION", "BEARISH_CONTINUATION">>, <<"BREAKOUT_UP", "BREAKOUT_DOWN">>,
          <<"HIGHER_VALUE", "LOWER_VALUE">>, <<"ALL_UP", "ALL_DOWN">>, <<"MORE_UP", "MORE_DOWN">>,
          <<"STRONG_BULLISH", "STRONG_BEARISH">>, <<"ABOVE_VAH", "BELOW_VAL">>, <<"ABOVE_POC", "BELOW_POC">>,
          <<"TREND_UP", "TREND_DOWN">>, <<"P_SHAPE", "B_SHAPE">>, <<"LONG_BUILDUP", "SHORT_BUILDUP">>, <<"SHORT_COVERING", "LONG_UNWINDING">>, <<"SUPPORT", "RESISTANCE">>,
          <<"ACCEPTED_ABOVE", "ACCEPTED_BELOW">>, <<"REJECTED_FROM_ABOVE", "REJECTED_FROM_BELOW">>, <<"VAH", "VAL">>,
          <<"IB_HIGH", "IB_LOW">>, <<"TC", "BC">>, <<"R1", "S1">>, <<"R2", "S2">>, <<"R3", "S3">>}
Other(x) ==
    LET pairs == {p \in Swaps : x \in {p[1], p[2]}}
        pair == CHOOSE p \in pairs : TRUE
    IN  IF pairs = {} THEN x ELSE IF x = pair[1] THEN pair[2] ELSE pair[1]

\* The sides of every study are written apart, one with the signs of the other
\* turned.  Read in the mirror, a series shows the same patterns, blocks, gaps,
\* breaks, fades and states on the other side.  A bar that closes where it opens
\* is excluded where the code counts it with one side (an order block's opposing
\* candle, the volume's rising bars), a tie where it is given to one.
SidesMirror ==
    LET doji == \E i \in DOMAIN bars : bars[i].open = bars[i].close
        now == Len(bars)
        turned(S) == {[x EXCEPT !.side = Other(x.side)] : x \in S}
        biases(S) == {<<x.at, x.hit.strength, x.hit.bias>> : x \in S}
        gaps(S) == {<<f.side, f.formed, f.swing, f.state>> : f \in S}
        zones(S) == {<<z.side, z.formed, z.bos, z.mitigated, z.dist>> : z \in S}
    IN  now > 0 => \A m \in {Mirror(bars)} :
        /\ {<<x[1], x[2], Other(x[3])>> : x \in biases(Candles(bars))} = biases(Candles(m))
        /\ Other(CandleBias(bars)) = CandleBias(m)
        /\ \A mine \in {SwingFvgs(bars)}, theirs \in {SwingFvgs(m)} :
             /\ gaps(turned(mine)) = gaps(theirs)
             /\ Other(FvgBias(bars, mine)) = FvgBias(m, theirs) \/ \E f, g \in mine : f.top + g.bottom = 2 * bars[now].close
        /\ ~doji => \A mine \in {OrderBlocks(bars)}, theirs \in {OrderBlocks(m)} :
             /\ zones(turned(mine)) = zones(theirs)
             /\ ActiveDist(mine, "BULLISH") # ActiveDist(mine, "BEARISH") => Other(BlockBias(bars, mine)) = BlockBias(m, theirs)
        /\ \A read \in {CrtRead(bars)} :
             read # NoRead => CrtRead(m) = [read EXCEPT !.position = Other(@), !.side = Other(@), !.signal = Other(@)]
        /\ \A day \in {OrbDay(bars)} : day # NoRead => OrbDay(m) = [day EXCEPT !.side = Other(@)]
        /\ {<<f.at, Other(f.side), f.streak, Other(f.status), f.days>> : f \in Fades(bars)}
             = {<<f.at, f.side, f.streak, f.status, f.days>> : f \in Fades(m)}
        /\ \A cross \in {GoldenCross(bars, final)} :
             cross # NoHit /\ ~cross.tied => GoldenCross(m, final) = [cross EXCEPT !.type = Other(@), !.state = Other(@)]
        /\ now >= Ema.period => Other(SlopeState(bars)) = SlopeState(m)
        /\ now > Rsi.period =>
             /\ Other(RsiState(bars)) = RsiState(m)
             /\ Other(Divergence(bars)) = Divergence(m)
        /\ now >= Boll.period =>
             LET off == Boll.period * bars[now].close - Total(Tail2(Field(bars, "close"), Boll.period))
             IN  off # 0 => Other(BandPosition(bars)) = BandPosition(m)
        /\ \A mine \in {VolumeRead(bars)}, theirs \in {VolumeRead(m)} :
             mine # NoHit =>
                /\ theirs.spike = mine.spike /\ theirs.trend = mine.trend
                /\ ~doji => theirs.mix = Other(mine.mix)
        /\ \A k \in 1..3 : Pivots(bars[now]).r[k] + Pivots(m[now]).s[k] = 6 * Axis
        /\ now > 1 => Other(CprRelation(Pivots(bars[now]), Pivots(bars[now - 1]))) = CprRelation(Pivots(m[now]), Pivots(m[now - 1]))
        /\ \A mine \in {Projections(bars, Dates[now])}, theirs \in {Projections(m, Dates[now])} :
             /\ {<<x.date, x.days, IF x.anchor = "low" THEN "high" ELSE "low">> : x \in mine}
                  = {<<x.date, x.days, x.anchor>> : x \in theirs}
             /\ {{x.date : x \in c} : c \in Clusters(mine)} = {{x.date : x \in c} : c \in Clusters(theirs)}
        /\ \A read \in {OpenInterest(bars)} :
             read # NoHit => OpenInterest(m).behavior = ClassifyOI(Other(read.price), read.oi)

-----------------------------------------------------------------------------
(* The scores                                                              *)

\* What a factor would be in the mirror.
Opposite(f) ==
    LET field(x) ==
            CASE x \in {"norm", "separation"} -> <<-f[x][1], f[x][2]>>
              [] x = "rsi" -> <<100 * f[x][2] - f[x][1], f[x][2]>>
              [] x \in {"tilt", "move", "net"} -> -f[x]
              [] x = "bull" -> f.bear
              [] x = "bear" -> f.bull
              [] x \in {"divergence", "position", "slope", "state", "type", "behavior", "shape", "zone", "bias"} -> Other(f[x])
              [] OTHER -> f[x]
    IN  IF f = NoHit THEN f ELSE [x \in DOMAIN f |-> field(x)]

\* A score has no side either: with every factor turned, the composite has the
\* other sign, the labels the other name, at the edges of the bands too, and the
\* confidence is the same.  A spike without a move is excluded: it counts as a
\* rise.  And a factor that drops out never makes the score more confident.
ScoresBalance ==
    bars # <<>> =>
    \A factors \in {FactorsOf(bars, final)} :
    \A subs \in {SubsOf(factors)}, others \in {SubsOf([k \in Keys |-> Opposite(factors[k])])}, profile \in Profiles :
        LET with(said, f) == [said EXCEPT !.market_profile = IF f = NoHit THEN NoHit ELSE SubProfile(f)]
            onlyUp == factors.volume # NoHit /\ factors.volume.spike /\ factors.volume.move = 0
        IN  \A mine \in {with(subs, profile)}, theirs \in {with(others, Opposite(profile))}, type \in {"INDEX", "FUTURE", "OPTION"} :
            \A score \in {ScoreOf(type, mine)} :
                /\ ~onlyUp => ScoreOf(type, theirs) = [score EXCEPT !.num = -@, !.raw = Other(@), !.label = Other(@)]
                /\ \A less \in {ScoreOf(type, [mine EXCEPT ![k] = NoHit]) : k \in Keys} :
                     less.den * score.hoped <= score.den * less.hoped
=============================================================================
