---------------------------- MODULE MarketProfile ----------------------------
(***************************************************************************)
(* The market profile builder, analytical_core/market_profile/engine.py.   *)
(* Time is counted in slots of the session, prices in ticks; a bin is      *)
(* named by its lower edge divided by Bin.  Shares of percentages are      *)
(* compared by cross multiplication, so nothing is rounded.  A volume is a *)
(* multiple of every number of bins a bar can overlap, so that it divides. *)
(***************************************************************************)
EXTENDS Integers, SequencesExt

CONSTANTS
    SessionLen, TpoLen,      \* slots of a session, of a period
    PartialPolicy,           \* "KEEP", "MERGE_PREV" or "DROP"
    IbPeriods, MinPeriods, MinBins,
    Bin,                     \* resolve_bin_size: ticks of a bin
    ValueAreaPct,
    Expansion,               \* bins taken at once: 2 for PAIR, 1 for SINGLE
    NoPrice, NoProfile

ASSUME ProfileAssumption ==
    /\ SessionLen \in Nat /\ TpoLen \in Nat \ {0} /\ IbPeriods \in Nat \ {0} /\ MinBins \in Nat
    /\ Bin \in Nat \ {0} /\ ValueAreaPct \in 0..100 /\ Expansion \in Nat \ {0}

\* Bars are a function to [ts, open, high, low, close, vol], their indices in the
\* order of their slots: a sequence, or what a restriction leaves of it.
SumOf(f, S) == MapThenSumSet(LAMBDA x : f[x], S)
Highs(bars) == {bars[i].high : i \in DOMAIN bars}
Lows(bars) == {bars[i].low : i \in DOMAIN bars}
LastOf(f) == f[Max(DOMAIN f)]

\* session_periods: the full periods, then what is left of the session.
Periods ==
    LET full == SessionLen \div TpoLen
        whole == [i \in 1..full |-> [start |-> (i - 1) * TpoLen, end |-> i * TpoLen]]
    IN  CASE SessionLen % TpoLen = 0 -> whole
          [] SessionLen % TpoLen # 0 /\ PartialPolicy = "DROP" -> whole
          [] SessionLen % TpoLen # 0 /\ PartialPolicy = "MERGE_PREV" /\ full > 0 ->
                [whole EXCEPT ![full].end = SessionLen]
          [] OTHER -> Append(whole, [start |-> full * TpoLen, end |-> SessionLen])

\* _period_of among the first n periods, 0 if none: a bar of the very close
\* belongs to the last one.
PeriodOf(ts, n) ==
    LET at == {i \in 1..n : Periods[i].start <= ts /\ ts < Periods[i].end}
    IN  CASE at # {} -> CHOOSE i \in at : TRUE
          [] at = {} /\ n > 0 /\ ts = Periods[n].end -> n
          [] OTHER -> 0

\* _overlapped_bins.
OverlappedBins(low, high) == (low \div Bin)..(high \div Bin)

-----------------------------------------------------------------------------
\* The metric of a profile, by bin: the letters that printed there, or what falls
\* to it of the volume of the bars.
Metric(kind, bars, n) ==
    LET bins(i) == OverlappedBins(bars[i].low, bars[i].high)
        at(b) == {i \in DOMAIN bars : b \in bins(i)}
        share == [i \in DOMAIN bars |-> bars[i].vol \div Cardinality(bins(i))]
    IN  [b \in UNION {bins(i) : i \in DOMAIN bars} |->
            IF kind = "TPO" THEN Cardinality({PeriodOf(bars[i].ts, n) : i \in at(b)})
            ELSE SumOf(share, at(b))]

\* The volume-weighted price as a fraction; the middle of the range without volume.
Vwap(bars) ==
    LET vol == [i \in DOMAIN bars |-> bars[i].vol]
        worth == [i \in DOMAIN bars |-> (bars[i].high + bars[i].low + bars[i].close) * bars[i].vol]
    IN  IF SumOf(vol, DOMAIN bars) > 0
        THEN <<SumOf(worth, DOMAIN bars), 3 * SumOf(vol, DOMAIN bars)>>
        ELSE <<Max(Highs(bars)) + Min(Lows(bars)), 2>>

\* Of the bins with the highest metric the one nearest to the vwap, the lower of two.
Poc(metric, vwap) ==
    LET best == {b \in DOMAIN metric : \A c \in DOMAIN metric : metric[c] <= metric[b]}
        far(b) == LET d == b * Bin * vwap[2] - vwap[1] IN IF d < 0 THEN -d ELSE d
    IN  CHOOSE b \in best : \A c \in best : far(b) < far(c) \/ (far(b) = far(c) /\ b <= c)

\* The bins an expansion takes above the area, and below it.
Above(metric, area) ==
    LET top == Max(area)
        beyond == {b \in DOMAIN metric : b > top}
    IN  {b \in beyond : Cardinality({c \in beyond : c < b}) < Expansion}
Below(metric, area) ==
    LET bottom == Min(area)
        beyond == {b \in DOMAIN metric : b < bottom}
    IN  {b \in beyond : Cardinality({c \in beyond : c > b}) < Expansion}

\* Slip: both sides are taken at once.
WiderBothSides(metric, area) == area \cup Above(metric, area) \cup Below(metric, area)

\* One expansion, to the side whose next bins hold more, upwards if equal.
Wider(metric, area) ==
    LET above == Above(metric, area)
        below == Below(metric, area)
        up == IF above # {} /\ below # {} THEN SumOf(metric, above) >= SumOf(metric, below) ELSE above # {}
    IN  area \cup (IF up THEN above ELSE below)

\* From the point of control outwards over the printed bins until the area holds
\* its share.
Enough(metric, area) == 100 * SumOf(metric, area) >= ValueAreaPct * SumOf(metric, DOMAIN metric)
ValueArea(metric, poc) ==
    LET area == FoldLeft(LAMBDA a, i : IF Enough(metric, a) THEN a ELSE Wider(metric, a),
                         {poc}, [i \in 1..Cardinality(DOMAIN metric) |-> i])
    IN  [val |-> Min(area), vah |-> Max(area)]

\* _classify, first match wins.
Peaks(metric) ==
    {b \in DOMAIN metric : 100 * metric[b] >= 12 * SumOf(metric, DOMAIN metric)}
\* The neighbours among the peaks with a valley between them.
Valleys(metric) ==
    {v \in Peaks(metric) \X Peaks(metric) :
        /\ v[1] < v[2] /\ ~\E b \in Peaks(metric) : v[1] < b /\ b < v[2]
        /\ \E b \in DOMAIN metric :
               v[1] < b /\ b < v[2] /\ 100 * metric[b] <= 4 * SumOf(metric, DOMAIN metric)}
Shape(metric, poc, va, high, low, close) ==
    LET range == high - low
        total == SumOf(metric, DOMAIN metric)
        poc100 == 100 * (poc * Bin - low)
        narrow == 100 * (va.vah - va.val) * Bin <= 50 * range
        lower == SumOf(metric, {b \in DOMAIN metric : 3 * b * Bin < 3 * low + range})
        upper == SumOf(metric, {b \in DOMAIN metric : 3 * b * Bin >= 3 * high - range})
    IN  CASE range <= 0 -> "NORMAL"
          [] range > 0 /\ close >= va.vah * Bin /\ poc100 >= 66 * range /\ narrow -> "TREND_UP"
          [] range > 0 /\ close <= va.val * Bin /\ poc100 <= 34 * range /\ narrow -> "TREND_DOWN"
          [] OTHER ->
               IF poc100 >= 60 * range /\ 100 * lower <= 15 * total THEN "P_SHAPE"
               ELSE IF poc100 <= 40 * range /\ 100 * upper <= 15 * total THEN "B_SHAPE"
               ELSE IF Valleys(metric) # {}
                    THEN "DOUBLE_DISTRIBUTION" ELSE "NORMAL"

\* build_profile of the bars in the first n periods: what it states once the
\* metric, its point of control and the area around it are known.
Stated(bars, close, n, metric, poc, va) ==
    LET high == Max(Highs(bars))
        low == Min(Lows(bars))
        ib == Restrict(bars, {i \in DOMAIN bars : PeriodOf(bars[i].ts, n) <= IbPeriods})
        ibDone == 1..IbPeriods \subseteq {PeriodOf(bars[i].ts, n) : i \in DOMAIN bars}
    IN  [poc |-> poc * Bin, vah |-> va.vah * Bin, val |-> va.val * Bin,
         high |-> high, low |-> low, close |-> close,
         ibHigh |-> IF ibDone THEN Max(Highs(ib)) ELSE NoPrice,
         ibLow |-> IF ibDone THEN Min(Lows(ib)) ELSE NoPrice,
         shape |-> Shape(metric, poc, va, high, low, close), metric |-> metric]
\* None when nothing traded, or over too few bins.
OfMetric(bars, close, n, metric) ==
    LET poc == Poc(metric, Vwap(bars))
    IN  IF metric = <<>> \/ SumOf(metric, DOMAIN metric) = 0 THEN NoProfile
        ELSE Stated(bars, close, n, metric, poc, ValueArea(metric, poc))
OfBars(kind, bars, close, n) ==
    IF DOMAIN bars = {} \/ (Max(Highs(bars)) \div Bin) - (Min(Lows(bars)) \div Bin) + 1 < MinBins THEN NoProfile
    ELSE OfMetric(bars, close, n, Metric(kind, bars, n))
BuildProfile(kind, series, n) ==
    OfBars(kind, Restrict(series, {i \in DOMAIN series : PeriodOf(series[i].ts, n) # 0}),
           LastOf(series).close, n)

\* market_profile: none before enough periods have printed.
Kinds(tpo, volume) ==
    CASE tpo = NoProfile -> <<>>
      [] tpo # NoProfile /\ volume = NoProfile -> "TPO" :> tpo
      [] OTHER -> ("TPO" :> tpo) @@ ("VOLUME" :> volume)
Profiles(series, hasVolume) ==
    LET n == Len(Periods)
        elapsed == {PeriodOf(series[i].ts, n) : i \in DOMAIN series} \ {0}
    IN  IF Cardinality(elapsed) < MinPeriods THEN <<>>
        ELSE Kinds(BuildProfile("TPO", series, n), IF hasVolume THEN BuildProfile("VOLUME", series, n) ELSE NoProfile)
=============================================================================
