---------------------------- MODULE IndexBreadth ----------------------------
(***************************************************************************)
(* Which names carry an index (analytical_core/indices/constituents.py and *)
(* services.index_constituents).  Weights are percents, a contribution is  *)
(* in thousandths of an index percent.                                     *)
(***************************************************************************)
EXTENDS DayViews

CONSTANTS
    WeightPct,  \* the weight of each name there may be, in percent
    Sector      \* its sector

\* A day replayed: the last close on or before it, against the one before.
Replay(bars, date) ==
    LET past == SelectSeq(Zip(SubSeq(Dates, 1, Len(bars)), bars), LAMBDA x : x[1] <= date)
        n == Len(past)
    IN  IF n = 0 THEN NoRead ELSE [last |-> past[n][2].close, prior |-> IF n > 1 THEN past[n - 1][2].close ELSE NoTime]

\* _ltp_prev: by the net change if the quote has one; its close is today's once
\* the market is shut.
LtpPrev(quote) ==
    [last |-> quote.price, prior |-> IF quote.net # NoTime THEN quote.price - quote.net ELSE quote.close]

Valued(quote) == quote # NoRead /\ quote.prior \notin {NoTime, 0}
Contribution(name, quote) == Quot(1000 * WeightPct[name] * (quote.last - quote.prior), quote.prior)

\* Slip: a name without a quote is ranked with a move of none.
ViewRanksAll(names, quotes, index) ==
    LET value(x) == IF Valued(quotes[x]) THEN Contribution(x, quotes[x]) ELSE 0
        valued == {x \in names : Valued(quotes[x])}
        sum(S) == MapThenSumSet(value, S)
    IN  [ranks |-> {<<x, 1 + Cardinality({y \in names : value(y) > value(x)})>> : x \in names},
         sectors |-> {<<s, sum({x \in names : Sector[x] = s})>> : s \in {Sector[x] : x \in names}},
         covered |-> Cardinality(valued), ups |-> {x \in valued : value(x) > 0}, downs |-> {x \in valued : value(x) < 0},
         net |-> sum(names), tilt |-> 0, move |-> sum(names), top |-> Max({WeightPct[x] : x \in names})]

\* build_constituent_view: a name without a usable quote keeps its weight but has
\* no contribution and no rank; the move of an index without a quote is the sum
\* of the contributions.
ConstituentView(names, quotes, index) ==
    LET valued == {x \in names : Valued(quotes[x])}
        value(x) == Contribution(x, quotes[x])
        sum(S) == MapThenSumSet(value, S \cap valued)
        weight(S) == MapThenSumSet(LAMBDA x : WeightPct[x], S)
        ups == {x \in valued : quotes[x].last > quotes[x].prior}
        downs == {x \in valued : quotes[x].last < quotes[x].prior}
    IN  [ranks |-> {<<x, 1 + Cardinality({y \in valued : value(y) > value(x)})>> : x \in valued},
         sectors |-> {<<s, sum({x \in names : Sector[x] = s})>> : s \in {Sector[x] : x \in names}},
         covered |-> Cardinality(valued), ups |-> ups, downs |-> downs,
         net |-> sum(valued), tilt |-> weight(ups) - weight(downs),
         move |-> IF Valued(index) THEN Quot(100000 * (index.last - index.prior), index.prior) ELSE sum(valued),
         top |-> Max({WeightPct[x] : x \in names})]

\* returns, in thousandths.
Returns(closes) ==
    FoldLeft(LAMBDA s, i : Append(s, Quot(1000 * (closes[i + 1] - closes[i]), closes[i])), <<>>, [i \in 1..(Len(closes) - 1) |-> i])

\* beta_correlation, as a quotient: the last returns of both, paired from the end.
Beta(index, stock) ==
    LET n == Min({Len(index), Len(stock)})
        xs == Tail2(index, n)
        ys == Tail2(stock, n)
        Dot(s, t) == FoldLeft(LAMBDA sum, x : sum + x[1] * x[2], 0, Zip(s, t))
        var == n * Dot(xs, xs) - Total(xs) * Total(xs)
    IN  IF n < 2 THEN NoRead ELSE IF var = 0 THEN NoRead ELSE <<n * Dot(xs, ys) - Total(xs) * Total(ys), var>>
=============================================================================
