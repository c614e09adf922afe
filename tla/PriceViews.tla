---------------------------- MODULE PriceViews ----------------------------
(***************************************************************************)
(* The views of the API over the same series: its bars as days for the      *)
(* views by day, as minutes for the grids and the key levels.              *)
(***************************************************************************)
EXTENDS Prices, IndexBreadth

\* A session whose bars make the day b.
SessionOf(b) == [poc |-> b.open, vah |-> Top(b), val |-> Bottom(b), ibHigh |-> b.high, ibLow |-> b.low,
                 high |-> b.high, low |-> b.low, close |-> b.close]
Sessions(s) == FoldLeft(LAMBDA t, b : Append(t, SessionOf(b)), <<>>, s)
Digest(s) == DigestRows(s, Sessions(s))
Names == <<"whole", "down", "new">>

\* All screens mean the same day and the same numbers by the day before: the board,
\* the digest and the levels of a constituent at any hour, and the daily pivots
\* while the newest day is in progress (once it is over they do not name the day
\* that is, see CurrentIsLastCompleted).  The newest period is made of its days and closes with the newest, the
\* session read for key levels is the one of the digest, and a name that fails or
\* has no history neither hides another nor shifts its numbers or its rank.  A
\* day replayed for the names of an index is the day of the digest, and what the
\* names and the sectors contribute is the same sum.
ViewsAgree ==
    LET n == Len(bars)
        Given(x) == IF x = "whole" THEN bars ELSE IF x = "down" THEN NoRead ELSE <<bars[1]>>
        BarsOf(x) == IF x = "whole" THEN bars ELSE IF x = "down" THEN Mirror(bars) ELSE <<>>
        nobody == [x \in Range(Names) |-> NoRead]
    IN  n > 1 => \A digest \in {Digest(bars)}, stock \in {Constituent(bars, NoRead)}, board \in {Board(bars, bars[n].close)} :
        LET newest == Last(digest)
        IN
        /\ board.prior = newest.prior /\ board.change = newest.change /\ board.ref = stock.prior
        /\ Last(KeyLevels(Sessions(bars), bars[n].close, UpTo(bars, Grid.recent)).closes) = newest.value
        /\ \A sum \in {DigestSummary(digest)} : sum.highs + sum.lows = sum.days + sum.outside - sum.inside
        /\ ConstituentLevels(Names, [x \in Range(Names) |-> Given(x)], nobody)
             = [stocks |-> <<<<"whole", stock>>>>, errors |-> {"down", "new"}]
        /\ \A row \in Range(digest) : \A quotes \in {[x \in Range(Names) |-> Replay(BarsOf(x), Dates[row.at])]} :
            LET view == ConstituentView(Range(Names), quotes, NoRead)
                rank(x) == {r[2] : r \in {y \in view.ranks : y[1] = x}}
            IN  /\ quotes["whole"].last - quotes["whole"].prior = row.change
                /\ view.covered = 2 /\ rank("new") = {}
                /\ view.net = MapThenSumSet(LAMBDA s : s[2], view.sectors) /\ view.move = view.net
                /\ Contribution("whole", quotes["whole"]) > Contribution("down", quotes["down"]) => rank("whole") = {1} /\ rank("down") = {2}
        /\ \A beta \in {Beta(x, x) : x \in {Returns(Field(bars, "close"))}} : beta # NoRead => beta[1] = beta[2]
        /\ \A span \in Spans, today \in Dates[n]..Dates[n + 1] : \A block \in {PivotBlock(bars, final, span, today)} :
            LET period == block.next.from
                days == Range(Tail2(bars, period.days))
            IN  /\ span = "DAILY" /\ block.provisional => block.current.set = stock.set /\ block.current.from.high = newest.high
                /\ period.close = bars[n].close
                /\ period.high = Max({b.high : b \in days}) /\ period.low = Min({b.low : b \in days})
                /\ period.key < PeriodOf(span, today) => ~block.provisional

\* docs/05-ANALYSIS-ENGINE.md:1084: the set called current is that of the last
\* completed period, in force now.  The code keeps to the period before it from
\* the moment the newest one is over until a bar of the next one is stored.
CurrentIsLastCompleted ==
    LET n == Len(bars)
    IN  n > 1 => \A span \in Spans, today \in Dates[n]..Dates[n + 1] : \A block \in {PivotBlock(bars, final, span, today)} :
            ~block.provisional => block.current = block.next

\* The views have no side: in the mirror the pivots are those of the other side,
\* at the same distance, days and dates have the other name, levels are accepted
\* and rejected from the other side, and an opening range breaks the other way.
\* A level at the price itself is excluded: it counts as rejected from above.
ViewsMirror ==
    LET n == Len(bars)
        price == bars[n].close
        turned(rows) == {[r EXCEPT !.name = Other(@), !.side = Other(@), !.distance = -@] : r \in rows}
        opposite(r) == <<r.at, -r.gap, -r.change, Other(r.beyond), Other(r.range), Other(r.type), Other(r.value), Other(r.poc)>>
        plain(r) == <<r.at, r.gap, r.change, r.beyond, r.range, r.type, r.value, r.poc>>
        lines(view) == {<<r.session, r.kind, r.distance, r.tier, r.read>> : r \in {x \in view.levels : x.distance # 0}}
        key(s, p) == KeyLevels(Sessions(SubSeq(s, 1, n - 1)), p, UpTo(s, Grid.recent))
        orb(s) == OrbBacktest("INDEX", <<s, Tail(s)>>, 1, 2)
        gaps(col) == {<<f.side, f.formed, f.swing, f.state>> : f \in col.gaps}
    IN  n > 1 => \A m \in {Mirror(bars)} :
        /\ \A mine \in {PivotsView(bars, final, Dates[n], price)}, theirs \in {PivotsView(m, final, Dates[n], Axis - price)} :
             /\ turned(mine.rows) = theirs.rows /\ turned(mine.alerts) = theirs.alerts
             /\ mine.above = theirs.below /\ mine.below = theirs.above
        /\ {<<r.year, Other(r.vs), Other(r.close), r.touched.r1, r.touched.s1>> : r \in CalendarRows(bars)}
             = {<<r.year, r.vs, r.close, r.touched.s1, r.touched.r1>> : r \in CalendarRows(m)}
        /\ \A mine \in {Digest(bars)}, theirs \in {Digest(m)} :
             /\ {opposite(r) : r \in Range(mine)} = {plain(r) : r \in Range(theirs)}
             /\ \A sum \in {DigestSummary(mine)} :
                  DigestSummary(theirs) = [sum EXCEPT !.highs = sum.lows, !.lows = sum.highs, !.above = sum.below, !.below = sum.above]
        /\ {<<x[1], Other(x[2]), -x[3], x[4], Other(x[5])>> : x \in lines(key(bars, price))} = lines(key(m, Axis - price))
        /\ orb(m) = [orb(bars) EXCEPT !.sides = [side \in DOMAIN @ |-> @[Other(side)]]]
        /\ \A mine \in {Grids("INDEX", bars, final)}, theirs \in {Grids("INDEX", m, final)}, size \in {"M5", "M30"} :
             /\ Other(mine[size].candles.bias) = theirs[size].candles.bias
             /\ {<<Other(x[1]), x[2], x[3], x[4]>> : x \in gaps(mine[size].fvg)} = gaps(theirs[size].fvg)
             /\ mine[size].crt # NoRead =>
                  theirs[size].crt = [mine[size].crt EXCEPT !.position = Other(@), !.side = Other(@), !.signal = Other(@)]

\* What a view says of the past it keeps saying.  At the step that stores or
\* revises a bar the pivots in force stay those of their period or, if the bar is
\* of a new period, become those that were announced; an announced set moves only
\* while it is called provisional.  The days of the
\* digest, the dates of a calendar, what a projection met and the half hours that
\* are final do not change with later bars; only the first half hour, cut by
\* what is loaded, does.  An unfinished bar is revised on its own day.
ViewsStand ==
    [][LET n == Len(bars)
           grown == Len(bars') = n + 1
           settled == IF grown THEN n ELSE n - 1
           today == Dates[Len(bars')]
           half(s, f) == Loaded(s, f, Grid.candles, "M30")
       IN  n > 0 =>
        /\ \A span \in Spans :
            \A before \in {PivotBlock(bars, final, span, today)}, after \in {PivotBlock(bars', final', span, today)} :
                IF PeriodOf(span, today) = PeriodOf(span, Dates[n])
                THEN after.current = before.current /\ (after.next # before.next => before.provisional)
                ELSE after.current = before.next /\ ~before.provisional
        /\ \A before \in {Digest(bars)}, after \in {Digest(bars')} :
            settled > 1 => SubSeq(after, 1, settled - 1) = SubSeq(before, 1, settled - 1)
        /\ {r \in CalendarRows(bars) : r.at <= settled} \subseteq CalendarRows(bars')
        /\ \A x \in GannView("INDEX", bars, today), y \in GannView("INDEX", bars', today) :
               <<x.anchor, x.anchorAt, x.days>> = <<y.anchor, y.anchorAt, y.days>> /\ x.resolved # NoTime => y.resolved = x.resolved
        /\ \A before \in {half(bars, final)}, after \in {half(bars', final')} :
            \A i \in 2..Len(before) : before[i].final /\ before[i].at > Head(after).at => before[i] \in Range(after)]_vars
=============================================================================
