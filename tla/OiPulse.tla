------------------------------- MODULE OiPulse -------------------------------
(***************************************************************************)
(* The day's open interest of one expiry, minute by minute                 *)
(* (options/oi_pulse.py): the ladder of strikes now, the trace of the      *)
(* whole chain at regular marks, the grid of strikes at a few marks, and   *)
(* one contract's own trace.  A series is a sequence of <<minute, value>>; *)
(* a tape gives each contract its series oi, px and vol.                   *)
(***************************************************************************)
EXTENDS OptionChain, OIBehavior, SequencesExt

CONSTANTS
    Recent,       \* recent_window_min
    TraceStep,    \* trace_step_min
    Grace         \* trace_end_grace_min

Last2(s) == IF s = <<>> THEN None ELSE s[Len(s)][2]
\* Python's "v or d"
Or(v, d) == IF v \in {None, 0} THEN d ELSE v

\* Slip: the sample nearest to t, though it be a later one.
AtNearest(s, t) ==
    IF s = <<>> THEN None
    ELSE s[CHOOSE i \in DOMAIN s : \A j \in DOMAIN s : 2 * Abs(s[i][1] - t) <= 2 * Abs(s[j][1] - t) + (IF i <= j THEN 0 ELSE -1)][2]
\* The latest sample at or before t, or else the first.
AtOrBefore(s, t) ==
    IF s = <<>> THEN None
    ELSE s[Max({1} \cup {i \in DOMAIN s : s[i][1] <= t})][2]
SumAtOrBefore(s, t) == FoldSet(LAMBDA i, acc : acc + s[i][2], 0, {i \in DOMAIN s : s[i][1] <= t})

OpenOI(s, open) == IF s = <<>> THEN 0 ELSE Or(AtOrBefore(s, open), s[1][2])

\* Beyond 0.05 % of what it was.
PriceDir(ltp, base) == IF ltp = None \/ base <= 0 THEN "FLAT" ELSE Direction(2000 * (ltp - base), base)

PulseLeg(x, open, now) ==
    LET oi == OrZero(Last2(x.oi))
        atOpen == OpenOI(x.oi, open)
        recent == Or(AtOrBefore(x.oi, now - Recent), atOpen)
        ltp == Last2(x.px)
        label(base, change) == IF x.oi = <<>> THEN "NO_DATA" ELSE ClassifyOI(PriceDir(ltp, base), Direction(change, 0))
    IN  [oi |-> oi, atOpen |-> atOpen, session |-> oi - atOpen, recent |-> oi - recent, ltp |-> ltp,
         buildup |-> label(AtOrBefore(x.px, now - Recent), oi - recent),
         buildupSession |-> label(AtOrBefore(x.px, open), oi - atOpen)]

\* Who writes or covers, on the side that moved more: at least 1 % of the whole.
Bias(ce, pe, total) ==
    LET net == IF Abs(ce) >= Abs(pe) THEN ce ELSE pe
        side == IF Abs(ce) >= Abs(pe) THEN "CALL" ELSE "PUT"
    IN  IF net = 0 \/ 100 * Abs(net) < Max({total, 100}) THEN "BALANCED"
        ELSE <<side, IF net > 0 THEN "WRITING" ELSE "UNWINDING">>
\* |diff| above 5 % of what moved, and above 1.
Sentiment(diff, ce, pe) ==
    LET eps == Max({5 * (Abs(ce) + Abs(pe)), 100})
    IN  CASE 100 * diff > eps -> "Bullish" [] 100 * diff < -eps -> "Bearish" [] OTHER -> "Neutral"

\* The marks from the open, and the end itself.
Marks(open, end) ==
    LET n == (end - open + TraceStep - 1) \div TraceStep
    IN  Append([i \in 1..n |-> open + (i - 1) * TraceStep], end)

\* The whole chain at one mark; contracts never seen yet are left out.
AtMark(tape, open, m) ==
    LET seen(side) == {c \in DOMAIN tape : c[2] = side /\ tape[c].oi # <<>>}
        now(c) == AtOrBefore(tape[c].oi, m)
        oi(side) == [s \in StrikesOf(seen(side)) |-> now(<<s, side>>)]
        change(side) == MapThenSumSet(LAMBDA c : now(c) - OpenOI(tape[c].oi, open), seen(side))
        volume(side) == MapThenSumSet(LAMBDA c : SumAtOrBefore(tape[c].vol, m), seen(side))
    IN  [ts |-> m, ce |-> change(CE), pe |-> change(PE), ceOI |-> Total(oi(CE)), peOI |-> Total(oi(PE)),
         ceVol |-> volume(CE), peVol |-> volume(PE), maxPain |-> MaxPain(StrikesOf(DOMAIN tape), oi(CE), oi(PE)),
         sentiment |-> Sentiment(change(PE) - change(CE), change(CE), change(PE))]
Traced(tape, m) == \E c \in DOMAIN tape : tape[c].oi # <<>> /\ tape[c].oi[1][1] <= m
\* With each point, what moved since the point before it.
Moved(p, q) == p @@ [ceDelta |-> p.ce - q.ce, peDelta |-> p.pe - q.pe, turn |-> (p.pe - p.ce) - (q.pe - q.ce)]
BuildTrace(tape, open, end) ==
    IF end <= open THEN <<>>
    ELSE FoldLeft(LAMBDA acc, m :
                     IF ~Traced(tape, m) THEN acc
                     ELSE Append(acc, Moved(AtMark(tape, open, m), IF acc = <<>> THEN [ce |-> 0, pe |-> 0] ELSE acc[Len(acc)])),
                  <<>>, Marks(open, end))

\* The contracts within a band of strikes around the money; None is no limit.
Banded(tape, spot, up, down) ==
    LET S == StrikesOf(DOMAIN tape)
        atm == Nearest(S, spot)
        gaps == {b - a : <<a, b>> \in {q \in S \X S : q[1] < q[2]}}
        within(s) == /\ up # None => 2 * s <= 2 * atm + (2 * up + 1) * Min(gaps)
                     /\ down # None => 2 * s >= 2 * atm - (2 * down + 1) * Min(gaps)
    IN  IF gaps = {} THEN DOMAIN tape ELSE {c \in DOMAIN tape : within(c[1])}

BuildPulse(tape, spot, open, close, now, up, down) ==
    LET legs == [c \in DOMAIN tape |-> PulseLeg(tape[c], open, now)]
        ladder(side) == SideOf([c \in DOMAIN legs |-> legs[c].oi], side)
        opening(side) == SideOf([c \in DOMAIN legs |-> legs[c].atOpen], side)
        change(side) == SideOf([c \in DOMAIN legs |-> legs[c].session], side)
        kept == Banded(tape, spot, up, down)
        wall(side) == IF DOMAIN ladder(side) = {} THEN None ELSE Hottest(ladder(side))
    IN  [legs |-> legs, hot |-> Crowded(change(CE), change(PE)),
         ceOI |-> Total(ladder(CE)), peOI |-> Total(ladder(PE)),
         ceNet |-> Total(change(CE)), peNet |-> Total(change(PE)),
         maxPain |-> MaxPain(StrikesOf(DOMAIN tape), ladder(CE), ladder(PE)),
         maxPainOpen |-> MaxPain(StrikesOf(DOMAIN tape), opening(CE), opening(PE)),
         support |-> wall(PE), resistance |-> wall(CE),
         bias |-> Bias(Total(change(CE)), Total(change(PE)), Total(ladder(CE)) + Total(ladder(PE))),
         trace |-> BuildTrace([c \in kept |-> tape[c]], open, Min({now, close + Grace}))]

\* One contract at each mark: its interest, what it changed by since the mark
\* before, its premium.
Cells(x, marks) ==
    [i \in DOMAIN marks |->
        LET oi == AtOrBefore(x.oi, marks[i])
        IN  [oi |-> oi, delta |-> IF i = 1 \/ oi = None THEN None ELSE oi - AtOrBefore(x.oi, marks[i - 1]),
             ltp |-> AtOrBefore(x.px, marks[i])]]
BuildLadder(tape, marks, spot, up, down) ==
    [c \in Banded(tape, spot, up, down) |-> Cells(tape[c], marks)]

\* One contract's premiums, each with the underlying and the interest then.
BuildLtpTrace(x, spots) ==
    [i \in DOMAIN x.px |->
        [ts |-> x.px[i][1], ltp |-> x.px[i][2], spot |-> AtOrBefore(spots, x.px[i][1]),
         oi |-> AtOrBefore(x.oi, x.px[i][1]),
         change |-> IF x.oi = <<>> THEN None ELSE AtOrBefore(x.oi, x.px[i][1]) - x.oi[1][2]]]

\* The biggest adds and drops of the pulse, and where a strike lies.
Moneyness(c, spot) ==
    LET far == 1000 * Abs(c[1] - spot)
        within == IF c[2] = CE THEN c[1] < spot ELSE c[1] > spot
    IN  CASE far <= 3 * spot -> <<"ATM">>
          [] OTHER -> <<IF far > 20 * spot THEN "DEEP" ELSE "NEAR", IF within THEN "ITM" ELSE "OTM">>
Movers(pulse, spot, want, top) ==
    LET kept == {c \in DOMAIN pulse.legs : Moneyness(c, spot) \in want}
        ranked(C, key(_)) == {c \in C : Cardinality({d \in C : key(d) > key(c)}) < top}
    IN  [added |-> ranked({c \in kept : pulse.legs[c].session > 0}, LAMBDA c : pulse.legs[c].session),
         reduced |-> ranked({c \in kept : pulse.legs[c].session < 0}, LAMBDA c : -pulse.legs[c].session)]
=============================================================================
