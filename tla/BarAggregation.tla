-------------------------- MODULE BarAggregation --------------------------
(***************************************************************************)
(* ingestion/session.py and ingestion/aggregation.py: the grid of a        *)
(* trading day's session and the fold of one-minute bars onto it.  Minute  *)
(* m of day d is d * DayLen + m; the session is the first SessionLen       *)
(* minutes of a day.  A set of bars is a set of records with a field       *)
(* minute.                                                                 *)
(***************************************************************************)
EXTENDS Integers, FiniteSetsExt

CONSTANTS DayLen, SessionLen, AggGrace

ASSUME DayAssumption ==
    DayLen \in Nat /\ SessionLen \in 1..DayLen /\ AggGrace \in Nat

trading_date_of(m) == m \div DayLen
nse_session_window(d) == [open |-> d * DayLen, close |-> d * DayLen + SessionLen]
InWindow(w, m) == w.open <= m /\ m < w.close

\* session_grid: whole periods from the open, and a shorter one at the close if
\* the session is no multiple of the interval.
session_grid(w, interval) ==
    {[start |-> w.open + k * interval, end |-> Min({w.open + (k + 1) * interval, w.close})] :
        k \in 0..((w.close - w.open - 1) \div interval)}

\* Slip: the finality of the children is forgotten.
FoldByClock(period, kids, now) ==
    [minute |-> period.start,
     seen |-> UNION {b.seen : b \in kids},
     volume |-> MapThenSumSet(LAMBDA b : b.volume, kids),
     is_final |-> now >= period.end + AggGrace]

\* _fold_period.
FoldPeriod(period, kids, now) ==
    [minute |-> period.start,
     seen |-> UNION {b.seen : b \in kids},
     volume |-> MapThenSumSet(LAMBDA b : b.volume, kids),
     is_final |-> (\A b \in kids : b.is_final) /\ now >= period.end + AggGrace]

\* aggregate_m1: one bar per period that has children; bars outside their
\* session are left out, and no bar is made for an empty period.
aggregate_m1(bars, interval, now) ==
    {FoldPeriod(p, {b \in bars : p.start <= b.minute /\ b.minute < p.end}, now) :
        p \in {p \in UNION {session_grid(nse_session_window(d), interval) :
                              d \in {trading_date_of(b.minute) : b \in bars}} :
                 \E b \in bars : p.start <= b.minute /\ b.minute < p.end}}
=============================================================================
