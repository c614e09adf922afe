----------------------------- MODULE M1Builder -----------------------------
(***************************************************************************)
(* The builder of one-minute bars from ticks, analytical_core/streaming.   *)
(* A tick reports the last trade (whose price is the tick's ltp), its time *)
(* and the volume traded so far in the day.  Open, high, low and close of  *)
(* a bar are functions of the trades whose prices it has seen, so `seen'   *)
(* stands for them.  Time is counted in minutes.                           *)
(***************************************************************************)
EXTENDS Integers

CONSTANT Grace      \* finalize_grace_seconds, in minutes rounded up

ASSUME GraceAssumption == Grace \in Nat

NoBucket == [minute |-> -1]

Max0(a, b) == IF a >= b THEN a ELSE b

\* _is_final: the minute ended at least the grace ago.
IsFinal(minute, at) == at >= minute + 1 + Grace

\* Slip: a first bucket counts all the volume of the day as its own.
StartFromZero(t, base) ==
    [minute |-> t.ts, seen |-> {t.trade}, last_cum |-> t.cum_volume,
     open_cum |-> IF base = t.cum_volume THEN 0 ELSE base]

\* _Bucket.start: the first tick of a minute; base is the volume carried from
\* the bucket before, or the tick's own volume if there is none.
Start(t, base) ==
    [minute |-> t.ts, seen |-> {t.trade}, open_cum |-> base, last_cum |-> t.cum_volume]

\* _Bucket.update.
Update(b, t) ==
    [b EXCEPT !.seen = @ \cup {t.trade}, !.last_cum = Max0(@, t.cum_volume)]

\* _Bucket.to_bar.
ToBar(b, final) ==
    [minute |-> b.minute, seen |-> b.seen,
     volume |-> Max0(0, b.last_cum - b.open_cum), is_final |-> final, by |-> "stream"]

\* M1Accumulator.on_tick: the bucket after the tick and the bars it closed.  A
\* tick of an earlier minute than the bucket's is ignored.
OnTick(b, t) ==
    IF b = NoBucket THEN [bucket |-> Start(t, t.cum_volume), bars |-> {}]
    ELSE IF t.ts < b.minute THEN [bucket |-> b, bars |-> {}]
    ELSE IF t.ts = b.minute THEN [bucket |-> Update(b, t), bars |-> {}]
    ELSE [bucket |-> Start(t, b.last_cum), bars |-> {ToBar(b, IsFinal(b.minute, t.ts))}]

\* M1Accumulator.flush: a bucket past its grace is finished and dropped, any
\* other is written as it is.
Flush(b, at) ==
    IF b = NoBucket THEN [bucket |-> b, bars |-> {}]
    ELSE IF IsFinal(b.minute, at) THEN [bucket |-> NoBucket, bars |-> {ToBar(b, TRUE)}]
    ELSE [bucket |-> b, bars |-> {ToBar(b, FALSE)}]
=============================================================================
