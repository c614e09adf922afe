------------------------------ MODULE BarStore ------------------------------
(***************************************************************************)
(* The bars of one instrument and their two writers: the stream, which     *)
(* builds one-minute bars from ticks, and the backfill, which fetches them *)
(* by REST from the date of its watermark on, for the cycle and for the    *)
(* analytical-backfill command at once.                                    *)
(*                                                                         *)
(* Trade i is the i-th trade of the instrument; trades[i] is its minute.   *)
(* A committed row tells which trades' prices it was made from (seen), its *)
(* volume, finality and, as a history, its writer.  Each writer's          *)
(* transaction keeps its rows from the other until it commits.             *)
(***************************************************************************)
EXTENDS M1Builder, BarAggregation, Sequences, Functions

CONSTANTS
    Jobs,          \* callers of BackfillService.run: the cycle, the command
    TradingDays,   \* days with a row in market_calendar
    Warmup, Cooldown,       \* of the gate, in minutes
    LookbackDays,  \* backfill_m1_days
    RepairBars,    \* backfill_repair_lookback_bars
    Interval,      \* minutes of an aggregated bar
    MaxTime, MaxTrades, MaxFrames, MaxConnects, MaxFetches   \* bounds

ASSUME BarStoreAssumption ==
    LookbackDays \in Nat /\ RepairBars \in Nat /\ Interval \in Nat \ {0} /\ MaxTime \in Nat

VARIABLES
    now,       \* minutes since the first midnight
    trades,    \* the exchange's trades so far
    pipe,      \* a frame on its way, or NoFrame
    volumeDay, \* the day whose volume the feed reports
    stream,    \* the ingestor: up, its bucket, its uncommitted rows, and
               \* whether a flush is due
    rows,      \* ohlcv_bars, M1: the committed rows
    agg,       \* ohlcv_bars of the aggregated timeframe
    wm, wmD1,  \* last_complete_ts of M1 (a minute) and D1 (a day), -1 if none
    verified,  \* the finished minutes that a backfill has ever stored whole, a
               \* history for the properties
    job,       \* each backfill's progress
    spent      \* frames, connects, fetches used of the bounds

vars == <<now, trades, pipe, volumeDay, stream, rows, agg, wm, wmD1, verified, job, spent>>

Minutes == 0..MaxTime
NoFrame == [ts |-> -1]
Idle == [at |-> "idle"]
TradesOf(ms) == {i \in DOMAIN trades : trades[i] \in ms}
DayMinutes(d) == {m \in Minutes : trading_date_of(m) = d}
\* Rows as a set: writing bars replaces the rows of the same minutes.
Upsert(stored, bars) ==
    {r \in stored : r.minute \notin {b.minute : b \in bars}} \cup bars
RowOf(stored, m) == CHOOSE r \in stored : r.minute = m
HasRow(stored, m) == m \in {r.minute : r \in stored}

\* A bar that holds every trade of its minute.
Whole(b) == b.seen = TradesOf({b.minute}) /\ b.volume = Cardinality(TradesOf({b.minute}))

\* The bar the exchange reports for a minute.
ExchangeBar(m, final) ==
    [minute |-> m, seen |-> TradesOf({m}), volume |-> Cardinality(TradesOf({m})),
     is_final |-> final, by |-> "rest"]

Init ==
    /\ now = 0 /\ trades = <<>> /\ pipe = NoFrame /\ volumeDay = 0
    /\ stream = [up |-> FALSE, bucket |-> NoBucket, dirty |-> {}, due |-> FALSE]
    /\ rows = {} /\ agg = {} /\ wm = -1 /\ wmD1 = -1 /\ verified = {}
    /\ job = [j \in Jobs |-> Idle]
    /\ spent = [frames |-> 0, connects |-> 0, fetches |-> 0]

-----------------------------------------------------------------------------
\* The exchange trades within the session; time passes, but a frame is not
\* under way for longer than a minute.
Trade ==
    /\ Len(trades) < MaxTrades /\ trading_date_of(now) \in TradingDays
    /\ InWindow(nse_session_window(trading_date_of(now)), now)
    /\ trades' = Append(trades, now)
    /\ volumeDay' = trading_date_of(now)
    /\ UNCHANGED <<now, pipe, stream, rows, agg, wm, wmD1, verified, job, spent>>

Advance ==
    /\ now < MaxTime /\ (pipe # NoFrame => pipe.sent = now)
    /\ now' = now + 1
    /\ stream' = [stream EXCEPT !.due = stream.up]
    /\ UNCHANGED <<trades, pipe, volumeDay, rows, agg, wm, wmD1, verified, job, spent>>

\* A frame, _to_tick: the last trade with its time, because of a trade or of a
\* quote.  The day's volume starts anew some time before the day's first trade.
SendFrame ==
    /\ stream.up /\ pipe = NoFrame /\ trades # <<>> /\ spent.frames < MaxFrames
    /\ LET last == Len(trades) IN
       /\ volumeDay' \in {volumeDay, trading_date_of(now)}
       /\ pipe' = [ts |-> trades[last], trade |-> last, sent |-> now,
                   cum_volume |-> Cardinality(TradesOf(DayMinutes(volumeDay')))]
    /\ spent' = [spent EXCEPT !.frames = @ + 1]
    /\ UNCHANGED <<now, trades, stream, rows, agg, wm, wmD1, verified, job>>

-----------------------------------------------------------------------------
(* The stream: serve(), StreamIngestor.run and its transaction.             *)

\* evaluate_gate, with gating by session.
GateOpen(t) ==
    LET w == nse_session_window(trading_date_of(t)) IN
    /\ trading_date_of(t) \in TradingDays
    /\ w.open - Warmup <= t /\ t < w.close + Cooldown

\* Rows of a backfill that has written and not committed are locked.
Locked(bars) ==
    \E j \in Jobs : job[j].at = "stored" /\
        {b.minute : b \in bars} \cap {b.minute : b \in job[j].bars} # {}

Connect ==
    /\ ~stream.up /\ GateOpen(now) /\ spent.connects < MaxConnects
    /\ stream' = [up |-> TRUE, bucket |-> NoBucket, dirty |-> {}, due |-> FALSE]
    /\ spent' = [spent EXCEPT !.connects = @ + 1]
    /\ UNCHANGED <<now, trades, pipe, volumeDay, rows, agg, wm, wmD1, verified, job>>

\* One turn of the loop of run(): the tick, and a flush with a commit if one is
\* due; within the minute of the last flush it may be due as well.
Turn(ticked, flush) ==
    LET flushed == Flush(ticked.bucket, now)
        written == Upsert(Upsert(stream.dirty, ticked.bars), IF flush THEN flushed.bars ELSE {})
    IN  /\ ~Locked(ticked.bars \cup (IF flush THEN flushed.bars ELSE {}))
        /\ stream' = IF flush
             THEN [up |-> TRUE, bucket |-> flushed.bucket, dirty |-> {}, due |-> FALSE]
             ELSE [stream EXCEPT !.bucket = ticked.bucket, !.dirty = written]
        /\ rows' = IF flush THEN Upsert(rows, written) ELSE rows

ReceiveTick ==
    /\ stream.up /\ pipe # NoFrame
    /\ \E flush \in {f \in BOOLEAN : stream.due => f} : Turn(OnTick(stream.bucket, pipe), flush)
    /\ pipe' = NoFrame
    /\ UNCHANGED <<now, trades, volumeDay, agg, wm, wmD1, verified, job, spent>>

\* A tick of another instrument of the same connection.
OtherTick ==
    /\ stream.up /\ stream.due
    /\ Turn([bucket |-> stream.bucket, bars |-> {}], TRUE)
    /\ UNCHANGED <<now, trades, pipe, volumeDay, agg, wm, wmD1, verified, job, spent>>

\* The feed ends or stop() is called: flush as of tomorrow, which marks the
\* forming bars final, and commit.
FeedEnds ==
    LET flushed == Flush(stream.bucket, now + DayLen + Grace + 1) IN
    /\ stream.up /\ ~Locked(flushed.bars)
    /\ rows' = Upsert(rows, Upsert(stream.dirty, flushed.bars))
    /\ stream' = [up |-> FALSE, bucket |-> NoBucket, dirty |-> {}, due |-> FALSE]
    /\ pipe' = NoFrame
    /\ UNCHANGED <<now, trades, volumeDay, agg, wm, wmD1, verified, job, spent>>

\* Any error, of the feed or the database, or a crash: the rows not committed
\* are lost and with them the accumulator.
FeedFails ==
    /\ stream.up
    /\ stream' = [up |-> FALSE, bucket |-> NoBucket, dirty |-> {}, due |-> FALSE]
    /\ pipe' = NoFrame
    /\ UNCHANGED <<now, trades, volumeDay, rows, agg, wm, wmD1, verified, job, spent>>
-----------------------------------------------------------------------------
(* The backfill: BackfillService.run of one instrument.                     *)

\* Slip: the watermark is where the fetch resumes.
M1StartNextDay ==
    LET floor == now - LookbackDays * DayLen IN
    trading_date_of(Max0(0, Max0(floor, IF wm = -1 THEN floor ELSE wm + SessionLen)))

\* _plan, not repair_only and without --start: resume some bars before the
\* watermark, never before the lookback; _session_floor and fetch_candles make
\* it a whole day.
M1Start ==
    LET floor == now - LookbackDays * DayLen IN
    trading_date_of(Max0(0, Max0(floor, IF wm = -1 THEN floor ELSE wm - RepairBars)))

\* fetch_candles: past days from the historical endpoint, today from the
\* intraday endpoint, whose last bar may still be forming.
FetchCandles(from) ==
    LET traded == {m \in {trades[i] : i \in DOMAIN trades} : trading_date_of(m) >= from}
    IN  {ExchangeBar(m, ~(trading_date_of(m) = trading_date_of(now) /\ \A k \in traded : k <= m)) :
           m \in traded}

LastFinal(bars) == Max({b.minute : b \in {b \in bars : b.is_final}} \cup {-1})

\* _plan and _fetch.  The provider may fail before or after the daily bars, of
\* which those of past days are final.
Fetch(j) ==
    /\ job[j] = Idle /\ spent.fetches < MaxFetches
    /\ \E got \in {"all", "daily", "none"} :
         LET m1 == IF got = "all" THEN FetchCandles(M1Start) ELSE {}
             days == {trading_date_of(trades[i]) : i \in DOMAIN trades} \ {trading_date_of(now)}
         IN  job' = [job EXCEPT ![j] = [at |-> "fetched", bars |-> m1, prev |-> -1,
                       day |-> IF got = "none" THEN -1 ELSE Max(days \cup {-1})]]
    /\ spent' = [spent EXCEPT !.fetches = @ + 1]
    /\ UNCHANGED <<now, trades, pipe, volumeDay, stream, rows, agg, wm, wmD1, verified>>

\* _persist begins: _write_wm reads the watermark of D1 ...
ReadDaily(j) ==
    /\ job[j].at = "fetched"
    /\ job' = [job EXCEPT ![j].at = "read", ![j].prev = wmD1]
    /\ UNCHANGED <<now, trades, pipe, volumeDay, stream, rows, agg, wm, wmD1, verified, spent>>

\* ... and writes it back.  From here to the commit the other caller waits for
\* this row.  The M1 bars follow; they wait for the stream's uncommitted rows.
StoreBars(j) ==
    /\ job[j].at = "read" /\ \A k \in Jobs : job[k].at # "stored"
    /\ {b.minute : b \in job[j].bars} \cap {r.minute : r \in stream.dirty} = {}
    /\ job' = [job EXCEPT ![j].at = "stored", ![j].prev = Max0(@, job[j].day)]
    /\ UNCHANGED <<now, trades, pipe, volumeDay, stream, rows, agg, wm, wmD1, verified, spent>>

\* Slip: _write_wm forgets the watermark there was.
CommitBarsAnew(j) ==
    /\ job[j].at = "stored"
    /\ rows' = Upsert(rows, job[j].bars)
    /\ agg' = Upsert(agg, aggregate_m1(job[j].bars, Interval, now))
    /\ wm' = LastFinal(job[j].bars)
    /\ wmD1' = job[j].prev
    /\ verified' = verified \cup {b.minute : b \in {b \in job[j].bars : b.minute < now /\ Whole(b)}}
    /\ job' = [job EXCEPT ![j] = Idle]
    /\ UNCHANGED <<now, trades, pipe, volumeDay, stream, spent>>

\* The rest of _persist, the watermark of M1 and the aggregation, and the commit.
CommitBars(j) ==
    /\ job[j].at = "stored"
    /\ rows' = Upsert(rows, job[j].bars)
    /\ agg' = Upsert(agg, aggregate_m1(job[j].bars, Interval, now))
    /\ wm' = Max0(wm, LastFinal(job[j].bars))
    /\ wmD1' = job[j].prev
    /\ verified' = verified \cup {b.minute : b \in {b \in job[j].bars : b.minute < now /\ Whole(b)}}
    /\ job' = [job EXCEPT ![j] = Idle]
    /\ UNCHANGED <<now, trades, pipe, volumeDay, stream, spent>>

\* The cycle's transaction is rolled back, or the process dies.
AbortJob(j) ==
    /\ job[j] # Idle
    /\ job' = [job EXCEPT ![j] = Idle]
    /\ UNCHANGED <<now, trades, pipe, volumeDay, stream, rows, agg, wm, wmD1, verified, spent>>

-----------------------------------------------------------------------------
Next ==
    \/ Trade \/ Advance \/ SendFrame
    \/ Connect \/ ReceiveTick \/ OtherTick \/ FeedEnds \/ FeedFails
    \/ \E j \in Jobs : Fetch(j) \/ ReadDaily(j) \/ StoreBars(j) \/ CommitBars(j) \/ AbortJob(j)

Spec == Init /\ [][Next]_vars

\* A backfill in progress goes on.  Frames come from outside: nothing obliges
\* one to come.
FairSpec == Spec /\ \A j \in Jobs : WF_vars(ReadDaily(j) \/ StoreBars(j) \/ CommitBars(j))

-----------------------------------------------------------------------------
\* Whatever the stream has made of a finished minute, by a quote that reopens it,
\* a lost connection, a bucket restarted: the next fetch begins at or before its
\* day and overwrites it, unless the minute is older than the lookback or a
\* backfill has stored it whole before.  No minute leaves the reach of the
\* backfill unverified: the stream does not move the watermark, and the fetch is
\* of whole days.
Damaged(m) ==
    /\ TradesOf({m}) # {} /\ m + 1 + Grace <= now
    /\ ~HasRow(rows, m) \/ ~Whole(RowOf(rows, m))
InReach(m) ==
    \/ trading_date_of(m) >= M1Start
    \/ trading_date_of(m) < trading_date_of(Max0(0, now - LookbackDays * DayLen))
DamageInReach == \A m \in Minutes : Damaged(m) => InReach(m) \/ m \in verified

\* The same for verified minutes: refuted by a quote of an earlier day's trade
\* that is still on its way, or in a bucket, when the watermark moves on.
DamageAlwaysInReach == \A m \in Minutes : Damaged(m) => InReach(m)

\* The minutes the stream has stored never count more volume than was traded on
\* their day: a volume is carried from bucket to bucket across rolls, drops and
\* reconnects without being counted twice.
VolumeNotInvented ==
    \A d \in {trading_date_of(m) : m \in Minutes} :
        MapThenSumSet(LAMBDA r : r.volume,
            {r \in rows \cup {s \in stream.dirty : ~HasRow(rows, s.minute)} :
                r.by = "stream" /\ trading_date_of(r.minute) = d})
          <= Cardinality(TradesOf(DayMinutes(d)))

\* An aggregated bar that says it is final holds every trade of its period, also
\* when an older fetch is stored after a newer one.
AggregatesWhole ==
    \A r \in agg : r.is_final =>
        r.seen = TradesOf({m \in Minutes : r.minute <= m /\ m < r.minute + Interval
                             /\ InWindow(nse_session_window(trading_date_of(r.minute)), m)})

\* backfill.py, _write_wm: "never move the watermark backwards", for M1.  Two
\* callers read and write it back; what keeps the second from an old value is
\* that it waits for the first at the row of D1, which comes before.
WatermarkForward == [][wm' >= wm]_wm

\* The same for D1, whose row is the first and guarded by nothing: refuted.
DailyWatermarkForward == [][wmD1' >= wmD1]_wmD1

\* A bar once final does not lose prices again: refuted by a quote that arrives
\* when the bucket of its last trade's minute has been dropped.
FinalBarsKept ==
    [][\A r \in rows : r.is_final => r.seen \subseteq RowOf(rows', r.minute).seen]_rows

\* The cycle is untouched by the stream: refuted, the stream commits only when a
\* tick comes, and until then a backfill waits for its rows.
BackfillEnds == \A j \in Jobs : job[j] # Idle ~> job[j] = Idle
=============================================================================
