--------------------------- MODULE BarStoreProofs ---------------------------
(***************************************************************************)
(* What BarStore keeps for any lookback, repair, interval, day and number  *)
(* of callers: no minute leaves the reach of the backfill unverified, a    *)
(* final aggregate is whole, the watermark of M1 never goes back, and the  *)
(* stream stores no more volume of a day than was traded on it.            *)
(*                                                                         *)
(* A backfill acts on bars fetched earlier.  The invariant says what still *)
(* holds of them when they are stored, whatever was traded and committed   *)
(* meanwhile: final ones are whole, the newest of a current day is not     *)
(* final, and up to it none is missing.  The last two are what keeps an    *)
(* aggregate made late from looking whole, and the watermark from passing  *)
(* a minute that nobody verified.  The stream plays no part in it.         *)
(*                                                                         *)
(* Volumes are the stream's alone.  A bar counts what its bucket was told  *)
(* of the day less what the bucket before it was; a frame may come late,   *)
(* of a day whose volume the feed no longer has.  The second invariant     *)
(* puts the day's trades in their order: a bar counts only trades after    *)
(* the newest one of every earlier bar, so no trade is counted by two.     *)
(***************************************************************************)
EXTENDS BarStore, FiniteSetTheorems, WellFoundedInduction, TLAPS

Bar == [minute : Minutes, seen : SUBSET Nat, volume : Nat, is_final : BOOLEAN, by : {"rest"}]
JobRec == [at : {"fetched", "read", "stored"}, bars : SUBSET Bar, prev : Int, day : Int]

\* Types, and that nothing is of the future.
TypeOK ==
    /\ now \in Minutes
    /\ trades \in Seq(Minutes)
    /\ \A i \in DOMAIN trades : trades[i] <= now
    /\ wm \in Int /\ wm <= now
    /\ wmD1 \in Int
    /\ job \in [Jobs -> {Idle} \cup JobRec]

-----------------------------------------------------------------------------
\* The bars B of a fetch against the clock t, the trades tr and the verified
\* minutes v: their traded minutes, and the trades of some minutes.
Traded(tr) == {tr[i] : i \in DOMAIN tr}
In(tr, ms) == {i \in DOMAIN tr : tr[i] \in ms}
\* The first day of the lookback at time t.
FloorDay(t) == trading_date_of(Max0(0, t - LookbackDays * DayLen))
\* The day a fetch resumes on when the watermark is at w, but for the lookback.
ResumeDay(w) == trading_date_of(Max0(0, w - RepairBars))

\* A final bar is whole and of a finished minute.
FinalWhole(B, t, tr) ==
    \A b \in B : b.is_final =>
        /\ b.minute < t /\ b.seen = In(tr, {b.minute})
        /\ b.volume = Cardinality(In(tr, {b.minute}))
\* Of the current day the newest bar of a fetch is not final.
NewestOpen(B, t) ==
    \A b \in B : b.is_final =>
        \/ trading_date_of(b.minute) < trading_date_of(t)
        \/ \E c \in B : ~c.is_final /\ b.minute < c.minute /\ c.minute <= t
\* The fetch has every traded minute of a day up to its bar that is not final.
NoGap(B, tr) ==
    \A b \in B, m \in Traded(tr) :
        b.is_final /\ trading_date_of(m) = trading_date_of(b.minute) =>
            \/ \E c \in B : c.minute = m
            \/ \E c \in B : ~c.is_final /\ b.minute < c.minute /\ c.minute <= m
\* A minute that lies before the day on which a fetch resumes if the watermark
\* moves to the final bar W was stored whole, or is stored with W, or is old.
NoJump(B, t, tr, v) ==
    \A W \in B, m \in Traded(tr) :
        W.is_final /\ trading_date_of(m) < ResumeDay(W.minute) =>
            \/ \E b \in B : b.is_final /\ b.minute = m
            \/ m \in v
            \/ trading_date_of(m) < FloorDay(t)
BarsOK(B, t, tr, v) ==
    FinalWhole(B, t, tr) /\ NewestOpen(B, t) /\ NoGap(B, tr) /\ NoJump(B, t, tr, v)

\* Of the bars of each backfill, between the fetch and the commit.
JobInv == \A j \in Jobs : job[j] # Idle => BarsOK(job[j].bars, now, trades, verified)

\* The same for the watermark there is.
WmInv ==
    \A m \in Traded(trades) :
        wm # -1 /\ trading_date_of(m) < ResumeDay(wm) =>
            m \in verified \/ trading_date_of(m) < FloorDay(now)

\* The minutes of the period that an aggregated bar starts at.
Period(s) ==
    {m \in Minutes : s <= m /\ m < s + Interval /\ InWindow(nse_session_window(trading_date_of(s)), m)}
AggInv ==
    \A r \in agg : r.is_final =>
        r.seen = In(trades, Period(r.minute)) /\ \A m \in Period(r.minute) : m < now

\* The inductive invariant.
Inv == TypeOK /\ JobInv /\ WmInv /\ AggInv

-----------------------------------------------------------------------------
\* A set of naturals has a least element; induction on Nat in disguise.
LEMMA Least ==
    ASSUME NEW T \in SUBSET Nat, T # {}
    PROVE  \E x \in T : \A y \in T : x <= y
<1> DEFINE R == {s \in Nat \X Nat : s[1] < s[2]}
<1>1. IsWellFoundedOn(R, Nat)
  BY NatLessThanWellFounded DEF OpToRel
<1>2. PICK x \in T : \A y \in T : <<y, x>> \notin R
  BY <1>1, WFMin
<1>3. \A y \in T : ~(y < x)
  <2>1. TAKE y \in T
  <2>2. <<y, x>> \in Nat \X Nat /\ <<y, x>>[1] = y /\ <<y, x>>[2] = x
    OBVIOUS
  <2>3. QED BY <1>2, <2>2
<1>4. QED BY <1>3

\* A set of integers that is bounded has a greatest element ...
LEMMA Greatest ==
    ASSUME NEW n \in Int, NEW T \in SUBSET Int, T # {}, \A x \in T : x <= n
    PROVE  \E x \in T : \A y \in T : y <= x
<1> DEFINE U == {n - x : x \in T}
<1>1. U \in SUBSET Nat /\ U # {}
  <2>1. \A x \in T : n - x \in Nat
    OBVIOUS
  <2> QED BY <2>1
<1>2. PICK u \in U : \A v \in U : u <= v
  BY <1>1, Least
<1>3. PICK x \in T : u = n - x
  OBVIOUS
<1>4. ASSUME NEW y \in T PROVE y <= x
  <2>1. n - y \in U
    OBVIOUS
  <2>2. n - x <= n - y
    BY <2>1, <1>2, <1>3
  <2> QED BY <2>2
<1>5. QED BY <1>4

\* ... which is what Max chooses.
LEMMA MaxIs ==
    ASSUME NEW n \in Int, NEW T \in SUBSET Int, T # {}, \A x \in T : x <= n
    PROVE  Max(T) \in T /\ \A y \in T : y <= Max(T)
  BY Greatest DEF Max

\* The end of a period of the grid.
LEMMA MinOfTwo ==
    ASSUME NEW a \in Int, NEW b \in Int
    PROVE Min({a, b}) = IF a <= b THEN a ELSE b
<1>1. \E x \in {a, b} : \A y \in {a, b} : x <= y
  OBVIOUS
<1>2. Min({a, b}) \in {a, b} /\ \A y \in {a, b} : Min({a, b}) <= y
  BY <1>1 DEF Min
<1>3. QED BY <1>2

-----------------------------------------------------------------------------
\* trading_date_of numbers the days in the order of their minutes.
LEMMA Days ==
    /\ \A m \in Int : trading_date_of(m) \in Int
    /\ \A m, n \in Int : m <= n => trading_date_of(m) <= trading_date_of(n)
    /\ \A d, k \in Int : 0 <= k /\ k < DayLen => trading_date_of(d * DayLen + k) = d
<1>1. DayLen \in Nat \ {0}
  BY DayAssumption
<1>2. \A m \in Int : m \div DayLen \in Int
  BY <1>1
<1>3. ASSUME NEW m \in Int, NEW n \in Int, m <= n PROVE m \div DayLen <= n \div DayLen
  BY <1>1, <1>3
<1>4. ASSUME NEW d \in Int, NEW k \in Int, 0 <= k, k < DayLen
      PROVE (d * DayLen + k) \div DayLen = d
  <2>1. d * DayLen \in Int
    BY <1>1
  <2>2. DEFINE m == d * DayLen + k
  <2>3. m \in Int /\ d * DayLen <= m /\ m < d * DayLen + DayLen
    BY <2>1, <1>1, <1>4
  <2>4. m \div DayLen = d
    <3> HIDE DEF m
    <3> QED BY <2>3, <1>1
  <2> QED BY <2>4
<1> QED BY <1>2, <1>3, <1>4 DEF trading_date_of

\* Max0 is the larger of two.
LEMMA MaxZero ==
    \A a, b \in Int : Max0(a, b) \in Int /\ Max0(a, b) >= a /\ Max0(a, b) >= b
                      /\ (Max0(a, b) = a \/ Max0(a, b) = b)
  BY DEF Max0

\* The first day of the lookback does not go back.
LEMMA FloorForward ==
    ASSUME NEW t \in Nat, NEW u \in Nat, t <= u
    PROVE  FloorDay(t) \in Int /\ FloorDay(u) \in Int /\ FloorDay(t) <= FloorDay(u)
<1>1. LookbackDays * DayLen \in Int
  BY BarStoreAssumption, DayAssumption
<1> DEFINE x == Max0(0, t - LookbackDays * DayLen)
           y == Max0(0, u - LookbackDays * DayLen)
<1>2. x \in Int /\ y \in Int /\ x <= y
  BY <1>1 DEF Max0
<1>3. QED BY <1>2, Days DEF FloorDay

\* A fetch resumes on a day of the past or on the current one.
LEMMA ResumeBefore ==
    ASSUME NEW t \in Nat, NEW w \in Int, w <= t
    PROVE  ResumeDay(w) \in Int /\ ResumeDay(w) <= trading_date_of(t)
<1>1. Max0(0, w - RepairBars) \in Int /\ Max0(0, w - RepairBars) <= t
  BY BarStoreAssumption DEF Max0
<1>2. QED BY <1>1, Days DEF ResumeDay

\* Where a fetch starts: on the day the watermark says, or later if that is
\* before the lookback.
LEMMA StartIs ==
    ASSUME now \in Nat, wm \in Int
    PROVE  /\ M1Start \in Int
           /\ M1Start = FloorDay(now) \/ (wm # -1 /\ M1Start = ResumeDay(wm))
           /\ M1Start >= FloorDay(now)
<1> DEFINE floor == now - LookbackDays * DayLen
           from == IF wm = -1 THEN floor ELSE wm - RepairBars
<1>1. floor \in Int /\ from \in Int
  BY BarStoreAssumption, DayAssumption
<1>2. M1Start = trading_date_of(Max0(0, Max0(floor, from)))
  BY DEF M1Start
<1>3. FloorDay(now) = trading_date_of(Max0(0, floor))
  BY DEF FloorDay
<1>4. wm # -1 => ResumeDay(wm) = trading_date_of(Max0(0, from))
  BY DEF ResumeDay
<1> HIDE DEF floor, from
<1>5. Max0(floor, from) = floor \/ (Max0(floor, from) = from /\ wm # -1)
  <2>1. wm = -1 => from = floor
    BY DEF from, floor
  <2> QED BY <2>1, <1>1 DEF Max0
<1>6. Max0(0, Max0(floor, from)) \in Int /\ Max0(0, floor) \in Int
      /\ Max0(0, Max0(floor, from)) >= Max0(0, floor)
  BY <1>1 DEF Max0
<1>7. QED BY <1>2, <1>3, <1>4, <1>5, <1>6, Days

\* A trade changes no finished minute.
LEMMA TradeAppends ==
    ASSUME NEW tr \in Seq(Minutes), NEW t \in Minutes, NEW ms, t \notin ms
    PROVE  In(Append(tr, t), ms) = In(tr, ms)
<1> DEFINE u == Append(tr, t)
<1>1. DOMAIN tr = 1..Len(tr) /\ Len(tr) \in Nat
  OBVIOUS
<1>2. DOMAIN u = 1..(Len(tr) + 1) /\ u[Len(tr) + 1] = t /\ \A i \in 1..Len(tr) : u[i] = tr[i]
  BY <1>1
<1> HIDE DEF u
<1>3. QED BY <1>1, <1>2 DEF In, u

\* What a fetch brings.
LEMMA Fetched ==
    ASSUME NEW S, NEW B, B = FetchCandles(S)
    PROVE  LET T == {m \in Traded(trades) : trading_date_of(m) >= S} IN
           /\ \A m \in T : \E b \in B : b.minute = m
           /\ \A b \in B :
                /\ b.minute \in T
                /\ b = ExchangeBar(b.minute, b.is_final)
                /\ b.is_final \in BOOLEAN
                /\ b.is_final \/ (trading_date_of(b.minute) = trading_date_of(now)
                                   /\ \A k \in T : k <= b.minute)
                /\ b.is_final => ~(trading_date_of(b.minute) = trading_date_of(now)
                                   /\ \A k \in T : k <= b.minute)
<1> DEFINE T == {m \in Traded(trades) : trading_date_of(m) >= S}
           Open(m) == trading_date_of(m) = trading_date_of(now) /\ \A k \in T : k <= m
<1>1. B = {ExchangeBar(m, ~Open(m)) : m \in T}
  BY DEF FetchCandles, Traded
<1>2. \A m, f : ExchangeBar(m, f).minute = m /\ ExchangeBar(m, f).is_final = f
  BY DEF ExchangeBar
<1>3. \A m : Open(m) \in BOOLEAN
  OBVIOUS
<1> HIDE DEF T, Open
<1>4. \A m \in T : \E b \in B : b.minute = m
  BY <1>1, <1>2
<1>5. ASSUME NEW b \in B
      PROVE  b.minute \in T /\ b = ExchangeBar(b.minute, b.is_final) /\ b.is_final = ~Open(b.minute)
  <2>1. PICK m \in T : b = ExchangeBar(m, ~Open(m))
    BY <1>1
  <2> QED BY <2>1, <1>2
<1>6. \A b \in B : b.is_final \in BOOLEAN /\ (b.is_final \/ Open(b.minute)) /\ (b.is_final => ~Open(b.minute))
  BY <1>3, <1>5
<1>7. QED BY <1>4, <1>5, <1>6 DEF T, Open

\* Trades can be counted.
LEMMA TradesFinite ==
    ASSUME NEW tr \in Seq(Minutes), NEW ms
    PROVE  Cardinality(In(tr, ms)) \in Nat /\ In(tr, ms) \in SUBSET Nat
<1>1. DOMAIN tr = 1..Len(tr) /\ Len(tr) \in Nat
  OBVIOUS
<1>2. In(tr, ms) \subseteq 1..Len(tr)
  BY <1>1 DEF In
<1>3. IsFiniteSet(1..Len(tr))
  BY <1>1, FS_Interval
<1>4. IsFiniteSet(In(tr, ms))
  BY <1>2, <1>3, FS_Subset
<1>5. QED BY <1>4, <1>2, FS_CardinalityType

\* What was traded was traded up to now.
LEMMA TradedTyped ==
    ASSUME TypeOK
    PROVE  Traded(trades) \subseteq 0..now /\ Traded(trades) \subseteq Minutes
<1>1. trades \in Seq(Minutes) /\ now \in Minutes /\ \A i \in DOMAIN trades : trades[i] <= now
  BY DEF TypeOK
<1>2. \A i \in DOMAIN trades : trades[i] \in Minutes
  BY <1>1
<1>3. ASSUME NEW m \in Traded(trades) PROVE m \in 0..now /\ m \in Minutes
  <2>1. PICK i \in DOMAIN trades : m = trades[i]
    BY DEF Traded
  <2>2. m \in Minutes /\ m <= now /\ now \in Minutes
    BY <1>1, <1>2, <2>1
  <2> QED BY <2>2, BarStoreAssumption DEF Minutes
<1>4. QED BY <1>3

\* The bars of a fetch are bars of minutes up to now.
LEMMA FetchTyped ==
    ASSUME TypeOK, NEW S, NEW B, B = FetchCandles(S)
    PROVE  B \in SUBSET Bar /\ \A b \in B : b.minute \in 0..now
<1>1. ASSUME NEW b \in B PROVE b \in Bar /\ b.minute \in 0..now
  <2>1. b.minute \in Traded(trades) /\ b = ExchangeBar(b.minute, b.is_final) /\ b.is_final \in BOOLEAN
    BY Fetched, Zenon
  <2>2. b.minute \in Minutes /\ b.minute \in 0..now
    BY <2>1, TradedTyped
  <2>3. trades \in Seq(Minutes)
    BY DEF TypeOK
  <2>4. b = [minute |-> b.minute, seen |-> In(trades, {b.minute}),
             volume |-> Cardinality(In(trades, {b.minute})), is_final |-> b.is_final, by |-> "rest"]
    BY <2>1 DEF ExchangeBar, TradesOf, In
  <2> QED BY <2>1, <2>2, <2>3, <2>4, TradesFinite DEF Bar
<1> QED BY <1>1

\* The bars of a fetch are as the invariant says, when they come.
LEMMA FetchOK ==
    ASSUME TypeOK, WmInv, NEW B, B = FetchCandles(M1Start)
    PROVE  BarsOK(B, now, trades, verified)
<1> DEFINE S == M1Start
           T == {m \in Traded(trades) : trading_date_of(m) >= S}
<1>1. now \in Nat /\ now \in Int /\ wm \in Int /\ T \in SUBSET Int /\ \A m \in T : m <= now
  <2>1. now \in Nat /\ now \in Int /\ wm \in Int
    BY DEF TypeOK, Minutes
  <2> QED BY <2>1, TradedTyped
<1>2. S \in Int
  BY <1>1, StartIs
<1>3. /\ \A m \in T : \E b \in B : b.minute = m
      /\ \A b \in B :
           /\ b.minute \in T
           /\ b.is_final \in BOOLEAN
           /\ b.is_final \/ (trading_date_of(b.minute) = trading_date_of(now)
                              /\ \A k \in T : k <= b.minute)
           /\ b.is_final => ~(trading_date_of(b.minute) = trading_date_of(now)
                              /\ \A k \in T : k <= b.minute)
  BY Fetched, Zenon
<1>4. \A b \in B : b.seen = In(trades, {b.minute}) /\ b.volume = Cardinality(In(trades, {b.minute}))
  <2>1. \A b \in B : b = ExchangeBar(b.minute, b.is_final)
    BY Fetched, Zenon
  <2>2. \A m, f : ExchangeBar(m, f).seen = In(trades, {m})
                  /\ ExchangeBar(m, f).volume = Cardinality(In(trades, {m}))
    BY DEF ExchangeBar, TradesOf, In
  <2> QED BY <2>1, <2>2
<1>5. \A m \in Traded(trades) : m \in Int /\ m <= now /\ trading_date_of(m) \in Int
                                /\ trading_date_of(m) <= trading_date_of(now)
  BY <1>1, Days, TradedTyped
<1>6. T \subseteq Traded(trades) /\ \A m \in Traded(trades) : m \in T <=> trading_date_of(m) >= S
  OBVIOUS
<1> HIDE DEF T, S
\* A bar that is not the newest of the current day has a later one, not final.
<1>7. ASSUME NEW b \in B, b.is_final, trading_date_of(b.minute) = trading_date_of(now)
      PROVE  \E c \in B : ~c.is_final /\ b.minute < c.minute /\ c.minute <= now
                          /\ \A k \in T : k <= c.minute
  <2>1. PICK k \in T : ~(k <= b.minute)
    BY <1>3, <1>7
  <2>2. PICK x \in T : \A y \in T : y <= x
    BY <1>1, <2>1, Greatest
  <2>3. x \in Int /\ b.minute \in Int /\ b.minute < x /\ x <= now
    <3>1. b.minute \in T
      BY <1>3
    <3>2. x \in Int /\ k \in Int /\ b.minute \in Int /\ x <= now /\ now \in Int
      BY <3>1, <1>1
    <3>3. k <= x
      BY <2>2
    <3> HIDE <1>1, <1>3
    <3> QED BY <3>2, <3>3, <2>1
  <2>4. PICK c \in B : c.minute = x
    BY <1>3
  <2>5. trading_date_of(x) = trading_date_of(now)
    BY <2>3, <1>1, <1>7, Days
  <2>6. ~c.is_final
    BY <1>3, <2>2, <2>4, <2>5
  <2> QED BY <2>2, <2>3, <2>4, <2>6
<1>8. FinalWhole(B, now, trades)
  <2>1. ASSUME NEW b \in B, b.is_final PROVE b.minute < now
    <3>1. b.minute \in T
      BY <1>3
    <3>2. b.minute \in Int /\ b.minute <= now /\ now \in Int
      BY <3>1, <1>1
    <3>3. CASE trading_date_of(b.minute) = trading_date_of(now)
      <4>1. PICK c \in B : ~c.is_final /\ b.minute < c.minute /\ c.minute <= now
        BY <1>7, <2>1, <3>3
      <4>2. c.minute \in Int
        <5>1. c.minute \in T
          BY <1>3
        <5> QED BY <5>1, <1>1
      <4> QED BY <4>1, <4>2, <3>2
    <3>4. CASE trading_date_of(b.minute) # trading_date_of(now)
      BY <3>2, <3>4
    <3> QED BY <3>3, <3>4
  <2> QED BY <2>1, <1>4 DEF FinalWhole
<1>9. NewestOpen(B, now)
  <2>1. \A b \in B : trading_date_of(b.minute) \in Int /\ trading_date_of(now) \in Int
                     /\ trading_date_of(b.minute) <= trading_date_of(now)
    BY <1>1, <1>3, <1>5, <1>6, Days
  <2> QED BY <2>1, <1>7 DEF NewestOpen
<1>10. NoGap(B, trades)
  <2>1. ASSUME NEW b \in B, NEW m \in Traded(trades), trading_date_of(m) = trading_date_of(b.minute)
        PROVE  \E c \in B : c.minute = m
    BY <2>1, <1>3, <1>6
  <2> QED BY <2>1 DEF NoGap
<1>11. NoJump(B, now, trades, verified)
  <2>1. SUFFICES ASSUME NEW W \in B, NEW m \in Traded(trades), W.is_final,
                        trading_date_of(m) < ResumeDay(W.minute)
                 PROVE  \/ \E b \in B : b.is_final /\ b.minute = m
                        \/ m \in verified
                        \/ trading_date_of(m) < FloorDay(now)
    BY DEF NoJump
  <2>2. ResumeDay(W.minute) \in Int /\ ResumeDay(W.minute) <= trading_date_of(now)
        /\ trading_date_of(now) \in Int
    BY <1>1, <1>3, ResumeBefore, Days
  <2>3. trading_date_of(m) \in Int /\ trading_date_of(m) < trading_date_of(now)
    BY <2>1, <2>2, <1>5
  <2>4. CASE m \in T
    <3>1. PICK b \in B : b.minute = m
      BY <1>3, <2>4
    <3>2. b.is_final
      BY <3>1, <1>3, <2>3
    <3> QED BY <3>1, <3>2
  <2>5. CASE m \notin T
    <3>1. trading_date_of(m) < S
      BY <2>5, <2>3, <1>2, <1>6
    <3>2. S = FloorDay(now) \/ (wm # -1 /\ S = ResumeDay(wm))
      BY <1>1, StartIs DEF S
    <3> QED BY <3>1, <3>2 DEF WmInv
  <2> QED BY <2>4, <2>5
<1> QED BY <1>8, <1>9, <1>10, <1>11 DEF BarsOK

\* The minute of a bar has a day.
LEMMA BarMinute ==
    ASSUME NEW b \in Bar
    PROVE  b.minute \in Int /\ b.minute \in Minutes /\ b.is_final \in BOOLEAN /\ trading_date_of(b.minute) \in Int
<1>1. b.minute \in Minutes /\ b.is_final \in BOOLEAN
  BY DEF Bar
<1>2. b.minute \in Int
  BY <1>1 DEF Minutes
<1>3. QED BY <1>1, <1>2, Days

\* Time passes and other backfills verify minutes.
LEMMA BarsLater ==
    ASSUME NEW B \in SUBSET Bar, NEW tr \in Seq(Minutes), NEW t \in Nat, NEW u \in Nat, t <= u,
           NEW v, NEW w, v \subseteq w, BarsOK(B, t, tr, v)
    PROVE  BarsOK(B, u, tr, w)
<1>1. FinalWhole(B, t, tr) /\ NewestOpen(B, t) /\ NoGap(B, tr) /\ NoJump(B, t, tr, v)
  BY DEF BarsOK
<1>2. \A b \in B : b.minute \in Int /\ trading_date_of(b.minute) \in Int
  BY BarMinute
<1>3. trading_date_of(t) \in Int /\ trading_date_of(u) \in Int /\ trading_date_of(t) <= trading_date_of(u)
  BY Days
<1>4. FloorDay(t) \in Int /\ FloorDay(u) \in Int /\ FloorDay(t) <= FloorDay(u)
  BY FloorForward
<1>5. \A i \in DOMAIN tr : trading_date_of(tr[i]) \in Int
  <2>1. \A i \in DOMAIN tr : tr[i] \in Minutes
    OBVIOUS
  <2> QED BY <2>1, Days DEF Minutes
<1>6. \A m \in Traded(tr) : trading_date_of(m) \in Int
  BY <1>5 DEF Traded
<1>7. FinalWhole(B, u, tr)
  BY <1>1, <1>2 DEF FinalWhole
<1>8. NewestOpen(B, u)
  <2>1. SUFFICES ASSUME NEW b \in B, b.is_final
                 PROVE  \/ trading_date_of(b.minute) < trading_date_of(u)
                        \/ \E c \in B : ~c.is_final /\ b.minute < c.minute /\ c.minute <= u
    BY DEF NewestOpen
  <2>2. CASE trading_date_of(b.minute) < trading_date_of(t)
    BY <2>2, <1>2, <1>3
  <2>3. CASE \E c \in B : ~c.is_final /\ b.minute < c.minute /\ c.minute <= t
    <3>1. PICK c \in B : ~c.is_final /\ b.minute < c.minute /\ c.minute <= t
      BY <2>3
    <3>2. c.minute <= u
      BY <3>1, <1>2
    <3> QED BY <3>1, <3>2
  <2> QED BY <2>1, <2>2, <2>3, <1>1 DEF NewestOpen
<1>9. NoJump(B, u, tr, w)
  <2>1. SUFFICES ASSUME NEW W \in B, NEW m \in Traded(tr), W.is_final,
                        trading_date_of(m) < ResumeDay(W.minute)
                 PROVE  \/ \E b \in B : b.is_final /\ b.minute = m
                        \/ m \in w
                        \/ trading_date_of(m) < FloorDay(u)
    BY DEF NoJump
  <2>2. \/ \E b \in B : b.is_final /\ b.minute = m
        \/ m \in v
        \/ trading_date_of(m) < FloorDay(t)
    BY <1>1, <2>1 DEF NoJump
  <2> QED BY <2>2, <1>4, <1>6
<1> QED BY <1>1, <1>7, <1>8, <1>9 DEF BarsOK

\* A trade of the current minute t.
LEMMA TradeDomain ==
    ASSUME NEW tr \in Seq(Minutes), NEW t \in Minutes
    PROVE  /\ Append(tr, t) \in Seq(Minutes)
           /\ Traded(Append(tr, t)) = Traded(tr) \cup {t}
<1> DEFINE u == Append(tr, t)
<1>1. DOMAIN tr = 1..Len(tr) /\ Len(tr) \in Nat /\ u \in Seq(Minutes)
  OBVIOUS
<1>2. DOMAIN u = 1..(Len(tr) + 1) /\ u[Len(tr) + 1] = t /\ \A i \in 1..Len(tr) : u[i] = tr[i]
  BY <1>1
<1> HIDE DEF u
<1>3. ASSUME NEW m \in Traded(u) PROVE m \in Traded(tr) \cup {t}
  <2>1. PICK i \in 1..(Len(tr) + 1) : m = u[i]
    BY <1>2 DEF Traded
  <2>2. CASE i = Len(tr) + 1
    BY <2>1, <2>2, <1>2
  <2>3. CASE i \in 1..Len(tr)
    BY <2>1, <2>3, <1>1, <1>2 DEF Traded
  <2> QED BY <2>1, <2>2, <2>3, <1>1
<1>4. ASSUME NEW m \in Traded(tr) \cup {t} PROVE m \in Traded(u)
  <2>1. CASE m = t
    BY <2>1, <1>1, <1>2 DEF Traded
  <2>2. CASE m \in Traded(tr)
    <3>1. PICK i \in 1..Len(tr) : m = tr[i]
      BY <2>2, <1>1 DEF Traded
    <3> QED BY <3>1, <1>1, <1>2 DEF Traded
  <2> QED BY <2>1, <2>2
<1>5. QED BY <1>1, <1>3, <1>4 DEF u

\* Bars fetched before a trade are as the invariant says after it: the minute of the
\* trade is not finished, and a bar of it is not final.
LEMMA BarsTrade ==
    ASSUME NEW B \in SUBSET Bar, NEW tr \in Seq(Minutes), NEW t \in Minutes, NEW v,
           BarsOK(B, t, tr, v)
    PROVE  BarsOK(B, t, Append(tr, t), v)
<1> DEFINE tr2 == Append(tr, t)
<1>1. FinalWhole(B, t, tr) /\ NewestOpen(B, t) /\ NoGap(B, tr) /\ NoJump(B, t, tr, v)
  BY DEF BarsOK
<1>2. \A b \in B : b.minute \in Int /\ trading_date_of(b.minute) \in Int
  BY BarMinute
<1>3. t \in Nat /\ t \in Int /\ trading_date_of(t) \in Int
  BY Days DEF Minutes
<1>4. Traded(tr2) = Traded(tr) \cup {t}
  BY TradeDomain
<1>5. FinalWhole(B, t, tr2)
  <2>1. ASSUME NEW b \in B, b.is_final
        PROVE b.minute < t /\ In(tr2, {b.minute}) = In(tr, {b.minute})
    <3>1. b.minute < t
      BY <1>1, <2>1 DEF FinalWhole
    <3>2. t \notin {b.minute}
      BY <3>1, <1>2, <1>3
    <3> QED BY <3>1, <3>2, TradeAppends
  <2> QED BY <2>1, <1>1 DEF FinalWhole
<1>6. NoGap(B, tr2)
  <2>1. SUFFICES ASSUME NEW b \in B, b.is_final, trading_date_of(t) = trading_date_of(b.minute)
                 PROVE  \E c \in B : ~c.is_final /\ b.minute < c.minute /\ c.minute <= t
    BY <1>1, <1>4 DEF NoGap
  <2> QED BY <2>1, <1>1, <1>2, <1>3 DEF NewestOpen
<1>7. NoJump(B, t, tr2, v)
  <2>1. ASSUME NEW W \in B, W.is_final PROVE ~(trading_date_of(t) < ResumeDay(W.minute))
    <3>1. W.minute <= t
      <4>1. W.minute < t
        BY <1>1, <2>1 DEF FinalWhole
      <4> QED BY <4>1, <1>2, <1>3
    <3> QED BY <3>1, <1>2, <1>3, ResumeBefore
  <2> QED BY <2>1, <1>1, <1>4 DEF NoJump
<1> QED BY <1>1, <1>5, <1>6, <1>7 DEF BarsOK

\* A period of the grid: whole from its start on, or up to the close.
LEMMA GridPeriod ==
    ASSUME NEW d \in Int, NEW p \in session_grid(nse_session_window(d), Interval)
    PROVE  /\ p.start \in Int /\ p.end \in Int
           /\ trading_date_of(p.start) = d
           /\ Period(p.start) = {m \in Minutes : p.start <= m /\ m < p.end}
           /\ \A m \in Int : p.start <= m /\ m < p.end => trading_date_of(m) = d
<1> DEFINE open == d * DayLen
           n == (SessionLen - 1) \div Interval
<1>1. DayLen \in Nat /\ SessionLen \in Nat \ {0} /\ SessionLen <= DayLen /\ Interval \in Nat \ {0}
  BY DayAssumption, BarStoreAssumption
<1>2. open \in Int
  BY <1>1
<1>3. n \in Nat /\ n * Interval <= SessionLen - 1
  BY <1>1
<1> HIDE DEF open, n
<1>4. nse_session_window(d) = [open |-> open, close |-> open + SessionLen]
  BY DEF nse_session_window, open
<1>5. nse_session_window(d).open = open /\ nse_session_window(d).close = open + SessionLen
  BY <1>4
<1>6. (open + SessionLen) - open - 1 = SessionLen - 1
  BY <1>1, <1>2
<1>7. PICK k \in 0..n :
        p = [start |-> open + k * Interval,
             end |-> Min({open + (k + 1) * Interval, open + SessionLen})]
  BY <1>5, <1>6 DEF session_grid, n
<1>8. k * Interval \in Nat /\ k * Interval <= n * Interval /\ (k + 1) * Interval = k * Interval + Interval
  BY <1>1, <1>3
<1> DEFINE x == k * Interval
<1>9. x \in Nat /\ x <= SessionLen - 1
  BY <1>1, <1>3, <1>8
<1>10. p.start = open + x /\ p.end = Min({open + (x + Interval), open + SessionLen})
  BY <1>7, <1>8
<1> HIDE DEF x
<1>11. p.end = IF open + (x + Interval) <= open + SessionLen THEN open + (x + Interval) ELSE open + SessionLen
  BY <1>10, <1>1, <1>2, <1>9, MinOfTwo
<1>12. p.start \in Int /\ p.end \in Int /\ open <= p.start /\ p.end <= open + SessionLen
       /\ p.start < open + DayLen
  BY <1>10, <1>11, <1>1, <1>2, <1>9
<1>13. ASSUME NEW m \in Int, open <= m, m < open + DayLen PROVE trading_date_of(m) = d
  <2> DEFINE y == m - open
  <2>1. y \in Int /\ 0 <= y /\ y < DayLen /\ m = open + y
    BY <1>1, <1>2, <1>13
  <2> HIDE DEF y
  <2>2. QED BY <2>1, Days DEF open
<1>14. trading_date_of(p.start) = d
  BY <1>12, <1>13
<1>15. \A m \in Int : p.start <= m /\ m < p.end => trading_date_of(m) = d
  BY <1>1, <1>2, <1>12, <1>13
<1>16. ASSUME NEW m \in Minutes
       PROVE  (p.start <= m /\ m < p.start + Interval /\ open <= m /\ m < open + SessionLen)
              <=> (p.start <= m /\ m < p.end)
  BY <1>1, <1>2, <1>9, <1>10, <1>11, <1>12 DEF Minutes
<1>17. Period(p.start) = {m \in Minutes : p.start <= m /\ m < p.end}
  BY <1>5, <1>14, <1>16 DEF Period, InWindow
<1> QED BY <1>12, <1>14, <1>15, <1>17

\* What FoldPeriod makes of its children, but for their volume.
LEMMA Folded ==
    ASSUME NEW p, NEW kids, NEW t, NEW r, r = FoldPeriod(p, kids, t)
    PROVE  /\ r.minute = p.start
           /\ r.seen = UNION {b.seen : b \in kids}
           /\ r.is_final => (\A b \in kids : b.is_final) /\ t >= p.end + AggGrace
  BY DEF FoldPeriod

\* A final aggregate of a fetch is whole, whenever it is made.
LEMMA AggregatedWhole ==
    ASSUME NEW B \in SUBSET Bar, NEW tr \in Seq(Minutes), NEW t \in Minutes, NEW v,
           BarsOK(B, t, tr, v), NEW r \in aggregate_m1(B, Interval, t), r.is_final
    PROVE  r.seen = In(tr, Period(r.minute)) /\ \A m \in Period(r.minute) : m < t
<1>1. PICK p \in UNION {session_grid(nse_session_window(d), Interval) :
                          d \in {trading_date_of(b.minute) : b \in B}} :
        /\ \E b \in B : p.start <= b.minute /\ b.minute < p.end
        /\ r = FoldPeriod(p, {b \in B : p.start <= b.minute /\ b.minute < p.end}, t)
  BY DEF aggregate_m1
<1>2. PICK d \in {trading_date_of(b.minute) : b \in B} : p \in session_grid(nse_session_window(d), Interval)
  BY <1>1
<1>3. d \in Int
  BY <1>2, BarMinute
<1>4. /\ p.start \in Int /\ p.end \in Int
      /\ Period(p.start) = {m \in Minutes : p.start <= m /\ m < p.end}
      /\ \A m \in Int : p.start <= m /\ m < p.end => trading_date_of(m) = d
  BY <1>2, <1>3, GridPeriod
<1> DEFINE kids == {b \in B : p.start <= b.minute /\ b.minute < p.end}
<1>5. /\ r.minute = p.start
      /\ r.seen = UNION {b.seen : b \in kids}
      /\ \A b \in kids : b.is_final
      /\ t >= p.end + AggGrace
  BY <1>1, Folded
<1>6. kids # {} /\ kids \subseteq B
  BY <1>1
<1>7. \A b \in kids : p.start <= b.minute /\ b.minute < p.end
  OBVIOUS
<1>8. \A b \in B : p.start <= b.minute /\ b.minute < p.end => b \in kids
  OBVIOUS
<1> HIDE DEF kids
<1>9. FinalWhole(B, t, tr) /\ NoGap(B, tr)
  BY DEF BarsOK
<1>10. \A b \in B : b.minute \in Int /\ b.minute \in Minutes
  BY BarMinute
<1>11. ASSUME NEW m \in Period(p.start) PROVE m < t
  <2>1. m \in Int /\ m < p.end /\ t \in Int
    BY <1>4 DEF Minutes
  <2> QED BY <2>1, <1>4, <1>5, DayAssumption
<1>12. ASSUME NEW i \in r.seen PROVE i \in In(tr, Period(p.start))
  <2>1. PICK b \in kids : i \in b.seen
    BY <1>5
  <2>2. b \in B /\ b.seen = In(tr, {b.minute})
    BY <1>5, <1>6, <1>9 DEF FinalWhole
  <2>3. b.minute \in Period(p.start)
    BY <2>2, <1>4, <1>7, <1>10
  <2> QED BY <2>1, <2>2, <2>3 DEF In
<1>13. ASSUME NEW i \in In(tr, Period(p.start)) PROVE i \in r.seen
  <2> DEFINE m == tr[i]
  <2>1. i \in DOMAIN tr /\ m \in Period(p.start) /\ m \in Traded(tr)
    BY DEF In, Traded
  <2>2. m \in Int /\ p.start <= m /\ m < p.end
    BY <2>1, <1>4 DEF Minutes
  <2>3. PICK b \in kids : TRUE
    BY <1>6
  <2>4. b \in B /\ b.is_final /\ b.minute \in Int /\ p.start <= b.minute /\ b.minute < p.end
    BY <1>5, <1>6, <1>7, <1>10
  <2>5. trading_date_of(m) = trading_date_of(b.minute)
    BY <2>2, <2>4, <1>4
  <2> HIDE DEF m
  <2>6. ~ \E c \in B : ~c.is_final /\ b.minute < c.minute /\ c.minute <= m
    <3>1. SUFFICES ASSUME NEW c \in B, ~c.is_final, b.minute < c.minute, c.minute <= m PROVE FALSE
      OBVIOUS
    <3>2. p.start <= c.minute /\ c.minute < p.end
      BY <3>1, <2>2, <2>4, <1>4, <1>10
    <3> QED BY <3>1, <3>2, <1>5, <1>8
  <2>7. PICK c \in B : c.minute = m
    BY <2>1, <2>4, <2>5, <2>6, <1>9 DEF NoGap
  <2>8. c \in kids
    BY <2>2, <2>7, <1>8
  <2>9. c.seen = In(tr, {m})
    BY <2>7, <2>8, <1>5, <1>9 DEF FinalWhole
  <2>10. i \in In(tr, {m})
    BY <2>1 DEF In, m
  <2> QED BY <2>8, <2>9, <2>10, <1>5
<1> QED BY <1>5, <1>11, <1>12, <1>13

-----------------------------------------------------------------------------
\* Nothing has happened.
LEMMA InitInv == Init => Inv
<1>1. SUFFICES ASSUME Init PROVE Inv
  OBVIOUS
<1>2. trades = <<>> /\ DOMAIN trades = {}
  BY <1>1 DEF Init
<1>3. TypeOK
  BY <1>1, <1>2, BarStoreAssumption DEF Init, TypeOK, Minutes
<1>4. JobInv
  BY <1>1 DEF Init, JobInv
<1>5. WmInv /\ AggInv
  BY <1>1, <1>2 DEF Init, WmInv, AggInv, Traded
<1> QED BY <1>3, <1>4, <1>5 DEF Inv

\* The steps that leave the clock, the trades, the aggregates and the watermarks.
LEMMA Quiet ==
    ASSUME Inv, UNCHANGED <<now, trades, agg, wm, wmD1, verified, job>> PROVE Inv'
<1>1. TypeOK /\ JobInv /\ WmInv /\ AggInv
  BY DEF Inv
<1>2. TypeOK'
  BY <1>1 DEF TypeOK
<1>3. JobInv'
  BY <1>1 DEF JobInv
<1>4. WmInv'
  BY <1>1 DEF WmInv
<1>5. AggInv'
  BY <1>1 DEF AggInv
<1> QED BY <1>2, <1>3, <1>4, <1>5 DEF Inv

\* A backfill in progress holds bars.
LEMMA JobTyped ==
    ASSUME TypeOK, NEW j \in Jobs, job[j] # Idle
    PROVE  job[j] \in JobRec /\ job[j].bars \in SUBSET Bar
<1>1. job[j] \in JobRec
  BY DEF TypeOK
<1>2. QED BY <1>1 DEF JobRec

\* The exchange trades.
LEMMA TradeStep == ASSUME Inv, Trade PROVE Inv'
<1>1. TypeOK /\ JobInv /\ WmInv /\ AggInv
  BY DEF Inv
<1>2. trades' = Append(trades, now) /\ UNCHANGED <<now, agg, wm, wmD1, verified, job>>
  BY DEF Trade
<1>3. now \in Minutes /\ now \in Int /\ trades \in Seq(Minutes) /\ wm \in Int /\ wm <= now
      /\ \A i \in DOMAIN trades : trades[i] <= now
  BY <1>1 DEF TypeOK, Minutes
<1>4. Traded(trades') = Traded(trades) \cup {now} /\ trades' \in Seq(Minutes)
  BY <1>2, <1>3, TradeDomain
<1>5. TypeOK'
  <2>1. \A i \in DOMAIN trades' : trades'[i] <= now
    <3>1. \A m \in Traded(trades') : m <= now
      <4>1. \A m \in Traded(trades) : m <= now
        BY <1>1, <1>3, TradedTyped
      <4> QED BY <4>1, <1>3, <1>4
    <3> QED BY <3>1 DEF Traded
  <2> QED BY <2>1, <1>1, <1>2, <1>4 DEF TypeOK
<1>6. JobInv'
  <2>1. ASSUME NEW j \in Jobs, job[j] # Idle PROVE BarsOK(job[j].bars, now, trades', verified)
    <3>1. BarsOK(job[j].bars, now, trades, verified) /\ job[j].bars \in SUBSET Bar
      BY <1>1, <2>1, JobTyped DEF JobInv
    <3> QED BY <3>1, <1>2, <1>3, BarsTrade
  <2> QED BY <2>1, <1>2 DEF JobInv
<1>7. WmInv'
  <2>1. ~(trading_date_of(now) < ResumeDay(wm))
    BY <1>3, ResumeBefore, Days DEF Minutes
  <2> QED BY <2>1, <1>1, <1>2, <1>4 DEF WmInv
<1>8. AggInv'
  <2>1. ASSUME NEW r \in agg, r.is_final
        PROVE r.seen = In(trades', Period(r.minute)) /\ \A m \in Period(r.minute) : m < now
    <3>1. r.seen = In(trades, Period(r.minute)) /\ \A m \in Period(r.minute) : m < now
      BY <1>1, <2>1 DEF AggInv
    <3>2. now \notin Period(r.minute)
      BY <3>1, <1>3
    <3> QED BY <3>1, <3>2, <1>2, <1>3, TradeAppends
  <2> QED BY <2>1, <1>2 DEF AggInv
<1> QED BY <1>5, <1>6, <1>7, <1>8 DEF Inv

\* Time passes: a day ends, the lookback moves on.
LEMMA AdvanceStep == ASSUME Inv, Advance PROVE Inv'
<1>1. TypeOK /\ JobInv /\ WmInv /\ AggInv
  BY DEF Inv
<1>2. now < MaxTime /\ now' = now + 1 /\ UNCHANGED <<trades, agg, wm, wmD1, verified, job>>
  BY DEF Advance
<1>3. now \in Nat /\ now' \in Nat /\ now <= now' /\ now' \in Minutes /\ trades \in Seq(Minutes)
      /\ wm \in Int /\ wm <= now'
  BY <1>1, <1>2, BarStoreAssumption DEF TypeOK, Minutes
<1>4. TypeOK'
  <2>1. \A i \in DOMAIN trades : trades[i] <= now'
    <3>1. \A i \in DOMAIN trades : trades[i] \in Minutes /\ trades[i] <= now
      BY <1>1, <1>3 DEF TypeOK
    <3> QED BY <3>1, <1>3 DEF Minutes
  <2> QED BY <2>1, <1>1, <1>2, <1>3 DEF TypeOK
<1>5. JobInv'
  <2>1. ASSUME NEW j \in Jobs, job[j] # Idle PROVE BarsOK(job[j].bars, now', trades, verified)
    <3>1. BarsOK(job[j].bars, now, trades, verified) /\ job[j].bars \in SUBSET Bar
      BY <1>1, <2>1, JobTyped DEF JobInv
    <3> QED BY <3>1, <1>3, BarsLater
  <2> QED BY <2>1, <1>2 DEF JobInv
<1>6. WmInv'
  <2>1. FloorDay(now) \in Int /\ FloorDay(now') \in Int /\ FloorDay(now) <= FloorDay(now')
    BY <1>3, FloorForward
  <2>2. \A m \in Traded(trades) : trading_date_of(m) \in Int
    BY <1>1, TradedTyped, Days DEF Minutes
  <2> QED BY <2>1, <2>2, <1>1, <1>2 DEF WmInv
<1>7. AggInv'
  <2>1. ASSUME NEW r \in agg, r.is_final, NEW m \in Period(r.minute) PROVE m < now'
    <3>1. m < now
      BY <1>1, <2>1 DEF AggInv
    <3>2. m \in Int
      BY DEF Period, Minutes
    <3> QED BY <3>1, <3>2, <1>3
  <2> QED BY <2>1, <1>1, <1>2 DEF AggInv
<1> QED BY <1>4, <1>5, <1>6, <1>7 DEF Inv

\* What a step of a backfill owes that leaves what is stored.
LEMMA JobMoves ==
    ASSUME Inv, UNCHANGED <<now, trades, agg, wm, wmD1, verified>>,
           NEW j \in Jobs, NEW x \in {Idle} \cup JobRec, job' = [job EXCEPT ![j] = x],
           x # Idle => BarsOK(x.bars, now, trades, verified)
    PROVE  Inv'
<1>1. TypeOK /\ JobInv /\ WmInv /\ AggInv
  BY DEF Inv
<1>2. job \in [Jobs -> {Idle} \cup JobRec]
  BY <1>1 DEF TypeOK
<1>3. TypeOK'
  BY <1>1, <1>2 DEF TypeOK
<1>4. JobInv'
  <2>1. ASSUME NEW k \in Jobs, job'[k] # Idle PROVE BarsOK(job'[k].bars, now, trades, verified)
    <3>1. CASE k = j
      BY <2>1, <3>1, <1>2
    <3>2. CASE k # j
      BY <2>1, <3>2, <1>1, <1>2 DEF JobInv
    <3> QED BY <3>1, <3>2
  <2> QED BY <2>1 DEF JobInv
<1>5. WmInv'
  BY <1>1 DEF WmInv
<1>6. AggInv'
  BY <1>1 DEF AggInv
<1> QED BY <1>3, <1>4, <1>5, <1>6 DEF Inv

\* A fetch that failed before its bars has none.
LEMMA NoBarsOK == \A t, tr, v : BarsOK({}, t, tr, v)
  BY DEF BarsOK, FinalWhole, NewestOpen, NoGap, NoJump

\* The steps of a backfill: a fetch ...
LEMMA FetchStep == ASSUME Inv, NEW j \in Jobs, Fetch(j) PROVE Inv'
<1>1. TypeOK /\ WmInv
  BY DEF Inv
<1> DEFINE days == {trading_date_of(trades[i]) : i \in DOMAIN trades} \ {trading_date_of(now)}
<1>2. PICK got \in {"all", "daily", "none"} :
        job' = [job EXCEPT ![j] = [at |-> "fetched",
                  bars |-> IF got = "all" THEN FetchCandles(M1Start) ELSE {}, prev |-> -1,
                  day |-> IF got = "none" THEN -1 ELSE Max(days \cup {-1})]]
  BY DEF Fetch
<1>3. UNCHANGED <<now, trades, agg, wm, wmD1, verified>>
  BY DEF Fetch
<1> DEFINE B == IF got = "all" THEN FetchCandles(M1Start) ELSE {}
           day == IF got = "none" THEN -1 ELSE Max(days \cup {-1})
<1>4. day \in Int
  <2>1. now \in Int /\ trading_date_of(now) \in Int
    BY <1>1, Days DEF TypeOK, Minutes
  <2>2. \A m \in Traded(trades) : trading_date_of(m) \in Int /\ trading_date_of(m) <= trading_date_of(now)
    BY <1>1, <2>1, TradedTyped, Days
  <2>3. \A d \in days \cup {-1} : d \in Int /\ (d <= trading_date_of(now) \/ d = -1)
    BY <2>2 DEF Traded
  <2> HIDE DEF days
  <2> DEFINE n == Max0(-1, trading_date_of(now))
  <2>4. n \in Int /\ n >= -1 /\ n >= trading_date_of(now)
    BY <2>1 DEF Max0
  <2> HIDE DEF n
  <2>5. Max(days \cup {-1}) \in Int
    <3>1. \A d \in days \cup {-1} : d <= n
      BY <2>1, <2>3, <2>4
    <3> QED BY <3>1, <2>3, <2>4, MaxIs
  <2> QED BY <2>5
<1>5. B \in SUBSET Bar /\ BarsOK(B, now, trades, verified)
  <2>1. CASE got = "all"
    BY <2>1, <1>1, FetchTyped, FetchOK
  <2>2. CASE got # "all"
    BY <2>2, NoBarsOK
  <2> QED BY <2>1, <2>2
<1> DEFINE x == [at |-> "fetched", bars |-> B, prev |-> -1, day |-> day]
<1>6. job' = [job EXCEPT ![j] = x]
  BY <1>2
<1> HIDE DEF B, day
<1>7. x \in JobRec /\ x.bars = B
  BY <1>4, <1>5 DEF JobRec
<1> HIDE DEF x
<1> QED BY <1>3, <1>5, <1>6, <1>7, JobMoves

\* ... the reading of the D1 watermark ...
LEMMA ReadStep == ASSUME Inv, NEW j \in Jobs, ReadDaily(j) PROVE Inv'
<1>1. TypeOK /\ JobInv
  BY DEF Inv
<1>2. job[j] # Idle
  BY DEF ReadDaily, Idle
<1>3. job[j] \in JobRec /\ wmD1 \in Int /\ BarsOK(job[j].bars, now, trades, verified)
  BY <1>1, <1>2, JobTyped DEF TypeOK, JobInv
<1> DEFINE x == [job[j] EXCEPT !.at = "read", !.prev = wmD1]
<1>4. x \in JobRec /\ x.bars = job[j].bars
  BY <1>3 DEF JobRec
<1>5. job' = [job EXCEPT ![j] = x] /\ UNCHANGED <<now, trades, agg, wm, wmD1, verified>>
  BY DEF ReadDaily
<1> HIDE DEF x
<1> QED BY <1>3, <1>4, <1>5, JobMoves

\* ... the writing ...
LEMMA StoreStep == ASSUME Inv, NEW j \in Jobs, StoreBars(j) PROVE Inv'
<1>1. TypeOK /\ JobInv
  BY DEF Inv
<1>2. job[j] # Idle
  BY DEF StoreBars, Idle
<1>3. job[j] \in JobRec /\ BarsOK(job[j].bars, now, trades, verified)
  BY <1>1, <1>2, JobTyped DEF JobInv
<1> DEFINE x == [job[j] EXCEPT !.at = "stored", !.prev = Max0(job[j].prev, job[j].day)]
<1>4. x \in JobRec /\ x.bars = job[j].bars
  <2>1. Max0(job[j].prev, job[j].day) \in Int
    BY <1>3, MaxZero DEF JobRec
  <2> QED BY <1>3, <2>1 DEF JobRec
<1>5. job' = [job EXCEPT ![j] = x] /\ UNCHANGED <<now, trades, agg, wm, wmD1, verified>>
  BY DEF StoreBars
<1> HIDE DEF x
<1> QED BY <1>3, <1>4, <1>5, JobMoves

\* ... a rollback ...
LEMMA AbortStep == ASSUME Inv, NEW j \in Jobs, AbortJob(j) PROVE Inv'
<1>1. job' = [job EXCEPT ![j] = Idle] /\ UNCHANGED <<now, trades, agg, wm, wmD1, verified>>
  BY DEF AbortJob
<1> QED BY <1>1, JobMoves

\* The minute a commit may move the watermark to.
LEMMA LastFinalIs ==
    ASSUME NEW B \in SUBSET Bar, NEW t \in Minutes, NEW tr, FinalWhole(B, t, tr)
    PROVE  /\ LastFinal(B) \in Int /\ LastFinal(B) <= t
           /\ LastFinal(B) = -1 \/ \E W \in B : W.is_final /\ W.minute = LastFinal(B)
<1> DEFINE F == {b.minute : b \in {b \in B : b.is_final}}
<1>1. \A m \in F : m \in Int /\ m <= t /\ \E W \in B : W.is_final /\ W.minute = m
  <2>1. ASSUME NEW b \in B, b.is_final PROVE b.minute \in Int /\ b.minute <= t
    <3>1. b.minute < t
      BY <2>1 DEF FinalWhole
    <3> QED BY <3>1, BarMinute DEF Minutes
  <2> QED BY <2>1
<1> HIDE DEF F
<1>2. t \in Int /\ -1 <= t
  BY DEF Minutes
<1>3. F \cup {-1} \in SUBSET Int /\ \A m \in F \cup {-1} : m <= t
  BY <1>1, <1>2
<1>4. Max(F \cup {-1}) \in F \cup {-1}
  BY <1>2, <1>3, MaxIs
<1>5. LastFinal(B) = Max(F \cup {-1})
  BY DEF LastFinal, F
<1> QED BY <1>1, <1>2, <1>3, <1>4, <1>5

\* ... and the commit.
LEMMA CommitStep == ASSUME Inv, NEW j \in Jobs, CommitBars(j) PROVE Inv'
<1>1. TypeOK /\ JobInv /\ WmInv /\ AggInv
  BY DEF Inv
<1> DEFINE B == job[j].bars
<1>2. job[j] # Idle
  BY DEF CommitBars, Idle
<1>3. job[j] \in JobRec /\ B \in SUBSET Bar /\ BarsOK(B, now, trades, verified)
  BY <1>1, <1>2, JobTyped DEF JobInv
<1>4. /\ job' = [job EXCEPT ![j] = Idle]
      /\ wm' = Max0(wm, LastFinal(B)) /\ wmD1' = job[j].prev
      /\ agg' = Upsert(agg, aggregate_m1(B, Interval, now))
      /\ verified' = verified \cup {b.minute : b \in {b \in B : b.minute < now /\ Whole(b)}}
      /\ now' = now /\ trades' = trades
  BY DEF CommitBars
<1> HIDE DEF B
<1>5. now \in Minutes /\ now \in Nat /\ trades \in Seq(Minutes) /\ wm \in Int /\ wm <= now
      /\ job \in [Jobs -> {Idle} \cup JobRec]
  BY <1>1 DEF TypeOK, Minutes
<1>6. FinalWhole(B, now, trades) /\ NoJump(B, now, trades, verified)
  BY <1>3 DEF BarsOK
<1>7. /\ LastFinal(B) \in Int /\ LastFinal(B) <= now
      /\ LastFinal(B) = -1 \/ \E W \in B : W.is_final /\ W.minute = LastFinal(B)
  BY <1>3, <1>5, <1>6, LastFinalIs
<1>8. wm' \in Int /\ wm' <= now /\ (wm' = wm \/ wm' = LastFinal(B))
  BY <1>4, <1>5, <1>7 DEF Max0
<1>9. TypeOK'
  <2>1. wmD1' \in Int
    BY <1>3, <1>4 DEF JobRec
  <2>2. job' \in [Jobs -> {Idle} \cup JobRec]
    BY <1>4, <1>5
  <2> QED BY <2>1, <2>2, <1>1, <1>4, <1>8 DEF TypeOK
<1>10. verified \subseteq verified'
  BY <1>4
<1>11. ASSUME NEW b \in B, b.is_final PROVE b.minute \in verified'
  <2>1. b.minute < now /\ b.seen = In(trades, {b.minute}) /\ b.volume = Cardinality(In(trades, {b.minute}))
    BY <1>6, <1>11 DEF FinalWhole
  <2>2. Whole(b)
    BY <2>1 DEF Whole, TradesOf, In
  <2> QED BY <2>1, <2>2, <1>4
<1>12. JobInv'
  <2>1. ASSUME NEW k \in Jobs, job'[k] # Idle PROVE BarsOK(job'[k].bars, now, trades, verified')
    <3>1. k # j /\ job'[k] = job[k]
      BY <2>1, <1>4, <1>5
    <3>2. BarsOK(job[k].bars, now, trades, verified) /\ job[k].bars \in SUBSET Bar
      BY <2>1, <3>1, <1>1, JobTyped DEF JobInv
    <3> QED BY <3>1, <3>2, <1>5, <1>10, BarsLater
  <2> QED BY <2>1, <1>4 DEF JobInv
<1>13. WmInv'
  <2>1. SUFFICES ASSUME NEW m \in Traded(trades), wm' # -1, trading_date_of(m) < ResumeDay(wm')
                 PROVE  m \in verified' \/ trading_date_of(m) < FloorDay(now)
    BY <1>4 DEF WmInv
  <2>2. CASE wm' = wm
    BY <2>1, <2>2, <1>1, <1>10 DEF WmInv
  <2>3. CASE wm' = LastFinal(B)
    <3>1. PICK W \in B : W.is_final /\ W.minute = wm'
      BY <2>1, <2>3, <1>7
    <3>2. \/ \E b \in B : b.is_final /\ b.minute = m
          \/ m \in verified
          \/ trading_date_of(m) < FloorDay(now)
      BY <2>1, <3>1, <1>6 DEF NoJump
    <3> QED BY <3>2, <1>10, <1>11
  <2> QED BY <2>2, <2>3, <1>8
<1>14. AggInv'
  <2>1. SUFFICES ASSUME NEW r \in agg', r.is_final
                 PROVE  r.seen = In(trades, Period(r.minute)) /\ \A m \in Period(r.minute) : m < now
    BY <1>4 DEF AggInv
  <2>2. r \in agg \/ r \in aggregate_m1(B, Interval, now)
    BY <1>4 DEF Upsert
  <2>3. CASE r \in agg
    BY <2>1, <2>3, <1>1 DEF AggInv
  <2>4. CASE r \in aggregate_m1(B, Interval, now)
    BY <2>1, <2>4, <1>3, <1>5, AggregatedWhole
  <2> QED BY <2>2, <2>3, <2>4
<1> QED BY <1>9, <1>12, <1>13, <1>14 DEF Inv

\* Every step keeps the invariant; those of the stream do not touch it.
LEMMA NextInv == ASSUME Inv, [Next]_vars PROVE Inv'
<1>1. CASE Trade
  BY <1>1, TradeStep
<1>2. CASE Advance
  BY <1>2, AdvanceStep
<1>3. CASE SendFrame
  BY <1>3, Quiet DEF SendFrame
<1>4. CASE Connect
  BY <1>4, Quiet DEF Connect
<1>5. CASE ReceiveTick
  BY <1>5, Quiet DEF ReceiveTick
<1>6. CASE OtherTick
  BY <1>6, Quiet DEF OtherTick
<1>7. CASE FeedEnds
  BY <1>7, Quiet DEF FeedEnds
<1>8. CASE FeedFails
  BY <1>8, Quiet DEF FeedFails
<1>9. CASE \E j \in Jobs : Fetch(j) \/ ReadDaily(j) \/ StoreBars(j) \/ CommitBars(j) \/ AbortJob(j)
  BY <1>9, FetchStep, ReadStep, StoreStep, CommitStep, AbortStep
<1>10. CASE UNCHANGED vars
  BY <1>10, Quiet DEF vars
<1> QED BY <1>1, <1>2, <1>3, <1>4, <1>5, <1>6, <1>7, <1>8, <1>9, <1>10 DEF Next

\* Of every behaviour.
LEMMA InvHolds == Spec => []Inv
  BY InitInv, NextInv, PTL DEF Spec

-----------------------------------------------------------------------------
\* BarStore!DamageInReach: no minute that was traded leaves what the next fetch
\* of _plan covers before it is older than the lookback or a backfill has stored
\* it whole; what the stream made of it until then is overwritten.
THEOREM DamageHolds == Spec => []DamageInReach
<1>1. Inv => DamageInReach
  <2>1. SUFFICES ASSUME Inv, NEW m \in Minutes, Damaged(m), ~InReach(m) PROVE m \in verified
    BY DEF DamageInReach
  <2>2. TypeOK /\ WmInv
    BY <2>1 DEF Inv
  <2>3. m \in Traded(trades)
    <3>1. PICK i \in TradesOf({m}) : TRUE
      BY <2>1 DEF Damaged
    <3> QED BY <3>1 DEF TradesOf, Traded
  <2>4. ~(trading_date_of(m) >= M1Start) /\ ~(trading_date_of(m) < FloorDay(now))
    BY <2>1 DEF InReach, FloorDay
  <2>5. now \in Nat /\ wm \in Int /\ m \in Int /\ trading_date_of(m) \in Int
    BY <2>2, Days DEF TypeOK, Minutes
  <2>6. trading_date_of(m) < M1Start
    BY <2>4, <2>5, StartIs
  <2>7. wm # -1 /\ M1Start = ResumeDay(wm)
    BY <2>4, <2>5, <2>6, StartIs
  <2> QED BY <2>2, <2>3, <2>4, <2>6, <2>7 DEF WmInv
<1> QED BY <1>1, InvHolds, PTL

\* BarStore!AggregatesWhole: a final aggregate holds every trade of its period,
\* in whatever order the backfills fetched and store.
THEOREM AggregatesHold == Spec => []AggregatesWhole
<1>1. Inv => AggregatesWhole
  <2>1. SUFFICES ASSUME Inv, NEW r \in agg, r.is_final
                 PROVE  r.seen = In(trades, Period(r.minute))
    BY DEF AggregatesWhole, Period, TradesOf, In
  <2> QED BY <2>1 DEF Inv, AggInv
<1> QED BY <1>1, InvHolds, PTL

\* BarStore!WatermarkForward: no step of anybody moves the watermark of M1 back.
THEOREM WatermarkHolds == Spec => WatermarkForward
<1>1. ASSUME Inv, [Next]_vars PROVE [wm' >= wm]_wm
  <2>1. CASE \E j \in Jobs : CommitBars(j)
    <3>1. PICK j \in Jobs : CommitBars(j)
      BY <2>1
    <3>2. TypeOK /\ JobInv
      BY <1>1 DEF Inv
    <3>3. job[j] # Idle
      BY <3>1 DEF CommitBars, Idle
    <3>4. job[j].bars \in SUBSET Bar /\ FinalWhole(job[j].bars, now, trades)
      BY <3>2, <3>3, JobTyped DEF JobInv, BarsOK
    <3>5. now \in Minutes /\ wm \in Int
      BY <3>2 DEF TypeOK
    <3>6. LastFinal(job[j].bars) \in Int
      BY <3>4, <3>5, LastFinalIs
    <3>7. wm' = Max0(wm, LastFinal(job[j].bars))
      BY <3>1 DEF CommitBars
    <3> QED BY <3>5, <3>6, <3>7, MaxZero
  <2>2. CASE ~\E j \in Jobs : CommitBars(j)
    BY <1>1, <2>2 DEF Next, vars, Trade, Advance, SendFrame, Connect, ReceiveTick, OtherTick,
                      FeedEnds, FeedFails, Fetch, ReadDaily, StoreBars, AbortJob
  <2> QED BY <2>1, <2>2
<1> QED BY <1>1, InvHolds, PTL DEF Spec, WatermarkForward

-----------------------------------------------------------------------------
(* Volumes.                                                                 *)

\* What the stream has written, committed or not.
StreamBars == {r \in rows : r.by = "stream"} \cup stream.dirty

\* A bucket, and what the stream writes.
Bucket == [minute : Minutes, seen : SUBSET Nat, open_cum : Nat, last_cum : Nat]
StreamBar == [minute : Minutes, seen : SUBSET Nat, volume : Nat, is_final : BOOLEAN, by : {"stream"}]

\* The newest trade a bar or bucket has seen.
Newest(r) == Max(r.seen)
\* How many of the trades tr of day d are among the first i, and how many of its
\* day a bar or bucket had behind it with its newest trade.
Count(tr, d, i) == Cardinality({j \in DOMAIN tr : trading_date_of(tr[j]) = d /\ j <= i})
Behind(tr, r) == Count(tr, trading_date_of(r.minute), Newest(r))
Earlier(q, r) == q.minute < r.minute /\ trading_date_of(q.minute) = trading_date_of(r.minute)

\* The newest trade seen is one of the minute.
SeenOK(tr, r) ==
    /\ Newest(r) \in r.seen /\ Newest(r) \in DOMAIN tr /\ tr[Newest(r)] = r.minute
    /\ \A j \in r.seen : j <= Newest(r)
\* Of two bars of a day the later counts nothing the earlier had behind it.
BarsApart(tr, B) ==
    \A r \in B :
        /\ r \in StreamBar /\ SeenOK(tr, r) /\ r.volume <= Behind(tr, r)
        /\ \A q \in B : Earlier(q, r) => r.volume + Behind(tr, q) <= Behind(tr, r)
\* A frame has the volume of the last trade's day, or none once that is over.
FrameOK(tr, vd, B, f) ==
    f # NoFrame =>
        /\ f.trade \in DOMAIN tr /\ f.ts = tr[f.trade]
        /\ \/ f.cum_volume = Count(tr, trading_date_of(f.ts), f.trade)
           \/ f.cum_volume = 0 /\ trading_date_of(f.ts) < vd
        /\ \A q \in B : Newest(q) <= f.trade
\* The volume of day d is still reported, or on its way.
Reported(vd, f, d) ==
    \/ d >= vd
    \/ f # NoFrame /\ f.cum_volume # 0 /\ trading_date_of(f.ts) = d
\* A bucket starts at what all bars before it have behind them, but for one
\* begun after the day's volume was gone, which never counts any.
BucketOK(tr, vd, B, f, b) ==
    b # NoBucket =>
        /\ b \in Bucket /\ SeenOK(tr, b) /\ b.last_cum <= Behind(tr, b)
        /\ Reported(vd, f, trading_date_of(b.minute)) => b.last_cum = Behind(tr, b)
        /\ b.last_cum # 0 => \A q \in B : Earlier(q, b) => Behind(tr, q) <= b.open_cum
        /\ b.last_cum = 0 /\ f # NoFrame /\ f.ts = b.minute => f.cum_volume = 0
        /\ \A q \in B : Newest(q) <= Newest(b)
        /\ f # NoFrame => Newest(b) <= f.trade
VolumeOK(tr, vd, B, f, b) == BarsApart(tr, B) /\ FrameOK(tr, vd, B, f) /\ BucketOK(tr, vd, B, f, b)

\* The trades are in the order of their time, none after the day reported.
TapeOK(tr, vd) ==
    /\ vd \in Int
    /\ \A i, j \in DOMAIN tr : i < j => tr[i] <= tr[j]
    /\ \A i \in DOMAIN tr : trading_date_of(tr[i]) <= vd
OneEach(B) == \A q, r \in B : q.minute = r.minute => q = r

\* The inductive invariant of volumes.
VolumeInv ==
    /\ TapeOK(trades, volumeDay) /\ volumeDay <= trading_date_of(now)
    /\ stream \in [up : BOOLEAN, bucket : {NoBucket} \cup Bucket, dirty : SUBSET StreamBar,
                   due : BOOLEAN]
    /\ OneEach({r \in rows : r.by = "stream"}) /\ OneEach(stream.dirty)
    /\ VolumeOK(trades, volumeDay, StreamBars, pipe, stream.bucket)

-----------------------------------------------------------------------------
\* What Count does: it counts up to the length, never less for more trades.
LEMMA CountFacts ==
    ASSUME NEW tr \in Seq(Minutes), NEW d
    PROVE  /\ \A i \in Int : Count(tr, d, i) \in Nat
           /\ \A i, k \in Int : i <= k => Count(tr, d, i) <= Count(tr, d, k)
           /\ \A i \in DOMAIN tr : trading_date_of(tr[i]) = d => Count(tr, d, i) >= 1
           /\ \A i, k \in Int : i <= k =>
                Cardinality({j \in DOMAIN tr : trading_date_of(tr[j]) = d /\ i < j /\ j <= k})
                  = Count(tr, d, k) - Count(tr, d, i)
<1> DEFINE Upto(i) == {j \in DOMAIN tr : trading_date_of(tr[j]) = d /\ j <= i}
           Between(i, k) == {j \in DOMAIN tr : trading_date_of(tr[j]) = d /\ i < j /\ j <= k}
<1>1. DOMAIN tr = 1..Len(tr) /\ Len(tr) \in Nat
  OBVIOUS
<1>2. IsFiniteSet(DOMAIN tr) /\ DOMAIN tr \in SUBSET Int
  BY <1>1, FS_Interval
<1>3. \A i, k : /\ IsFiniteSet(Upto(i)) /\ Cardinality(Upto(i)) \in Nat
                /\ IsFiniteSet(Between(i, k)) /\ Cardinality(Between(i, k)) \in Nat
  <2>1. \A i, k : Upto(i) \in SUBSET (DOMAIN tr) /\ Between(i, k) \in SUBSET (DOMAIN tr)
    OBVIOUS
  <2> HIDE DEF Upto, Between
  <2> QED BY <2>1, <1>2, FS_Subset, FS_CardinalityType
<1>4. \A i, k \in Int : i <= k =>
        Upto(k) = Upto(i) \cup Between(i, k) /\ Upto(i) \cap Between(i, k) = {}
  BY <1>2
<1>5. \A i \in DOMAIN tr : trading_date_of(tr[i]) = d => i \in Upto(i)
  BY <1>2
<1>6. \A i : Count(tr, d, i) = Cardinality(Upto(i))
  BY DEF Count
<1> HIDE DEF Upto
<1>7. ASSUME NEW i \in Int, NEW k \in Int, i <= k
      PROVE  Cardinality(Upto(k)) = Cardinality(Upto(i)) + Cardinality(Between(i, k))
  <2> HIDE DEF Between
  <2>1. Upto(k) = Upto(i) \cup Between(i, k) /\ Upto(i) \cap Between(i, k) = {}
    BY <1>4, <1>7
  <2>2. Cardinality(Upto(i) \cap Between(i, k)) = 0
    BY <2>1, FS_EmptySet
  <2>3. Cardinality(Upto(i) \cup Between(i, k))
          = Cardinality(Upto(i)) + Cardinality(Between(i, k)) - Cardinality(Upto(i) \cap Between(i, k))
    BY <1>3, FS_Union
  <2>4. Cardinality(Upto(i)) \in Nat /\ Cardinality(Between(i, k)) \in Nat
    BY <1>3
  <2> QED BY <2>1, <2>2, <2>3, <2>4
<1>8. \A i \in DOMAIN tr : trading_date_of(tr[i]) = d => Cardinality(Upto(i)) >= 1
  <2>1. SUFFICES ASSUME NEW i \in DOMAIN tr, trading_date_of(tr[i]) = d PROVE Cardinality(Upto(i)) >= 1
    OBVIOUS
  <2>2. Cardinality(Upto(i)) # 0
    BY <2>1, <1>3, <1>5, FS_EmptySet
  <2>3. Cardinality(Upto(i)) \in Nat
    BY <1>3
  <2> HIDE <1>3
  <2> QED BY <2>2, <2>3
<1>9. \A i, k \in Int : i <= k =>
        /\ Cardinality(Between(i, k)) = Cardinality(Upto(k)) - Cardinality(Upto(i))
        /\ Cardinality(Upto(i)) <= Cardinality(Upto(k))
  <2> HIDE DEF Between
  <2>1. SUFFICES ASSUME NEW i \in Int, NEW k \in Int, i <= k
                 PROVE  /\ Cardinality(Between(i, k)) = Cardinality(Upto(k)) - Cardinality(Upto(i))
                        /\ Cardinality(Upto(i)) <= Cardinality(Upto(k))
    OBVIOUS
  <2>2. Cardinality(Upto(k)) = Cardinality(Upto(i)) + Cardinality(Between(i, k))
    BY <2>1, <1>7
  <2>3. Cardinality(Upto(i)) \in Nat /\ Cardinality(Between(i, k)) \in Nat
    BY <1>3
  <2> QED BY <2>2, <2>3
<1> QED BY <1>3, <1>6, <1>8, <1>9

\* The trades of a day, counted to the end; of a day without any.
LEMMA CountEnd ==
    ASSUME NEW tr \in Seq(Minutes), NEW d
    PROVE  /\ Count(tr, d, Len(tr)) = Cardinality(In(tr, DayMinutes(d)))
           /\ (\A i \in DOMAIN tr : trading_date_of(tr[i]) # d) => Count(tr, d, Len(tr)) = 0
<1>1. DOMAIN tr = 1..Len(tr) /\ Len(tr) \in Nat /\ \A i \in DOMAIN tr : tr[i] \in Minutes
  OBVIOUS
<1> DEFINE U == {j \in DOMAIN tr : trading_date_of(tr[j]) = d /\ j <= Len(tr)}
<1>2. U = In(tr, DayMinutes(d))
  BY <1>1 DEF In, DayMinutes
<1>3. (\A i \in DOMAIN tr : trading_date_of(tr[i]) # d) => U = {}
  OBVIOUS
<1>4. Count(tr, d, Len(tr)) = Cardinality(U)
  BY DEF Count
<1> HIDE DEF U
<1> QED BY <1>2, <1>3, <1>4, FS_EmptySet

\* What was counted is counted still when the exchange has traded once more.
LEMMA CountAppend ==
    ASSUME NEW tr \in Seq(Minutes), NEW t \in Minutes, NEW d, NEW i \in DOMAIN tr
    PROVE  Count(Append(tr, t), d, i) = Count(tr, d, i)
<1> DEFINE u == Append(tr, t)
<1>1. DOMAIN tr = 1..Len(tr) /\ Len(tr) \in Nat
  OBVIOUS
<1>2. DOMAIN u = 1..(Len(tr) + 1) /\ \A j \in 1..Len(tr) : u[j] = tr[j]
  BY <1>1
<1> HIDE DEF u
<1>3. {j \in DOMAIN u : trading_date_of(u[j]) = d /\ j <= i}
        = {j \in DOMAIN tr : trading_date_of(tr[j]) = d /\ j <= i}
  BY <1>1, <1>2
<1> QED BY <1>3 DEF Count, u

\* Trades are numbered in the order of their minutes.
LEMMA InOrder ==
    ASSUME NEW tr \in Seq(Minutes), NEW vd, TapeOK(tr, vd), NEW i \in DOMAIN tr, NEW j \in DOMAIN tr
    PROVE  /\ tr[i] < tr[j] => i < j
           /\ i <= j => tr[i] <= tr[j]
<1>1. i \in Int /\ j \in Int /\ tr[i] \in Minutes /\ tr[j] \in Minutes
  OBVIOUS
<1>2. tr[i] \in Int /\ tr[j] \in Int
  BY <1>1 DEF Minutes
<1>3. /\ i < j => tr[i] <= tr[j]
      /\ j < i => tr[j] <= tr[i]
  BY DEF TapeOK
<1> QED BY <1>1, <1>2, <1>3

\* The newest of a trade alone, and of the trades seen and one more.
LEMMA NewestAlone == \A i \in Int : Max({i}) = i
<1>1. SUFFICES ASSUME NEW i \in Int PROVE Max({i}) = i
  OBVIOUS
<1>2. {i} \in SUBSET Int /\ {i} # {} /\ \A x \in {i} : x <= i
  OBVIOUS
<1>3. Max({i}) \in {i}
  BY <1>2, MaxIs
<1> QED BY <1>3

LEMMA NewestAdded ==
    ASSUME NEW S, NEW i \in Nat, NEW n \in Int, \A j \in S : j \in Nat /\ j <= n, n <= i
    PROVE  Max(S \cup {i}) = i
<1> DEFINE T == S \cup {i}
<1>1. T \in SUBSET Int /\ i \in T /\ \A j \in T : j <= i
  <2>1. \A j \in T : j \in Int /\ j <= i
    OBVIOUS
  <2> QED BY <2>1
<1> HIDE DEF T
<1>2. Max(T) \in Int /\ Max(T) <= i /\ i <= Max(T)
  <2>1. Max(T) \in T /\ \A y \in T : y <= Max(T)
    BY <1>1, MaxIs
  <2> QED BY <2>1, <1>1
<1>3. Max(T) = i
  BY <1>1, <1>2
<1> QED BY <1>3 DEF T

\* What SeenOK says of the types, and of the order of two bars.
LEMMA SeenTyped ==
    ASSUME NEW tr \in Seq(Minutes), NEW r, SeenOK(tr, r)
    PROVE  /\ r.minute \in Int /\ Newest(r) \in Nat /\ trading_date_of(r.minute) \in Int
           /\ Behind(tr, r) \in Nat /\ Behind(tr, r) >= 1
<1>1. Newest(r) \in DOMAIN tr /\ tr[Newest(r)] = r.minute
  BY DEF SeenOK
<1>2. r.minute \in Int /\ Newest(r) \in Nat
  <2>1. r.minute \in Minutes /\ Newest(r) \in Nat
    BY <1>1
  <2> QED BY <2>1 DEF Minutes
<1>3. trading_date_of(r.minute) \in Int
  BY <1>2, Days
<1>4. Behind(tr, r) \in Nat /\ Behind(tr, r) >= 1
  <2>1. Newest(r) \in Int
    BY <1>2
  <2> QED BY <1>1, <2>1, CountFacts DEF Behind
<1> QED BY <1>2, <1>3, <1>4

LEMMA SeenOrder ==
    ASSUME NEW tr \in Seq(Minutes), NEW vd, TapeOK(tr, vd),
           NEW q, SeenOK(tr, q), NEW r, SeenOK(tr, r)
    PROVE  /\ q.minute < r.minute => Newest(q) < Newest(r)
           /\ Newest(q) <= Newest(r) =>
                /\ q.minute <= r.minute
                /\ trading_date_of(q.minute) <= trading_date_of(r.minute)
                /\ trading_date_of(q.minute) = trading_date_of(r.minute) =>
                     Behind(tr, q) <= Behind(tr, r)
<1>1. /\ Newest(q) \in DOMAIN tr /\ tr[Newest(q)] = q.minute
      /\ Newest(r) \in DOMAIN tr /\ tr[Newest(r)] = r.minute
  BY DEF SeenOK
<1>2. q.minute \in Int /\ r.minute \in Int /\ Newest(q) \in Int /\ Newest(r) \in Int
  BY SeenTyped
<1>3. /\ q.minute < r.minute => Newest(q) < Newest(r)
      /\ Newest(q) <= Newest(r) => q.minute <= r.minute
  BY <1>1, InOrder
<1>4. q.minute <= r.minute => trading_date_of(q.minute) <= trading_date_of(r.minute)
  BY <1>2, Days
<1>5. trading_date_of(q.minute) = trading_date_of(r.minute) /\ Newest(q) <= Newest(r) =>
        Behind(tr, q) <= Behind(tr, r)
  BY <1>2, CountFacts DEF Behind
<1> QED BY <1>3, <1>4, <1>5

\* The invariant asks less of fewer bars, without the frame or the bucket, and
\* once the feed reports a later day.
LEMMA Lessened ==
    ASSUME NEW tr \in Seq(Minutes), NEW vd \in Int, NEW B, NEW f, NEW b, VolumeOK(tr, vd, B, f, b),
           NEW w \in Int, vd <= w, NEW C \in SUBSET B, NEW g \in {f, NoFrame}, NEW c \in {b, NoBucket}
    PROVE  VolumeOK(tr, w, C, g, c)
<1>1. BarsApart(tr, B) /\ FrameOK(tr, vd, B, f) /\ BucketOK(tr, vd, B, f, b)
  BY DEF VolumeOK
<1>2. BarsApart(tr, C)
  BY <1>1 DEF BarsApart
<1>3. FrameOK(tr, w, C, g)
  <2>1. CASE g = NoFrame
    BY <2>1 DEF FrameOK
  <2>2. CASE g = f /\ f # NoFrame
    <3>1. /\ f.trade \in DOMAIN tr /\ f.ts = tr[f.trade]
          /\ \/ f.cum_volume = Count(tr, trading_date_of(f.ts), f.trade)
             \/ f.cum_volume = 0 /\ trading_date_of(f.ts) < vd
          /\ \A q \in C : Newest(q) <= f.trade
      BY <1>1, <2>2 DEF FrameOK
    <3>2. trading_date_of(f.ts) \in Int
      <4>1. f.ts \in Minutes
        BY <3>1
      <4> QED BY <4>1, Days, SMTT(30) DEF Minutes
    <3>3. trading_date_of(f.ts) < vd => trading_date_of(f.ts) < w
      BY <3>2
    <3> QED BY <2>2, <3>1, <3>3 DEF FrameOK
  <2> QED BY <2>1, <2>2
<1>4. BucketOK(tr, w, C, g, c)
  <2>1. CASE c = NoBucket
    BY <2>1 DEF BucketOK
  <2>2. CASE c = b /\ b # NoBucket
    <3>1. SeenOK(tr, b)
      BY <1>1, <2>2 DEF BucketOK
    <3>2. trading_date_of(b.minute) \in Int
      BY <3>1, SeenTyped
    <3>3. Reported(w, g, trading_date_of(b.minute)) => Reported(vd, f, trading_date_of(b.minute))
      BY <3>2 DEF Reported
    <3> QED BY <1>1, <2>2, <3>3 DEF BucketOK
  <2> QED BY <2>1, <2>2
<1> QED BY <1>2, <1>3, <1>4 DEF VolumeOK

\* What the stream writes of its bucket counts nothing twice.
LEMMA Written ==
    ASSUME NEW tr \in Seq(Minutes), NEW vd, TapeOK(tr, vd), NEW B, NEW f, NEW b,
           VolumeOK(tr, vd, B, f, b), b # NoBucket, NEW final \in BOOLEAN
    PROVE  VolumeOK(tr, vd, B \cup {ToBar(b, final)}, f, b)
<1> DEFINE r == ToBar(b, final)
           C == B \cup {r}
<1>1. BarsApart(tr, B) /\ FrameOK(tr, vd, B, f) /\ BucketOK(tr, vd, B, f, b)
  BY DEF VolumeOK
<1>2. /\ b \in Bucket /\ b.last_cum \in Nat /\ b.open_cum \in Nat
      /\ SeenOK(tr, b) /\ b.last_cum <= Behind(tr, b)
      /\ b.last_cum # 0 => \A q \in B : Earlier(q, b) => Behind(tr, q) <= b.open_cum
      /\ \A q \in B : Newest(q) <= Newest(b)
      /\ f # NoFrame => Newest(b) <= f.trade
  BY <1>1 DEF BucketOK, Bucket
<1>3. r = [minute |-> b.minute, seen |-> b.seen, volume |-> Max0(0, b.last_cum - b.open_cum),
           is_final |-> final, by |-> "stream"]
  BY DEF ToBar
<1> HIDE DEF r
<1>4. SeenOK(tr, r) /\ Newest(r) = Newest(b) /\ Behind(tr, r) = Behind(tr, b)
  BY <1>2, <1>3 DEF SeenOK, Newest, Behind
<1>5. \A q : (Earlier(q, r) <=> Earlier(q, b)) /\ (Earlier(r, q) <=> Earlier(b, q))
  BY <1>3 DEF Earlier
<1>6. Behind(tr, b) \in Nat /\ Newest(b) \in Nat /\ b.minute \in Int
  BY <1>2, SeenTyped
<1>7. r.volume \in Nat /\ r.volume <= b.last_cum /\ r.volume <= Behind(tr, r)
  BY <1>2, <1>3, <1>4, <1>6 DEF Max0
<1>8. ASSUME NEW q \in B PROVE SeenOK(tr, q) /\ Behind(tr, q) \in Nat /\ Behind(tr, q) >= 1
                               /\ Newest(q) \in Nat
  BY <1>1, SeenTyped DEF BarsApart
<1>9. ASSUME NEW q \in B, Earlier(q, r) PROVE r.volume + Behind(tr, q) <= Behind(tr, r)
  <2>1. Behind(tr, q) <= Behind(tr, b)
    BY <1>2, <1>5, <1>8, <1>9, SeenOrder DEF Earlier
  <2>2. CASE b.last_cum = 0
    <3>1. r.volume = 0
      BY <2>2, <1>7
    <3> QED BY <3>1, <2>1, <1>4, <1>6, <1>8
  <2>3. CASE b.last_cum # 0
    <3>1. Behind(tr, q) <= b.open_cum
      BY <2>3, <1>2, <1>5, <1>9
    <3>2. Behind(tr, q) \in Nat
      BY <1>8
    <3>3. r.volume = 0 \/ r.volume = b.last_cum - b.open_cum
      BY <1>2, <1>3 DEF Max0
    <3> QED BY <2>1, <3>1, <3>2, <3>3, <1>2, <1>4, <1>6
  <2> QED BY <2>2, <2>3
<1>10. \A q \in B : ~Earlier(r, q)
  <2>1. SUFFICES ASSUME NEW q \in B, Earlier(b, q) PROVE FALSE
    BY <1>5
  <2>2. Newest(b) < Newest(q)
    BY <2>1, <1>2, <1>8, SeenOrder DEF Earlier
  <2> QED BY <2>2, <1>2, <1>6, <1>8
<1>11. ~Earlier(r, r) /\ ~Earlier(r, b)
  BY <1>3, <1>6 DEF Earlier
<1>12. BarsApart(tr, C)
  <2>1. SUFFICES ASSUME NEW s \in C
                 PROVE  /\ s \in StreamBar /\ SeenOK(tr, s) /\ s.volume <= Behind(tr, s)
                        /\ \A q \in C : Earlier(q, s) => s.volume + Behind(tr, q) <= Behind(tr, s)
    BY DEF BarsApart
  <2>2. CASE s = r
    <3>1. r \in StreamBar
      BY <1>2, <1>3, <1>7 DEF Bucket, StreamBar
    <3> QED BY <3>1, <2>2, <1>4, <1>7, <1>9, <1>11
  <2>3. CASE s \in B
    BY <2>3, <1>1, <1>10 DEF BarsApart
  <2> QED BY <2>2, <2>3
<1>13. FrameOK(tr, vd, C, f)
  BY <1>1, <1>2, <1>4 DEF FrameOK
<1>14. BucketOK(tr, vd, C, f, b)
  <2>1. \A q \in C : Newest(q) <= Newest(b)
    BY <1>2, <1>4, <1>6
  <2>2. \A q \in C : Earlier(q, b) => q \in B
    BY <1>11
  <2> QED BY <2>1, <2>2, <1>1 DEF BucketOK
<1> QED BY <1>12, <1>13, <1>14 DEF VolumeOK, r

\* What FrameOK says of the types.
LEMMA FrameTyped ==
    ASSUME NEW tr \in Seq(Minutes), NEW vd, NEW B, NEW f, FrameOK(tr, vd, B, f), f # NoFrame
    PROVE  /\ f.trade \in DOMAIN tr /\ f.trade \in Nat /\ f.ts = tr[f.trade] /\ f.ts \in Minutes
           /\ f.ts \in Int /\ trading_date_of(f.ts) \in Int /\ f.cum_volume \in Nat
           /\ Count(tr, trading_date_of(f.ts), f.trade) \in Nat
           /\ f.cum_volume <= Count(tr, trading_date_of(f.ts), f.trade)
           /\ f.cum_volume # 0 \/ ~(trading_date_of(f.ts) < vd) =>
                f.cum_volume = Count(tr, trading_date_of(f.ts), f.trade)
<1>1. /\ f.trade \in DOMAIN tr /\ f.ts = tr[f.trade]
      /\ \/ f.cum_volume = Count(tr, trading_date_of(f.ts), f.trade)
         \/ f.cum_volume = 0 /\ trading_date_of(f.ts) < vd
  BY DEF FrameOK
<1>2. f.trade \in Nat /\ f.ts \in Minutes
  BY <1>1
<1>3. f.ts \in Int /\ trading_date_of(f.ts) \in Int
  BY <1>2, Days DEF Minutes
<1>4. f.trade \in Int
  BY <1>2
<1>5. Count(tr, trading_date_of(f.ts), f.trade) \in Nat
  BY <1>4, CountFacts
<1> QED BY <1>1, <1>2, <1>3, <1>5

\* A bucket that begins with the frame's trade, at the volume of the bucket
\* before it, which has been written, or at the frame's own if there is none.
LEMMA Started ==
    ASSUME NEW tr \in Seq(Minutes), NEW vd \in Int, TapeOK(tr, vd), NEW B, NEW f, NEW b,
           VolumeOK(tr, vd, B, f, b), f # NoFrame, b # NoBucket => b.minute < f.ts
    PROVE  VolumeOK(tr, vd, B, NoFrame, Start(f, IF b = NoBucket THEN f.cum_volume ELSE b.last_cum))
<1> DEFINE base == IF b = NoBucket THEN f.cum_volume ELSE b.last_cum
           n == Start(f, base)
           day == trading_date_of(f.ts)
<1>1. BarsApart(tr, B) /\ FrameOK(tr, vd, B, f) /\ BucketOK(tr, vd, B, f, b)
  BY DEF VolumeOK
<1>2. /\ f.trade \in DOMAIN tr /\ f.trade \in Nat /\ f.ts = tr[f.trade] /\ f.ts \in Minutes
      /\ f.ts \in Int /\ day \in Int /\ f.cum_volume \in Nat
      /\ Count(tr, day, f.trade) \in Nat /\ f.cum_volume <= Count(tr, day, f.trade)
      /\ f.cum_volume # 0 \/ ~(day < vd) => f.cum_volume = Count(tr, day, f.trade)
  BY <1>1, FrameTyped
<1>3. base \in Nat
  BY <1>1, <1>2 DEF BucketOK, Bucket
<1>4. n = [minute |-> f.ts, seen |-> {f.trade}, open_cum |-> base, last_cum |-> f.cum_volume]
  BY DEF Start
<1> HIDE DEF n
<1>5. Newest(n) = f.trade
  BY <1>2, <1>4, NewestAlone DEF Newest
<1>6. SeenOK(tr, n) /\ trading_date_of(n.minute) = day /\ Behind(tr, n) = Count(tr, day, f.trade)
  <2>1. n.minute = f.ts /\ n.seen = {f.trade}
    BY <1>4
  <2>2. \A j \in n.seen : j \in Nat /\ j <= f.trade
    BY <2>1, <1>2
  <2>3. f.trade \in n.seen
    BY <2>1
  <2> QED BY <2>1, <2>2, <2>3, <1>2, <1>5 DEF SeenOK, Behind
<1>7. \A q \in B : SeenOK(tr, q) /\ Newest(q) <= f.trade
  BY <1>1 DEF BarsApart, FrameOK
<1>8. ASSUME NEW q \in B, Earlier(q, n), f.cum_volume # 0 PROVE Behind(tr, q) <= base
  <2>1. q.minute < f.ts /\ trading_date_of(q.minute) = day
    BY <1>4, <1>8 DEF Earlier
  <2>2. CASE b = NoBucket
    <3>1. Behind(tr, q) <= Behind(tr, n)
      BY <1>5, <1>6, <1>7, <2>1, SeenOrder
    <3> QED BY <3>1, <2>2, <1>2, <1>6, <1>8
  <2>3. CASE b # NoBucket
    <3>1. SeenOK(tr, b) /\ Newest(q) <= Newest(b) /\ b.minute < f.ts
          /\ (Reported(vd, f, trading_date_of(b.minute)) => b.last_cum = Behind(tr, b))
      BY <2>3, <1>1 DEF BucketOK
    <3>2. trading_date_of(q.minute) <= trading_date_of(b.minute)
          /\ (trading_date_of(q.minute) = trading_date_of(b.minute) => Behind(tr, q) <= Behind(tr, b))
      BY <3>1, <1>7, SeenOrder
    <3>3. b.minute \in Int /\ trading_date_of(b.minute) \in Int
      BY <3>1, SeenTyped
    <3>4. trading_date_of(b.minute) <= day
      <4>1. b.minute <= f.ts
        BY <3>1, <3>3, <1>2
      <4> QED BY <4>1, <3>3, <1>2, Days
    <3>5. trading_date_of(b.minute) = day
      BY <3>2, <3>3, <3>4, <2>1, <1>2
    <3>6. b.last_cum = Behind(tr, b)
      BY <3>1, <3>5, <1>8 DEF Reported
    <3> QED BY <2>1, <2>3, <3>2, <3>5, <3>6
  <2> QED BY <2>2, <2>3
<1> HIDE DEF base
<1>9. BucketOK(tr, vd, B, NoFrame, n)
  <2>1. ~(day < vd) => n.last_cum = Behind(tr, n)
    BY <1>2, <1>4, <1>6
  <2>2. Reported(vd, NoFrame, day) => n.last_cum = Behind(tr, n)
    BY <2>1, <1>2 DEF Reported
  <2>3. n.last_cum = f.cum_volume /\ n.open_cum = base
    BY <1>4
  <2>4. n.last_cum # 0 => \A q \in B : Earlier(q, n) => Behind(tr, q) <= n.open_cum
    BY <2>3, <1>8
  <2>5. n \in Bucket /\ n.last_cum <= Behind(tr, n)
    BY <2>3, <1>2, <1>3, <1>4, <1>6 DEF Bucket
  <2>6. \A q \in B : Newest(q) <= Newest(n)
    BY <1>5, <1>7
  <2> QED BY <2>2, <2>3, <2>4, <2>5, <2>6, <1>6 DEF BucketOK
<1>10. FrameOK(tr, vd, B, NoFrame)
  BY DEF FrameOK
<1> QED BY <1>1, <1>9, <1>10 DEF VolumeOK, n, base

\* A bucket that takes in the frame's trade, of its own minute.
LEMMA Updated ==
    ASSUME NEW tr \in Seq(Minutes), NEW vd \in Int, TapeOK(tr, vd), NEW B, NEW f, NEW b,
           VolumeOK(tr, vd, B, f, b), f # NoFrame, b # NoBucket, b.minute = f.ts
    PROVE  VolumeOK(tr, vd, B, NoFrame, Update(b, f))
<1> DEFINE n == Update(b, f)
           day == trading_date_of(f.ts)
<1>1. BarsApart(tr, B) /\ FrameOK(tr, vd, B, f) /\ BucketOK(tr, vd, B, f, b)
  BY DEF VolumeOK
<1>2. /\ f.trade \in DOMAIN tr /\ f.trade \in Nat /\ f.ts = tr[f.trade] /\ f.ts \in Minutes
      /\ f.ts \in Int /\ day \in Int /\ f.cum_volume \in Nat
      /\ Count(tr, day, f.trade) \in Nat /\ f.cum_volume <= Count(tr, day, f.trade)
      /\ f.cum_volume # 0 \/ ~(day < vd) => f.cum_volume = Count(tr, day, f.trade)
  BY <1>1, FrameTyped
<1>3. /\ b \in Bucket /\ b.last_cum \in Nat /\ b.seen \in SUBSET Nat
      /\ SeenOK(tr, b) /\ b.last_cum <= Behind(tr, b)
      /\ Reported(vd, f, trading_date_of(b.minute)) => b.last_cum = Behind(tr, b)
      /\ b.last_cum # 0 => \A q \in B : Earlier(q, b) => Behind(tr, q) <= b.open_cum
      /\ b.last_cum = 0 => f.cum_volume = 0
      /\ \A q \in B : Newest(q) <= Newest(b)
      /\ Newest(b) <= f.trade
  BY <1>1 DEF BucketOK, Bucket
<1>4. /\ n.minute = b.minute /\ n.seen = b.seen \cup {f.trade} /\ n.open_cum = b.open_cum
      /\ n.last_cum = Max0(b.last_cum, f.cum_volume) /\ n \in Bucket
  <2>1. Max0(b.last_cum, f.cum_volume) \in Nat
    BY <1>2, <1>3 DEF Max0
  <2> QED BY <2>1, <1>2, <1>3 DEF Update, Bucket
<1> HIDE DEF n
<1>5. Newest(b) \in Nat /\ \A j \in b.seen : j \in Nat /\ j <= Newest(b)
  BY <1>3, SeenTyped DEF SeenOK
<1>6. Newest(n) = f.trade
  <2>1. Newest(b) \in Int
    BY <1>5
  <2>2. Max(b.seen \cup {f.trade}) = f.trade
    BY <2>1, <1>2, <1>3, <1>5, NewestAdded
  <2> QED BY <2>2, <1>4 DEF Newest
<1>7. SeenOK(tr, n) /\ trading_date_of(n.minute) = day /\ Behind(tr, n) = Count(tr, day, f.trade)
  <2>1. \A j \in n.seen : j \in Nat /\ j <= Newest(n)
    BY <1>2, <1>3, <1>4, <1>5, <1>6
  <2> QED BY <2>1, <1>2, <1>4, <1>6 DEF SeenOK, Behind
<1>8. Behind(tr, b) <= Behind(tr, n) /\ Behind(tr, b) \in Nat
  <2>1. n.minute = b.minute
    BY <1>4
  <2> QED BY <2>1, <1>3, <1>6, <1>7, SeenOrder, SeenTyped
<1>9. /\ n.last_cum <= Behind(tr, n)
      /\ f.cum_volume = Behind(tr, n) => n.last_cum = Behind(tr, n)
      /\ b.last_cum = 0 => n.last_cum = 0
  <2>1. n.last_cum = Max0(b.last_cum, f.cum_volume)
    BY <1>4
  <2> QED BY <2>1, <1>2, <1>3, <1>7, <1>8 DEF Max0
<1>10. BucketOK(tr, vd, B, NoFrame, n)
  <2>1. ~(day < vd) => n.last_cum = Behind(tr, n)
    BY <1>2, <1>7, <1>9
  <2>2. Reported(vd, NoFrame, day) => n.last_cum = Behind(tr, n)
    BY <2>1, <1>2 DEF Reported
  <2>3. n.open_cum = b.open_cum /\ n.minute = b.minute /\ n \in Bucket
    BY <1>4
  <2>4. n.last_cum # 0 => \A q \in B : Earlier(q, n) => Behind(tr, q) <= n.open_cum
    BY <2>3, <1>3, <1>9 DEF Earlier
  <2>5. \A q \in B : Newest(q) <= Newest(n)
    BY <1>1, <1>6 DEF FrameOK
  <2> QED BY <2>2, <2>3, <2>4, <2>5, <1>3, <1>7, <1>9 DEF BucketOK
<1>11. FrameOK(tr, vd, B, NoFrame)
  BY DEF FrameOK
<1> QED BY <1>1, <1>10, <1>11 DEF VolumeOK, n

\* The exchange has traded once more: what was counted is counted still.
LEMMA Appended ==
    ASSUME NEW tr \in Seq(Minutes), NEW vd \in Int, TapeOK(tr, vd), NEW B, NEW f, NEW b,
           VolumeOK(tr, vd, B, f, b),
           NEW t \in Minutes, \A i \in DOMAIN tr : tr[i] <= t, vd <= trading_date_of(t)
    PROVE  TapeOK(Append(tr, t), trading_date_of(t)) /\ VolumeOK(Append(tr, t), trading_date_of(t), B, f, b)
<1> DEFINE u == Append(tr, t)
<1>1. DOMAIN tr = 1..Len(tr) /\ Len(tr) \in Nat /\ u \in Seq(Minutes)
  OBVIOUS
<1>2. DOMAIN u = 1..(Len(tr) + 1) /\ u[Len(tr) + 1] = t /\ \A i \in DOMAIN tr : i \in DOMAIN u /\ u[i] = tr[i]
  BY <1>1
<1>3. \A d : \A i \in DOMAIN tr : Count(u, d, i) = Count(tr, d, i)
  BY CountAppend
<1> HIDE DEF u
<1>4. t \in Int /\ trading_date_of(t) \in Int
  BY Days DEF Minutes
<1>5. \A i \in DOMAIN tr : tr[i] \in Int /\ trading_date_of(tr[i]) \in Int
                          /\ trading_date_of(tr[i]) <= trading_date_of(t)
  <2>1. \A i \in DOMAIN tr : tr[i] \in Minutes
    OBVIOUS
  <2> QED BY <2>1, <1>4, Days DEF Minutes
<1>6. TapeOK(u, trading_date_of(t))
  <2>1. \A i \in DOMAIN u : i \in DOMAIN tr \/ i = Len(tr) + 1
    BY <1>1, <1>2
  <2>2. \A i, j \in DOMAIN u : i < j => u[i] <= u[j]
    <3>1. SUFFICES ASSUME NEW i \in DOMAIN u, NEW j \in DOMAIN u, i < j PROVE u[i] <= u[j]
      OBVIOUS
    <3>2. i \in DOMAIN tr
      BY <3>1, <1>1, <1>2
    <3>3. CASE j \in DOMAIN tr
      BY <3>1, <3>2, <3>3, <1>2 DEF TapeOK
    <3>4. CASE j = Len(tr) + 1
      BY <3>2, <3>4, <1>2
    <3> QED BY <2>1, <3>3, <3>4
  <2>3. \A i \in DOMAIN u : trading_date_of(u[i]) <= trading_date_of(t)
    BY <2>1, <1>2, <1>4, <1>5
  <2> QED BY <2>2, <2>3, <1>4 DEF TapeOK
<1>7. BarsApart(tr, B) /\ FrameOK(tr, vd, B, f) /\ BucketOK(tr, vd, B, f, b)
  BY DEF VolumeOK
<1>8. \A r : SeenOK(tr, r) => SeenOK(u, r) /\ Behind(u, r) = Behind(tr, r)
  BY <1>2, <1>3 DEF SeenOK, Behind
<1>9. BarsApart(u, B)
  BY <1>7, <1>8 DEF BarsApart
<1>10. FrameOK(u, vd, B, f)
  BY <1>2, <1>3, <1>7 DEF FrameOK
<1>11. BucketOK(u, vd, B, f, b)
  <2>1. \A q \in B : SeenOK(tr, q)
    BY <1>7 DEF BarsApart
  <2> QED BY <2>1, <1>7, <1>8 DEF BucketOK
<1>12. VolumeOK(u, trading_date_of(t), B, f, b)
  <2>1. VolumeOK(u, vd, B, f, b)
    BY <1>9, <1>10, <1>11 DEF VolumeOK
  <2> QED BY <2>1, <1>1, <1>4, Lessened
<1> QED BY <1>6, <1>12 DEF u

\* The feed sends the last trade with the volume of the day it reports.
LEMMA Sent ==
    ASSUME NEW tr \in Seq(Minutes), tr # <<>>, NEW w \in Int, TapeOK(tr, w), NEW B, NEW b,
           VolumeOK(tr, w, B, NoFrame, b),
           NEW f, f # NoFrame, f.ts = tr[Len(tr)], f.trade = Len(tr),
           f.cum_volume = Cardinality(In(tr, DayMinutes(w)))
    PROVE  VolumeOK(tr, w, B, f, b)
<1> DEFINE n == Len(tr)
           day == trading_date_of(f.ts)
<1>1. n \in DOMAIN tr /\ n \in Nat /\ tr[n] \in Minutes /\ DOMAIN tr = 1..n
  OBVIOUS
<1>2. BarsApart(tr, B) /\ BucketOK(tr, w, B, NoFrame, b)
  BY DEF VolumeOK
<1>3. \A r : SeenOK(tr, r) => Newest(r) <= n
  BY <1>1 DEF SeenOK
<1>4. \A i \in DOMAIN tr : tr[i] <= tr[n] /\ trading_date_of(tr[i]) <= day
  <2>1. \A i \in DOMAIN tr : tr[i] \in Minutes /\ i \in 1..n
    OBVIOUS
  <2>2. \A i \in DOMAIN tr : tr[i] <= tr[n]
    BY <2>1, <1>1, InOrder
  <2> QED BY <2>1, <2>2, <1>1, Days DEF Minutes
<1>5. day \in Int /\ day <= w
  <2>1. trading_date_of(tr[n]) <= w
    BY <1>1 DEF TapeOK
  <2>2. trading_date_of(tr[n]) \in Int
    BY <1>1, Days DEF Minutes
  <2> QED BY <2>1, <2>2
<1>6. \A i \in DOMAIN tr : trading_date_of(tr[i]) \in Int
  <2>1. \A i \in DOMAIN tr : tr[i] \in Minutes
    OBVIOUS
  <2> QED BY <2>1, Days DEF Minutes
<1>7. f.cum_volume = Count(tr, w, n)
  BY CountEnd
<1>8. (f.cum_volume = Count(tr, day, n) /\ day = w) \/ (f.cum_volume = 0 /\ day < w)
  <2>1. CASE day = w
    BY <2>1, <1>7
  <2>2. CASE day < w
    <3>1. \A i \in DOMAIN tr : trading_date_of(tr[i]) # w
      BY <2>2, <1>4, <1>5, <1>6
    <3> QED BY <2>2, <3>1, <1>7, CountEnd
  <2> QED BY <2>1, <2>2, <1>5
<1> HIDE DEF n
<1>9. FrameOK(tr, w, B, f)
  <2>1. \A q \in B : Newest(q) <= f.trade
    BY <1>2, <1>3 DEF BarsApart, n
  <2> QED BY <2>1, <1>1, <1>8 DEF FrameOK, n
<1>10. BucketOK(tr, w, B, f, b)
  <2>1. SUFFICES ASSUME b # NoBucket PROVE BucketOK(tr, w, B, f, b)
    BY DEF BucketOK
  <2>2. /\ b \in Bucket /\ SeenOK(tr, b) /\ b.last_cum <= Behind(tr, b)
        /\ Reported(w, NoFrame, trading_date_of(b.minute)) => b.last_cum = Behind(tr, b)
        /\ b.last_cum # 0 => \A q \in B : Earlier(q, b) => Behind(tr, q) <= b.open_cum
        /\ \A q \in B : Newest(q) <= Newest(b)
    BY <2>1, <1>2 DEF BucketOK
  <2>3. trading_date_of(b.minute) \in Int /\ Behind(tr, b) >= 1 /\ Behind(tr, b) \in Nat
    BY <2>2, SeenTyped
  <2>4. Newest(b) <= f.trade
    BY <2>2, <1>3 DEF n
  <2>5. f.cum_volume # 0 => day = w
    BY <1>8, <1>5
  <2>6. Reported(w, f, trading_date_of(b.minute)) => Reported(w, NoFrame, trading_date_of(b.minute))
    BY <2>3, <2>5 DEF Reported
  <2>7. b.last_cum = 0 /\ f.ts = b.minute => f.cum_volume = 0
    <3>1. SUFFICES ASSUME b.last_cum = 0, f.ts = b.minute, f.cum_volume # 0 PROVE FALSE
      OBVIOUS
    <3>2. trading_date_of(b.minute) >= w
      BY <3>1, <2>3, <2>5, <1>5
    <3>3. b.last_cum = Behind(tr, b)
      BY <3>2, <2>2 DEF Reported
    <3> QED BY <3>1, <3>3, <2>3
  <2> QED BY <2>2, <2>4, <2>6, <2>7 DEF BucketOK
<1> QED BY <1>2, <1>9, <1>10 DEF VolumeOK

\* M1Accumulator.on_tick and flush, and what they write.
LEMMA Ticked ==
    ASSUME NEW tr \in Seq(Minutes), NEW vd \in Int, TapeOK(tr, vd), NEW B, NEW f, NEW b,
           VolumeOK(tr, vd, B, f, b), f # NoFrame, NEW t, t = OnTick(b, f)
    PROVE  VolumeOK(tr, vd, B \cup t.bars, NoFrame, t.bucket) /\ OneEach(t.bars)
<1>1. BucketOK(tr, vd, B, f, b) /\ FrameOK(tr, vd, B, f)
  BY DEF VolumeOK
<1>2. f.ts \in Int
  BY <1>1, FrameTyped
<1>3. b # NoBucket => b.minute \in Int
  BY <1>1, SeenTyped DEF BucketOK
<1>4. OneEach({}) /\ \A x : OneEach({x})
  BY DEF OneEach
<1>5. CASE b = NoBucket
  <2>1. t.bucket = Start(f, f.cum_volume) /\ t.bars = {}
    BY <1>5 DEF OnTick
  <2>2. VolumeOK(tr, vd, B, NoFrame, Start(f, f.cum_volume))
    BY <1>5, Started
  <2> QED BY <2>1, <2>2, <1>4
<1>6. CASE b # NoBucket /\ f.ts < b.minute
  <2>1. t.bucket = b /\ t.bars = {}
    BY <1>6 DEF OnTick
  <2>2. VolumeOK(tr, vd, B, NoFrame, b)
    BY Lessened
  <2> QED BY <2>1, <2>2, <1>4
<1>7. CASE b # NoBucket /\ f.ts = b.minute
  <2>1. t.bucket = Update(b, f) /\ t.bars = {}
    BY <1>2, <1>7 DEF OnTick
  <2>2. VolumeOK(tr, vd, B, NoFrame, Update(b, f))
    BY <1>7, Updated
  <2> QED BY <2>1, <2>2, <1>4
<1>8. CASE b # NoBucket /\ b.minute < f.ts
  <2> DEFINE r == ToBar(b, IsFinal(b.minute, f.ts))
  <2>1. t.bucket = Start(f, b.last_cum) /\ t.bars = {r}
    BY <1>2, <1>3, <1>8 DEF OnTick
  <2>2. IsFinal(b.minute, f.ts) \in BOOLEAN
    BY DEF IsFinal
  <2>3. VolumeOK(tr, vd, B \cup {r}, f, b)
    BY <2>2, <1>8, Written
  <2> HIDE DEF r
  <2>4. VolumeOK(tr, vd, B \cup {r}, NoFrame, Start(f, b.last_cum))
    BY <2>3, <1>8, Started
  <2> QED BY <2>1, <2>4, <1>4
<1> QED BY <1>2, <1>3, <1>5, <1>6, <1>7, <1>8

LEMMA Flushed ==
    ASSUME NEW tr \in Seq(Minutes), NEW vd \in Int, TapeOK(tr, vd), NEW B, NEW f, NEW b,
           VolumeOK(tr, vd, B, f, b), NEW at, NEW u, u = Flush(b, at)
    PROVE  VolumeOK(tr, vd, B \cup u.bars, f, u.bucket) /\ OneEach(u.bars)
<1>1. OneEach({}) /\ \A x : OneEach({x})
  BY DEF OneEach
<1>2. CASE b = NoBucket
  <2>1. u.bucket = b /\ u.bars = {}
    BY <1>2 DEF Flush
  <2> QED BY <2>1, <1>1
<1>3. CASE b # NoBucket /\ IsFinal(b.minute, at)
  <2>1. u.bucket = NoBucket /\ u.bars = {ToBar(b, TRUE)}
    BY <1>3 DEF Flush
  <2>2. VolumeOK(tr, vd, B \cup {ToBar(b, TRUE)}, f, b)
    BY <1>3, Written
  <2>3. VolumeOK(tr, vd, B \cup {ToBar(b, TRUE)}, f, NoBucket)
    BY <2>2, Lessened
  <2> QED BY <2>1, <2>3, <1>1
<1>4. CASE b # NoBucket /\ ~IsFinal(b.minute, at)
  <2>1. u.bucket = b /\ u.bars = {ToBar(b, FALSE)}
    BY <1>4 DEF Flush
  <2>2. VolumeOK(tr, vd, B \cup {ToBar(b, FALSE)}, f, b)
    BY <1>4, Written
  <2> QED BY <2>1, <2>2, <1>1
<1> QED BY <1>2, <1>3, <1>4

-----------------------------------------------------------------------------
\* Writing bars keeps one to a minute, of the rows of the stream too.
LEMMA OneUpserted ==
    ASSUME NEW S, NEW W, OneEach(S), OneEach(W)
    PROVE  OneEach(Upsert(S, W))
<1>1. \A r \in Upsert(S, W) : r \in W \/ (r \in S /\ \A w \in W : w.minute # r.minute)
  BY DEF Upsert
<1>2. SUFFICES ASSUME NEW q \in Upsert(S, W), NEW r \in Upsert(S, W), q.minute = r.minute PROVE q = r
  BY DEF OneEach
<1>3. (q \in W /\ r \in W) \/ (q \in S /\ r \in S)
  BY <1>1, <1>2
<1> QED BY <1>2, <1>3 DEF OneEach

LEMMA RowsUpserted ==
    ASSUME NEW R, NEW W, OneEach({r \in R : r.by = "stream"}), OneEach(W), \A r \in W : r.by = "stream"
    PROVE  OneEach({r \in Upsert(R, W) : r.by = "stream"})
<1> DEFINE S == {r \in R : r.by = "stream"}
<1>1. {r \in Upsert(R, W) : r.by = "stream"} = Upsert(S, W)
  BY DEF Upsert
<1> HIDE DEF S
<1> QED BY <1>1, OneUpserted DEF S

\* A turn of the loop writes what the tick closes and the flush.
LEMMA Turned ==
    ASSUME Inv, VolumeInv, NEW ticked, NEW flush \in BOOLEAN, Turn(ticked, flush),
           UNCHANGED <<now, trades, volumeDay>>,
           VolumeOK(trades, volumeDay, StreamBars \cup ticked.bars, pipe', ticked.bucket),
           OneEach(ticked.bars)
    PROVE  VolumeInv'
<1> DEFINE u == Flush(ticked.bucket, now)
           more == IF flush THEN u.bars ELSE {}
           dirty == Upsert(stream.dirty, ticked.bars)
           written == Upsert(dirty, more)
           B == (StreamBars \cup ticked.bars) \cup u.bars
<1>1. /\ TapeOK(trades, volumeDay) /\ volumeDay <= trading_date_of(now) /\ volumeDay \in Int
      /\ stream \in [up : BOOLEAN, bucket : {NoBucket} \cup Bucket, dirty : SUBSET StreamBar,
                     due : BOOLEAN]
      /\ OneEach({r \in rows : r.by = "stream"}) /\ OneEach(stream.dirty)
  BY DEF VolumeInv, TapeOK
<1>2. trades \in Seq(Minutes)
  BY DEF Inv, TypeOK
<1>3. VolumeOK(trades, volumeDay, B, pipe', u.bucket) /\ OneEach(u.bars)
  BY <1>1, <1>2, Flushed
<1>4. VolumeOK(trades, volumeDay, StreamBars \cup ticked.bars, pipe', ticked.bucket)
  OBVIOUS
<1>5. /\ stream' = IF flush THEN [up |-> TRUE, bucket |-> u.bucket, dirty |-> {}, due |-> FALSE]
                   ELSE [stream EXCEPT !.bucket = ticked.bucket, !.dirty = written]
      /\ rows' = IF flush THEN Upsert(rows, written) ELSE rows
  BY DEF Turn
<1> HIDE DEF u
<1>6. ticked.bars \in SUBSET StreamBar /\ u.bars \in SUBSET StreamBar
      /\ ticked.bucket \in {NoBucket} \cup Bucket /\ u.bucket \in {NoBucket} \cup Bucket
  BY <1>3, <1>4 DEF VolumeOK, BarsApart, BucketOK
<1>7. OneEach(dirty) /\ OneEach(more) /\ OneEach(written)
  <2>1. OneEach({})
    BY DEF OneEach
  <2>2. OneEach(more)
    BY <2>1, <1>3
  <2>3. OneEach(dirty)
    BY <1>1, OneUpserted
  <2> HIDE DEF dirty, more
  <2> QED BY <2>2, <2>3, OneUpserted
<1>8. written \in SUBSET StreamBar /\ written \subseteq (stream.dirty \cup ticked.bars) \cup more
      /\ \A r \in written : r.by = "stream"
  <2>1. written \subseteq (stream.dirty \cup ticked.bars) \cup more
    BY DEF Upsert
  <2>2. more \in SUBSET StreamBar
    BY <1>6
  <2>3. stream.dirty \in SUBSET StreamBar
    BY <1>1
  <2> HIDE DEF written, more
  <2>4. written \in SUBSET StreamBar
    BY <2>1, <2>2, <2>3, <1>6
  <2> QED BY <2>1, <2>4 DEF StreamBar
<1> HIDE DEF written
<1>9. CASE flush
  <2>1. stream' = [up |-> TRUE, bucket |-> u.bucket, dirty |-> {}, due |-> FALSE] /\ rows' = Upsert(rows, written)
    BY <1>5, <1>9
  <2>2. StreamBars' \subseteq B
    BY <2>1, <1>8, <1>9 DEF StreamBars, Upsert
  <2>3. VolumeOK(trades, volumeDay, StreamBars', pipe', u.bucket)
    <3> HIDE DEF B
    <3> QED BY <2>2, <1>1, <1>2, <1>3, Lessened
  <2>4. OneEach({r \in rows' : r.by = "stream"})
    BY <2>1, <1>1, <1>7, <1>8, RowsUpserted
  <2>5. OneEach({})
    BY DEF OneEach
  <2> QED BY <2>1, <2>3, <2>4, <2>5, <1>1, <1>6 DEF VolumeInv
<1>10. CASE ~flush
  <2>1. stream' = [stream EXCEPT !.bucket = ticked.bucket, !.dirty = written] /\ rows' = rows
    BY <1>5, <1>10
  <2>2. stream'.bucket = ticked.bucket /\ stream'.dirty = written
        /\ stream' \in [up : BOOLEAN, bucket : {NoBucket} \cup Bucket, dirty : SUBSET StreamBar,
                        due : BOOLEAN]
    BY <2>1, <1>1, <1>6, <1>8
  <2>3. StreamBars' \in SUBSET (StreamBars \cup ticked.bars)
    BY <2>1, <2>2, <1>8, <1>10 DEF StreamBars
  <2>4. VolumeOK(trades, volumeDay, StreamBars', pipe', ticked.bucket)
    BY <2>3, <1>1, <1>2, <1>4, Lessened
  <2> QED BY <2>1, <2>2, <2>4, <1>1, <1>7 DEF VolumeInv
<1> QED BY <1>9, <1>10

\* The steps of the invariant: the exchange ...
LEMMA TradeVolume == ASSUME Inv, VolumeInv, Trade PROVE VolumeInv'
<1>1. /\ TapeOK(trades, volumeDay) /\ volumeDay <= trading_date_of(now) /\ volumeDay \in Int
      /\ VolumeOK(trades, volumeDay, StreamBars, pipe, stream.bucket)
  BY DEF VolumeInv, TapeOK
<1>2. trades \in Seq(Minutes) /\ now \in Minutes /\ \A i \in DOMAIN trades : trades[i] <= now
  BY DEF Inv, TypeOK
<1>3. /\ trades' = Append(trades, now) /\ volumeDay' = trading_date_of(now)
      /\ UNCHANGED <<now, pipe, stream, rows>>
  BY DEF Trade
<1>4. TapeOK(trades', volumeDay') /\ VolumeOK(trades', volumeDay', StreamBars, pipe, stream.bucket)
  BY <1>1, <1>2, <1>3, Appended
<1>5. StreamBars' = StreamBars
  BY <1>3 DEF StreamBars
<1>6. volumeDay' <= trading_date_of(now)
  BY <1>2, <1>3, Days DEF Minutes
<1> QED BY <1>3, <1>4, <1>5, <1>6 DEF VolumeInv

LEMMA AdvanceVolume == ASSUME Inv, VolumeInv, Advance PROVE VolumeInv'
<1>1. /\ TapeOK(trades, volumeDay) /\ volumeDay <= trading_date_of(now) /\ volumeDay \in Int
      /\ stream \in [up : BOOLEAN, bucket : {NoBucket} \cup Bucket, dirty : SUBSET StreamBar,
                     due : BOOLEAN]
      /\ OneEach({r \in rows : r.by = "stream"}) /\ OneEach(stream.dirty)
      /\ VolumeOK(trades, volumeDay, StreamBars, pipe, stream.bucket)
  BY DEF VolumeInv, TapeOK
<1>2. /\ now' = now + 1 /\ stream' = [stream EXCEPT !.due = stream.up]
      /\ UNCHANGED <<trades, pipe, volumeDay, rows>>
  BY DEF Advance
<1>3. stream'.bucket = stream.bucket /\ stream'.dirty = stream.dirty
      /\ stream' \in [up : BOOLEAN, bucket : {NoBucket} \cup Bucket, dirty : SUBSET StreamBar,
                      due : BOOLEAN]
  BY <1>1, <1>2
<1>4. volumeDay <= trading_date_of(now')
  <2>1. now \in Int /\ now' \in Int /\ now <= now'
    BY <1>2 DEF Inv, TypeOK, Minutes
  <2>2. /\ trading_date_of(now) \in Int /\ trading_date_of(now') \in Int
        /\ trading_date_of(now) <= trading_date_of(now')
    BY <2>1, Days
  <2> QED BY <2>2, <1>1
<1>5. StreamBars' = StreamBars
  BY <1>2, <1>3 DEF StreamBars
<1> QED BY <1>1, <1>2, <1>3, <1>4, <1>5 DEF VolumeInv

\* ... the feed ...
LEMMA SendVolume == ASSUME Inv, VolumeInv, SendFrame PROVE VolumeInv'
<1>1. /\ TapeOK(trades, volumeDay) /\ volumeDay <= trading_date_of(now) /\ volumeDay \in Int
      /\ VolumeOK(trades, volumeDay, StreamBars, pipe, stream.bucket)
  BY DEF VolumeInv, TapeOK
<1>2. trades \in Seq(Minutes) /\ now \in Minutes
  BY DEF Inv, TypeOK
<1> DEFINE cum == Cardinality(In(trades, DayMinutes(volumeDay')))
<1>3. /\ pipe = NoFrame /\ trades # <<>> /\ volumeDay' \in {volumeDay, trading_date_of(now)}
      /\ pipe' = [ts |-> trades[Len(trades)], trade |-> Len(trades), sent |-> now, cum_volume |-> cum]
      /\ UNCHANGED <<now, trades, stream, rows>>
  BY DEF SendFrame, TradesOf, In
<1>4. volumeDay' \in Int /\ volumeDay <= volumeDay' /\ volumeDay' <= trading_date_of(now)
  <2>1. trading_date_of(now) \in Int
    BY <1>2, Days DEF Minutes
  <2> QED BY <2>1, <1>1, <1>3
<1>5. TapeOK(trades, volumeDay')
  <2>1. \A i \in DOMAIN trades : trading_date_of(trades[i]) \in Int
    <3>1. \A i \in DOMAIN trades : trades[i] \in Minutes
      BY <1>2
    <3> QED BY <3>1, Days DEF Minutes
  <2> QED BY <2>1, <1>1, <1>4 DEF TapeOK
<1>6. VolumeOK(trades, volumeDay', StreamBars, NoFrame, stream.bucket)
  BY <1>1, <1>2, <1>4, Lessened
<1>7. /\ pipe'.ts = trades[Len(trades)] /\ pipe'.trade = Len(trades) /\ pipe'.cum_volume = cum
      /\ pipe' # NoFrame
  <2>1. trades[Len(trades)] \in Minutes
    BY <1>2, <1>3
  <2>2. pipe'.ts # -1
    BY <2>1, <1>3 DEF Minutes
  <2> HIDE DEF cum
  <2> QED BY <2>2, <1>3 DEF NoFrame
<1> HIDE DEF cum
<1>8. VolumeOK(trades, volumeDay', StreamBars, pipe', stream.bucket)
  BY <1>2, <1>3, <1>4, <1>5, <1>6, <1>7, Sent DEF cum
<1>9. StreamBars' = StreamBars
  BY <1>3 DEF StreamBars
<1> QED BY <1>3, <1>4, <1>5, <1>8, <1>9 DEF VolumeInv

\* ... the stream ...
LEMMA ReceiveVolume == ASSUME Inv, VolumeInv, ReceiveTick PROVE VolumeInv'
<1>1. /\ TapeOK(trades, volumeDay) /\ volumeDay \in Int
      /\ VolumeOK(trades, volumeDay, StreamBars, pipe, stream.bucket)
  BY DEF VolumeInv, TapeOK
<1>2. trades \in Seq(Minutes)
  BY DEF Inv, TypeOK
<1> DEFINE t == OnTick(stream.bucket, pipe)
<1>3. PICK flush \in BOOLEAN : Turn(t, flush)
  BY DEF ReceiveTick
<1>4. pipe # NoFrame /\ pipe' = NoFrame /\ UNCHANGED <<now, trades, volumeDay>>
  BY DEF ReceiveTick
<1> HIDE DEF t
<1>5. VolumeOK(trades, volumeDay, StreamBars \cup t.bars, NoFrame, t.bucket) /\ OneEach(t.bars)
  BY <1>1, <1>2, <1>4, Ticked DEF t
<1> QED BY <1>3, <1>4, <1>5, Turned

LEMMA OtherVolume == ASSUME Inv, VolumeInv, OtherTick PROVE VolumeInv'
<1> DEFINE t == [bucket |-> stream.bucket, bars |-> {}]
<1>1. Turn(t, TRUE) /\ UNCHANGED <<now, trades, pipe, volumeDay>>
  BY DEF OtherTick
<1>2. t.bucket = stream.bucket /\ t.bars = {} /\ OneEach(t.bars)
  BY DEF OneEach
<1> HIDE DEF t
<1>3. VolumeOK(trades, volumeDay, StreamBars \cup t.bars, pipe', t.bucket)
  BY <1>1, <1>2 DEF VolumeInv
<1> QED BY <1>1, <1>2, <1>3, Turned

LEMMA EndVolume == ASSUME Inv, VolumeInv, FeedEnds PROVE VolumeInv'
<1> DEFINE u == Flush(stream.bucket, now + DayLen + Grace + 1)
           written == Upsert(stream.dirty, u.bars)
<1>1. /\ TapeOK(trades, volumeDay) /\ volumeDay <= trading_date_of(now) /\ volumeDay \in Int
      /\ stream \in [up : BOOLEAN, bucket : {NoBucket} \cup Bucket, dirty : SUBSET StreamBar,
                     due : BOOLEAN]
      /\ OneEach({r \in rows : r.by = "stream"}) /\ OneEach(stream.dirty)
      /\ VolumeOK(trades, volumeDay, StreamBars, pipe, stream.bucket)
  BY DEF VolumeInv, TapeOK
<1>2. trades \in Seq(Minutes)
  BY DEF Inv, TypeOK
<1>3. /\ rows' = Upsert(rows, written) /\ pipe' = NoFrame
      /\ stream' = [up |-> FALSE, bucket |-> NoBucket, dirty |-> {}, due |-> FALSE]
      /\ UNCHANGED <<now, trades, volumeDay>>
  BY DEF FeedEnds
<1>4. VolumeOK(trades, volumeDay, StreamBars \cup u.bars, pipe, u.bucket) /\ OneEach(u.bars)
  BY <1>1, <1>2, Flushed
<1> HIDE DEF u
<1>5. u.bars \in SUBSET StreamBar
  BY <1>4 DEF VolumeOK, BarsApart
<1>6. OneEach(written) /\ written \subseteq stream.dirty \cup u.bars
  <2>1. OneEach(written)
    BY <1>1, <1>4, OneUpserted
  <2> QED BY <2>1 DEF Upsert
<1> HIDE DEF written
<1>7. \A r \in written : r.by = "stream"
  BY <1>1, <1>5, <1>6 DEF StreamBar
<1>8. StreamBars' \in SUBSET (StreamBars \cup u.bars)
  BY <1>3, <1>6 DEF StreamBars, Upsert
<1>9. VolumeOK(trades, volumeDay, StreamBars', NoFrame, NoBucket)
  BY <1>1, <1>2, <1>4, <1>8, Lessened
<1>10. OneEach({r \in rows' : r.by = "stream"})
  BY <1>1, <1>3, <1>6, <1>7, RowsUpserted
<1>11. OneEach({})
  BY DEF OneEach
<1> QED BY <1>1, <1>3, <1>9, <1>10, <1>11 DEF VolumeInv

\* ... which may begin anew, losing what it has not committed.
LEMMA EmptyStream ==
    ASSUME Inv, VolumeInv, pipe' \in {pipe, NoFrame}, UNCHANGED <<now, trades, volumeDay, rows>>,
           NEW up \in BOOLEAN,
           stream' = [up |-> up, bucket |-> NoBucket, dirty |-> {}, due |-> FALSE]
    PROVE  VolumeInv'
<1>1. /\ TapeOK(trades, volumeDay) /\ volumeDay <= trading_date_of(now) /\ volumeDay \in Int
      /\ OneEach({r \in rows : r.by = "stream"})
      /\ VolumeOK(trades, volumeDay, StreamBars, pipe, stream.bucket)
  BY DEF VolumeInv, TapeOK
<1>2. trades \in Seq(Minutes)
  BY DEF Inv, TypeOK
<1>3. StreamBars' \in SUBSET StreamBars
  BY DEF StreamBars
<1>4. VolumeOK(trades, volumeDay, StreamBars', pipe', NoBucket)
  BY <1>1, <1>2, <1>3, Lessened
<1>5. OneEach({})
  BY DEF OneEach
<1> QED BY <1>1, <1>4, <1>5 DEF VolumeInv

\* The backfill replaces bars of the stream and writes none.
LEMMA CommitVolume == ASSUME Inv, VolumeInv, NEW j \in Jobs, CommitBars(j) PROVE VolumeInv'
<1>1. /\ TapeOK(trades, volumeDay) /\ volumeDay <= trading_date_of(now) /\ volumeDay \in Int
      /\ OneEach({r \in rows : r.by = "stream"})
      /\ VolumeOK(trades, volumeDay, StreamBars, pipe, stream.bucket)
  BY DEF VolumeInv, TapeOK
<1>2. trades \in Seq(Minutes) /\ TypeOK
  BY DEF Inv, TypeOK
<1>3. rows' = Upsert(rows, job[j].bars) /\ UNCHANGED <<now, trades, pipe, volumeDay, stream>>
  BY DEF CommitBars
<1>4. job[j] # Idle
  BY DEF CommitBars, Idle
<1>5. \A b \in job[j].bars : b.by = "rest"
  <2>1. job[j].bars \in SUBSET Bar
    BY <1>2, <1>4, JobTyped
  <2> QED BY <2>1 DEF Bar
<1>6. {r \in rows' : r.by = "stream"} \in SUBSET {r \in rows : r.by = "stream"}
  BY <1>3, <1>5 DEF Upsert
<1>7. StreamBars' \in SUBSET StreamBars
  BY <1>3, <1>6 DEF StreamBars
<1>8. VolumeOK(trades, volumeDay, StreamBars', pipe, stream.bucket)
  BY <1>1, <1>2, <1>7, Lessened
<1>9. OneEach({r \in rows' : r.by = "stream"})
  BY <1>1, <1>6 DEF OneEach
<1> QED BY <1>1, <1>3, <1>8, <1>9 DEF VolumeInv

\* The other steps are of no volume.
LEMMA QuietVolume ==
    ASSUME VolumeInv, UNCHANGED <<now, trades, pipe, volumeDay, stream, rows>>
    PROVE  VolumeInv'
<1>1. StreamBars' = StreamBars
  BY DEF StreamBars
<1> QED BY <1>1 DEF VolumeInv

LEMMA InitVolume == ASSUME Init PROVE VolumeInv
<1>1. /\ now = 0 /\ trades = <<>> /\ pipe = NoFrame /\ volumeDay = 0 /\ rows = {}
      /\ stream = [up |-> FALSE, bucket |-> NoBucket, dirty |-> {}, due |-> FALSE]
  BY DEF Init
<1>2. trading_date_of(0) = 0
  <2>1. 0 * DayLen + 0 = 0 /\ 0 < DayLen /\ 0 \in Int
    BY DayAssumption
  <2> QED BY <2>1, Days
<1>3. TapeOK(trades, volumeDay) /\ volumeDay <= trading_date_of(now)
  BY <1>1, <1>2 DEF TapeOK
<1>4. OneEach({r \in rows : r.by = "stream"}) /\ OneEach(stream.dirty)
  BY <1>1 DEF OneEach
<1>5. StreamBars = {}
  BY <1>1 DEF StreamBars
<1>6. VolumeOK(trades, volumeDay, {}, NoFrame, NoBucket)
  BY DEF VolumeOK, BarsApart, FrameOK, BucketOK
<1> QED BY <1>1, <1>3, <1>4, <1>5, <1>6 DEF VolumeInv

LEMMA NextVolume == ASSUME Inv, VolumeInv, [Next]_vars PROVE VolumeInv'
<1>1. CASE Trade
  BY <1>1, TradeVolume
<1>2. CASE Advance
  BY <1>2, AdvanceVolume
<1>3. CASE SendFrame
  BY <1>3, SendVolume
<1>4. CASE Connect
  BY <1>4, EmptyStream DEF Connect
<1>5. CASE ReceiveTick
  BY <1>5, ReceiveVolume
<1>6. CASE OtherTick
  BY <1>6, OtherVolume
<1>7. CASE FeedEnds
  BY <1>7, EndVolume
<1>8. CASE FeedFails
  BY <1>8, EmptyStream DEF FeedFails
<1>9. CASE \E j \in Jobs : CommitBars(j)
  BY <1>9, CommitVolume
<1>10. CASE \E j \in Jobs : Fetch(j) \/ ReadDaily(j) \/ StoreBars(j) \/ AbortJob(j)
  BY <1>10, QuietVolume DEF Fetch, ReadDaily, StoreBars, AbortJob
<1>11. CASE UNCHANGED vars
  BY <1>11, QuietVolume DEF vars
<1> QED BY <1>1, <1>2, <1>3, <1>4, <1>5, <1>6, <1>7, <1>8, <1>9, <1>10, <1>11 DEF Next

LEMMA VolumeInvHolds == Spec => []VolumeInv
  BY InitVolume, NextVolume, InvHolds, PTL DEF Spec

-----------------------------------------------------------------------------
\* The volumes of finitely many bars are at most what is counted by sets of
\* their own, of which no two have a member in common.
LEMMA SumBound ==
    ASSUME NEW S, IsFiniteSet(S), NEW X, IsFiniteSet(X), NEW own,
           \A r \in S : /\ r.volume \in Nat /\ own[r] \subseteq X
                        /\ r.volume <= Cardinality(own[r]),
           \A q, r \in S : q # r => own[q] \cap own[r] = {}
    PROVE  MapThenSumSet(LAMBDA r : r.volume, S) <= Cardinality(X)
<1> DEFINE pick(s) == CHOOSE x \in s : TRUE
           upTo(m) == {s \in SUBSET S : Cardinality(s) <= m}
           IsSum(f, D) == f = [s \in D |-> IF s = {} THEN 0 ELSE pick(s).volume + f[s \ {pick(s)}]]
           sum == CHOOSE f : IsSum(f, SUBSET S)
           n == Cardinality(S)
<1>1. MapThenSumSet(LAMBDA r : r.volume, S) = sum[S]
  BY DEF MapThenSumSet, MapThenFoldSet
<1>2. n \in Nat /\ \A s \in SUBSET S : IsFiniteSet(s) /\ Cardinality(s) \in Nat /\ Cardinality(s) <= n
  BY FS_CardinalityType, FS_Subset
<1>3. \A s \in SUBSET S : s # {} =>
        /\ pick(s) \in s /\ s \ {pick(s)} \in SUBSET S
        /\ Cardinality(s \ {pick(s)}) = Cardinality(s) - 1
  <2>1. SUFFICES ASSUME NEW s \in SUBSET S, s # {}
                 PROVE  /\ pick(s) \in s /\ s \ {pick(s)} \in SUBSET S
                        /\ Cardinality(s \ {pick(s)}) = Cardinality(s) - 1
    OBVIOUS
  <2>2. pick(s) \in s
    BY <2>1
  <2> HIDE DEF pick
  <2> QED BY <2>1, <2>2, <1>2, FS_RemoveElement
<1>4. \A s \in SUBSET S : Cardinality(s) = 0 <=> s = {}
  BY <1>2, FS_EmptySet
<1> HIDE DEF pick, n
\* There is a function that adds the volumes up.
<1>5. ASSUME NEW m \in Nat, NEW f, IsSum(f, upTo(m))
      PROVE  \E g : IsSum(g, upTo(m + 1))
  <2> DEFINE g == [s \in upTo(m + 1) |->
                     IF Cardinality(s) = m + 1 THEN pick(s).volume + f[s \ {pick(s)}] ELSE f[s]]
  <2>1. ASSUME NEW s \in upTo(m + 1)
        PROVE  g[s] = IF s = {} THEN 0 ELSE pick(s).volume + g[s \ {pick(s)}]
    <3>1. s # {} => s \ {pick(s)} \in upTo(m + 1) /\ Cardinality(s \ {pick(s)}) # m + 1
      BY <1>2, <1>3
    <3>2. s # {} => g[s \ {pick(s)}] = f[s \ {pick(s)}]
      BY <3>1
    <3>3. CASE Cardinality(s) = m + 1
      BY <3>2, <3>3, <1>4
    <3>4. CASE Cardinality(s) # m + 1
      <4>1. s \in upTo(m)
        BY <3>4, <1>2
      <4>2. f[s] = IF s = {} THEN 0 ELSE pick(s).volume + f[s \ {pick(s)}]
        BY <4>1, <1>5
      <4> QED BY <4>2, <3>2, <3>4
    <3> QED BY <3>3, <3>4
  <2>2. IsSum(g, upTo(m + 1))
    BY <2>1
  <2> QED BY <2>2
<1>6. \A m \in Nat : \E f : IsSum(f, upTo(m))
  <2> DEFINE T == {m \in Nat : ~ \E f : IsSum(f, upTo(m))}
  <2>1. SUFFICES ASSUME T # {} PROVE FALSE
    OBVIOUS
  <2>2. T \in SUBSET Nat
    OBVIOUS
  <2>3. PICK m \in T : \A y \in T : m <= y
    BY <2>1, <2>2, Least
  <2>4. m # 0
    <3>1. \A s \in upTo(0) : s = {}
      BY <1>2, <1>4
    <3>2. IsSum([s \in upTo(0) |-> 0], upTo(0))
      BY <3>1
    <3>3. \E f : IsSum(f, upTo(0))
      BY <3>2
    <3> HIDE DEF IsSum, upTo
    <3> QED BY <3>3, <2>3
  <2>5. m \in Nat /\ m - 1 \in Nat /\ ~(m <= m - 1) /\ m - 1 + 1 = m
    BY <2>2, <2>4
  <2>6. m - 1 \notin T
    BY <2>3, <2>5
  <2>7. PICK f : IsSum(f, upTo(m - 1))
    BY <2>5, <2>6
  <2> HIDE DEF IsSum, upTo
  <2>8. \E g : IsSum(g, upTo(m - 1 + 1))
    BY <2>5, <2>7, <1>5
  <2> QED BY <2>3, <2>5, <2>8
<1>7. \A s \in SUBSET S : sum[s] = IF s = {} THEN 0 ELSE pick(s).volume + sum[s \ {pick(s)}]
  <2>1. upTo(n) = SUBSET S
    BY <1>2
  <2> HIDE DEF upTo, IsSum
  <2>2. \E f : IsSum(f, upTo(n))
    BY <1>2, <1>6
  <2>3. \E f : IsSum(f, SUBSET S)
    BY <2>1, <2>2
  <2>4. IsSum(sum, SUBSET S)
    BY <2>3
  <2> HIDE DEF sum
  <2> QED BY <2>4 DEF IsSum
<1> HIDE DEF sum, IsSum, upTo
\* Of every part of S the sum is bounded by what is counted by its own sets.
<1> DEFINE Of(s) == UNION {own[r] : r \in s}
           Bounded(s) == sum[s] \in Nat /\ sum[s] <= Cardinality(Of(s))
<1>8. \A s \in SUBSET S : Of(s) \subseteq X /\ IsFiniteSet(Of(s)) /\ Cardinality(Of(s)) \in Nat
                          /\ Cardinality(Of(s)) <= Cardinality(X)
  <2>1. \A s \in SUBSET S : Of(s) \in SUBSET X
    OBVIOUS
  <2> HIDE DEF Of
  <2> QED BY <2>1, FS_Subset, FS_CardinalityType
<1>9. ASSUME NEW s \in SUBSET S, s # {}, Bounded(s \ {pick(s)}) PROVE Bounded(s)
  <2> DEFINE x == pick(s)
             t == s \ {x}
  <2>1. x \in s /\ x \in S /\ t \in SUBSET S /\ sum[s] = x.volume + sum[t]
    BY <1>9, <1>3, <1>7
  <2> HIDE DEF x
  <2>2. Of(s) = Of(t) \cup own[x] /\ Of(t) \cap own[x] = {}
    BY <2>1
  <2>3. own[x] \in SUBSET X /\ x.volume \in Nat /\ x.volume <= Cardinality(own[x])
    BY <2>1
  <2>4. IsFiniteSet(own[x]) /\ Cardinality(own[x]) \in Nat
    BY <2>3, FS_Subset, FS_CardinalityType
  <2>5. IsFiniteSet(Of(t)) /\ Cardinality(Of(t)) \in Nat /\ Bounded(t)
    BY <1>8, <1>9, <2>1 DEF x
  <2>6. Cardinality(Of(s)) = Cardinality(Of(t)) + Cardinality(own[x])
    <3> HIDE DEF Of, t
    <3>1. Cardinality(Of(t) \cap own[x]) = 0
      BY <2>2, FS_EmptySet
    <3>2. Cardinality(Of(t) \cup own[x]) =
            Cardinality(Of(t)) + Cardinality(own[x]) - Cardinality(Of(t) \cap own[x])
      BY <2>4, <2>5, FS_Union
    <3> QED BY <3>1, <3>2, <2>2, <2>4, <2>5
  <2> HIDE DEF Of, t
  <2> QED BY <2>1, <2>3, <2>4, <2>5, <2>6
<1> HIDE DEF Of
<1>10. \A s \in SUBSET S : Bounded(s)
  <2> DEFINE T == {m \in Nat : \E s \in SUBSET S : Cardinality(s) = m /\ ~Bounded(s)}
  <2>1. SUFFICES ASSUME T # {} PROVE FALSE
    BY <1>2
  <2>2. T \in SUBSET Nat
    OBVIOUS
  <2>3. PICK m \in T : \A y \in T : m <= y
    BY <2>1, <2>2, Least
  <2>4. PICK s \in SUBSET S : Cardinality(s) = m /\ ~Bounded(s)
    BY <2>3
  <2>5. CASE s = {}
    <3>1. sum[s] = 0
      BY <2>5, <1>7
    <3> QED BY <3>1, <2>4, <1>8
  <2>6. CASE s # {}
    <3>1. ~Bounded(s \ {pick(s)}) /\ s \ {pick(s)} \in SUBSET S
          /\ Cardinality(s \ {pick(s)}) = m - 1
      BY <2>4, <2>6, <1>3, <1>9
    <3>2. m - 1 \in Nat
      BY <3>1, <1>2
    <3>3. m - 1 \in T
      BY <3>1, <3>2
    <3> QED BY <2>2, <2>3, <3>2, <3>3
  <2> QED BY <2>5, <2>6
<1>11. Bounded(S)
  BY <1>10
<1>12. Cardinality(Of(S)) \in Nat /\ Cardinality(Of(S)) <= Cardinality(X) /\ Cardinality(X) \in Nat
  BY <1>8, FS_CardinalityType
<1> QED BY <1>1, <1>11, <1>12

\* BarStore!VolumeNotInvented: what the stream has stored of a day counts no more
\* volume than was traded on it.  Each bar counts trades of its own: those up to
\* its newest one and after the newest one of every bar before it.
THEOREM VolumesHold == Spec => []VolumeNotInvented
<1>1. ASSUME Inv, VolumeInv PROVE VolumeNotInvented
  <2>1. SUFFICES ASSUME NEW d \in {trading_date_of(m) : m \in Minutes}
                 PROVE  MapThenSumSet(LAMBDA r : r.volume,
                          {r \in rows \cup {s \in stream.dirty : ~HasRow(rows, s.minute)} :
                              r.by = "stream" /\ trading_date_of(r.minute) = d})
                        <= Cardinality(TradesOf(DayMinutes(d)))
    BY DEF VolumeNotInvented
  <2> DEFINE S == {r \in rows \cup {s \in stream.dirty : ~HasRow(rows, s.minute)} :
                     r.by = "stream" /\ trading_date_of(r.minute) = d}
             X == In(trades, DayMinutes(d))
             Own(r) == {j \in X : j <= Newest(r) /\ \A q \in S : q.minute < r.minute => Newest(q) < j}
             own == [r \in S |-> Own(r)]
  <2>2. trades \in Seq(Minutes) /\ TapeOK(trades, volumeDay) /\ BarsApart(trades, StreamBars)
    BY <1>1 DEF Inv, TypeOK, VolumeInv, VolumeOK
  <2>3. S \subseteq StreamBars
    BY DEF StreamBars
  <2>4. \A q, r \in S : q.minute = r.minute => q = r
    <3>1. OneEach({r \in rows : r.by = "stream"}) /\ OneEach(stream.dirty)
      BY <1>1 DEF VolumeInv
    <3>2. \A r \in S : \/ r \in {x \in rows : x.by = "stream"}
                       \/ r \in stream.dirty /\ ~HasRow(rows, r.minute)
      OBVIOUS
    <3>3. \A r \in rows : HasRow(rows, r.minute)
      BY DEF HasRow
    <3> HIDE DEF S
    <3> QED BY <3>1, <3>2, <3>3 DEF OneEach
  <2>5. \A r \in S : trading_date_of(r.minute) = d
    OBVIOUS
  <2>6. IsFiniteSet(X) /\ X \in SUBSET (DOMAIN trades) /\ X \in SUBSET Nat
    <3>1. X \in SUBSET (DOMAIN trades) /\ DOMAIN trades = 1..Len(trades) /\ Len(trades) \in Nat
      BY <2>2 DEF In
    <3>2. IsFiniteSet(DOMAIN trades)
      BY <3>1, FS_Interval
    <3>3. X \in SUBSET Nat
      BY <3>1
    <3> QED BY <3>1, <3>2, <3>3, FS_Subset
  <2>7. X = {j \in DOMAIN trades : trading_date_of(trades[j]) = d}
    <3>1. \A j \in DOMAIN trades : trades[j] \in Minutes
      BY <2>2
    <3> QED BY <3>1 DEF In, DayMinutes
  <2> HIDE DEF S, X
  <2>8. \A r \in S : /\ SeenOK(trades, r) /\ r.volume \in Nat /\ r.volume <= Behind(trades, r)
                     /\ r.minute \in Minutes /\ Newest(r) \in Nat /\ Behind(trades, r) \in Nat
    <3>1. SUFFICES ASSUME NEW r \in S
                   PROVE  /\ SeenOK(trades, r) /\ r.volume \in Nat /\ r.volume <= Behind(trades, r)
                          /\ r.minute \in Minutes /\ Newest(r) \in Nat /\ Behind(trades, r) \in Nat
      OBVIOUS
    <3>2. r \in StreamBar /\ SeenOK(trades, r) /\ r.volume <= Behind(trades, r)
      BY <2>2, <2>3 DEF BarsApart
    <3>3. Newest(r) \in Nat /\ Behind(trades, r) \in Nat
      BY <2>2, <3>2, SeenTyped
    <3> QED BY <3>2, <3>3 DEF StreamBar
  <2>9. \A q, r \in S : q.minute < r.minute => r.volume + Behind(trades, q) <= Behind(trades, r)
    BY <2>2, <2>3, <2>5 DEF BarsApart, Earlier
\* As many bars as minutes.
  <2>10. IsFiniteSet(S)
    <3> DEFINE f == [r \in S |-> r.minute]
    <3>1. f \in Injection(S, Minutes)
      BY <2>4, <2>8 DEF Injection, IsInjective
    <3>2. IsFiniteSet(Minutes)
      BY BarStoreAssumption, FS_Interval DEF Minutes
    <3> HIDE DEF f
    <3> QED BY <3>1, <3>2, FS_Injection
\* No trade is of two bars' own.
  <2>11. ASSUME NEW q \in S, NEW r \in S, q # r PROVE own[q] \cap own[r] = {}
    <3>1. ASSUME NEW a \in S, NEW b \in S, a.minute < b.minute PROVE Own(a) \cap Own(b) = {}
      <4>1. \A j \in Own(a) : j \in Nat /\ j <= Newest(a)
        BY <2>6
      <4>2. \A j \in Own(b) : Newest(a) < j
        BY <3>1
      <4>3. Newest(a) \in Nat
        BY <2>8
      <4> HIDE DEF Own
      <4>4. ASSUME NEW j \in Own(a), j \in Own(b) PROVE FALSE
        BY <4>1, <4>2, <4>3, <4>4
      <4> QED BY <4>4
    <3>2. q.minute < r.minute \/ r.minute < q.minute
      <4>1. q.minute # r.minute
        BY <2>4, <2>11
      <4> QED BY <4>1, <2>8 DEF Minutes
    <3> HIDE DEF Own
    <3> QED BY <3>1, <3>2
\* The trades of a bar's own are as many as its volume.
  <2>12. ASSUME NEW r \in S PROVE r.volume <= Cardinality(own[r])
    <3> DEFINE Q == {q \in S : q.minute < r.minute}
               N == {Newest(q) : q \in Q}
    <3>1. r.volume \in Nat /\ r.volume <= Behind(trades, r) /\ Newest(r) \in Nat /\ Behind(trades, r) \in Nat
          /\ Behind(trades, r) = Count(trades, d, Newest(r))
      BY <2>5, <2>8 DEF Behind
    <3>2. CASE Q = {}
      <4>1. Own(r) = {j \in DOMAIN trades : trading_date_of(trades[j]) = d /\ j <= Newest(r)}
        BY <3>2, <2>7
      <4>2. Cardinality(Own(r)) = Count(trades, d, Newest(r))
        BY <4>1 DEF Count
      <4> HIDE DEF Own
      <4> QED BY <4>2, <3>1
    <3>3. CASE Q # {}
      <4>1. \A q \in Q : Newest(q) \in Int /\ Newest(q) < Newest(r)
        <5>1. SUFFICES ASSUME NEW q \in S, q.minute < r.minute
                       PROVE  Newest(q) \in Int /\ Newest(q) < Newest(r)
          OBVIOUS
        <5>2. SeenOK(trades, q) /\ SeenOK(trades, r) /\ Newest(q) \in Nat
          BY <2>8
        <5> QED BY <5>1, <5>2, <2>2, SeenOrder
      <4>2. N \in SUBSET Int /\ N # {} /\ \A x \in N : x <= Newest(r)
        BY <3>1, <3>3, <4>1
      <4>3. PICK x \in N : \A y \in N : y <= x
        <5>1. Newest(r) \in Int
          BY <3>1
        <5> HIDE DEF N
        <5> QED BY <4>2, <5>1, Greatest
      <4>4. PICK p \in Q : x = Newest(p)
        OBVIOUS
      <4>5. p \in S /\ p.minute < r.minute /\ \A q \in Q : Newest(q) <= Newest(p)
        BY <4>3, <4>4
      <4>6. Own(r) = {j \in DOMAIN trades : trading_date_of(trades[j]) = d /\ Newest(p) < j /\ j <= Newest(r)}
        <5>1. \A j \in X : (\A q \in S : q.minute < r.minute => Newest(q) < j) <=> Newest(p) < j
          <6>1. SUFFICES ASSUME NEW j \in X, Newest(p) < j, NEW q \in S, q.minute < r.minute
                         PROVE  Newest(q) < j
            BY <4>5
          <6>2. Newest(q) <= Newest(p)
            BY <6>1, <4>5
          <6>3. j \in Nat /\ Newest(q) \in Nat /\ Newest(p) \in Nat
            BY <2>6, <2>8, <4>5
          <6> QED BY <6>1, <6>2, <6>3
        <5>2. \A j : j \in X <=> j \in DOMAIN trades /\ trading_date_of(trades[j]) = d
          BY <2>7
        <5> QED BY <5>1, <5>2
      <4>7. Newest(p) \in Int /\ Newest(r) \in Int /\ Newest(p) <= Newest(r)
        BY <3>1, <4>1, <4>4, <4>5
      <4>8. Cardinality(Own(r)) = Count(trades, d, Newest(r)) - Count(trades, d, Newest(p))
        BY <2>2, <4>6, <4>7, CountFacts
      <4>9. r.volume + Behind(trades, p) <= Behind(trades, r) /\ Behind(trades, p) = Count(trades, d, Newest(p))
            /\ Behind(trades, p) \in Nat
        BY <2>5, <2>8, <2>9, <4>5 DEF Behind
      <4> HIDE DEF Own
      <4> QED BY <3>1, <4>8, <4>9
    <3> QED BY <3>2, <3>3
  <2>13. \A r \in S : own[r] \subseteq X
    OBVIOUS
  <2> HIDE DEF own
  <2>14. MapThenSumSet(LAMBDA r : r.volume, S) <= Cardinality(X)
    BY <2>6, <2>8, <2>10, <2>11, <2>12, <2>13, SumBound
  <2>15. TradesOf(DayMinutes(d)) = X
    BY DEF TradesOf, In, X
  <2> QED BY <2>14, <2>15 DEF S
<1> QED BY <1>1, InvHolds, VolumeInvHolds, PTL
=============================================================================
