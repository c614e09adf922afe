------------------------- MODULE ResultHistoryProofs -------------------------
(***************************************************************************)
(* Proofs about ResultHistory, for any timeframes, sessions, number of     *)
(* runs and changes of the inputs: carried results always refer to a       *)
(* computed one over the same window, and come of the input the engine     *)
(* would be given now unless complete bars were changed; factors lead to   *)
(* the payload they used; and what is on show is what a rebuild derives.   *)
(*                                                                         *)
(* The first two need to know what rows say of the inputs (Inv): a row     *)
(* never claims more than the input has had (Behind), only a result with   *)
(* data has a window (WindowMeansData), and a result over a complete last  *)
(* bar is current as long as neither the bar's time nor the restatement    *)
(* count moves (FinalIsCurrent).  Only today's profile is written, so what *)
(* a profile's prior session was it remains (DayInv).                      *)
(*                                                                         *)
(* The others need to know how runs write (HistInv): a run is executed     *)
(* once (RunsInv), and analyses a slot and scores a timeframe once         *)
(* (PlanInv, ScoreInv).                                                    *)
(***************************************************************************)
EXTENDS ResultHistory, WellFoundedInduction, TLAPS

Profile == [ts : Nat, hash : Nat, rev : Nat, complete : BOOLEAN]
Prior == [session : Sessions, profile : Profile]
Row == [run : Nat, slot : Slots, status : {"OK", "INSUFFICIENT_DATA"}, carried : BOOLEAN,
        from : Nat, end : Nat, final : BOOLEAN, hash : Nat, rev : Nat, fix : Nat, prior : SUBSET Prior]
Input == [ts : Nat, final : BOOLEAN, rev : Nat, fix : Nat]

Typed == /\ data \in [Slots -> Input] /\ hash \in [Keys -> Nat]
         /\ day \in Sessions /\ todo \in Seq(Slots)
         /\ rows \in Seq(Row) /\ run \in Nat /\ pending \subseteq Nat \ {0} /\ created \in Nat
         /\ closed \in BOOLEAN /\ cache \in [Sessions -> Profile]

Behind(r) == r.fix <= data[r.slot].fix /\ r.end <= data[r.slot].ts
WindowMeansData(r) == ~r.carried /\ r.end > 0 => r.status = "OK"
FinalIsCurrent(r) ==
    ~r.carried /\ r.final /\ r.slot.key # "open_interest"
    /\ r.end > 0 /\ r.end = data[r.slot].ts /\ r.fix = data[r.slot].fix
        => data[r.slot].final /\ r.rev = data[r.slot].rev

\* The sessions before today's are not written any more.
PriorIn(c, s) ==
    LET complete == {e \in Sessions : s.key = "market_profile" /\ e < s.at /\ c[e].complete}
    IN  {[session |-> e, profile |-> c[e]] : e \in {d \in complete : \A b \in complete : b <= d}}
PriorAt(r, d, c) == (r.slot.key = "market_profile" => r.slot.at <= d) /\ r.prior = PriorIn(c, r.slot)
TodayOnly == \A a \in 1..Len(todo) : todo[a].key = "market_profile" => todo[a].at = day
DayInv == /\ run = 0 => todo = <<>>
          /\ TodayOnly
          /\ \A i \in 1..Len(rows) : PriorAt(rows[i], day, cache)

RowsInv == \A i \in 1..Len(rows) : Behind(rows[i]) /\ WindowMeansData(rows[i]) /\ FinalIsCurrent(rows[i])

Inv == Typed /\ RowsInv /\ DayInv /\ CarriedFromRoot /\ CarryIsFresh

-----------------------------------------------------------------------------
\* What a run analyses are slots.
LEMMA PlanTyped ==
    ASSUME NEW d \in Sessions
    PROVE  /\ Plan(d) \in Seq(Slots)
           /\ \A a \in 1..Len(Plan(d)) : Plan(d)[a].key = "market_profile" => Plan(d)[a].at = d
<1>1. Len(TFs) \in Nat \ {0}
  BY HistoryAssumption
<1>2. \A i \in 1..Len(TFs) : TFs[i] \in Timeframes
  BY DEF Timeframes
<1>3. D1 \in Timeframes
  BY <1>1, <1>2 DEF D1
<1>4. ASSUME NEW i \in 1..(Len(TFs) + 2) PROVE Plan(d)[i] \in Slots
  <2>1. CASE i <= Len(TFs)
    BY <1>1, <1>2, <2>1 DEF Plan, Slots
  <2>2. CASE i = Len(TFs) + 1
    BY <1>1, <1>3, <2>2 DEF Plan, Slots
  <2>3. CASE i = Len(TFs) + 2
    BY <1>1, <2>3 DEF Plan, Slots
  <2>. QED
    BY <1>1, <2>1, <2>2, <2>3
<1>5. Plan(d) = [i \in 1..(Len(TFs) + 2) |-> Plan(d)[i]] /\ Len(TFs) + 2 \in Nat
  BY <1>1 DEF Plan
<1>6. Plan(d) \in Seq(Slots) /\ Len(Plan(d)) = Len(TFs) + 2
  BY <1>4, <1>5
<1>7. ASSUME NEW a \in 1..(Len(TFs) + 2), Plan(d)[a].key = "market_profile" PROVE Plan(d)[a].at = d
  BY <1>1, <1>7 DEF Plan
<1>. QED
  BY <1>6, <1>7

LEMMA SlotKeys == \A s \in Slots : s.key \in Keys
BY DEF Slots, Keys

LEMMA InitInv == Init => Inv
<1> SUFFICES ASSUME Init PROVE Inv
  OBVIOUS
<1>1. Typed
  <2>1. data \in [Slots -> Input] /\ hash \in [Keys -> Nat] /\ day \in Sessions /\ closed \in BOOLEAN
    BY DEF Init, Input
  <2>2. cache \in [Sessions -> Profile]
    BY DEF Init, Profile, NoProfile
  <2>3. rows \in Seq(Row) /\ todo \in Seq(Slots) /\ run \in Nat /\ pending \subseteq Nat \ {0} /\ created \in Nat
    BY DEF Init
  <2>. QED
    BY <2>1, <2>2, <2>3 DEF Typed
<1>2. Len(rows) = 0
  BY DEF Init
<1>. QED
  BY <1>1, <1>2 DEF Inv, Init, RowsInv, DayInv, TodayOnly, CarriedFromRoot, CarryIsFresh

\* The prior session of a row stays what it is when no earlier profile is
\* written: as the day goes on, or the next begins.
LEMMA PriorsStay ==
    ASSUME NEW r \in Row, NEW c \in [Sessions -> Profile], NEW n \in [Sessions -> Profile],
           NEW d \in Nat, NEW t \in Nat, d <= t, PriorAt(r, d, c),
           \A e \in Sessions : e < d => n[e] = c[e]
    PROVE  PriorAt(r, t, n)
<1> DEFINE s == r.slot
           complete == {e \in Sessions : s.key = "market_profile" /\ e < s.at /\ c[e].complete}
           later == {e \in Sessions : s.key = "market_profile" /\ e < s.at /\ n[e].complete}
           last == {e \in complete : \A b \in complete : b <= e}
<1>1. Sessions \subseteq Nat /\ (s.key = "market_profile" => s.at \in Nat /\ s.at <= d /\ s.at <= t)
  <2>1. s \in Slots
    BY DEF Row
  <2>2. s.key = "market_profile" => s.at \in Sessions
    <3> HIDE DEF s
    <3>. QED
      BY <2>1 DEF Slots
  <2>3. s.key = "market_profile" => s.at <= d
    BY DEF PriorAt
  <2>4. Sessions \subseteq Nat
    BY HistoryAssumption
  <2>5. ASSUME s.key = "market_profile" PROVE s.at \in Nat /\ s.at <= d /\ s.at <= t
    <3>1. s.at \in Nat /\ s.at <= d
      BY <2>2, <2>3, <2>4, <2>5
    <3> HIDE DEF s
    <3>. QED
      BY <3>1
  <2>. QED
    BY <2>4, <2>5
<1>2. \A e \in Sessions : s.key = "market_profile" /\ e < s.at => n[e] = c[e]
  BY <1>1
<1>3. later = complete /\ \A e \in last : n[e] = c[e]
  BY <1>2
<1>4. PriorIn(c, s) = {[session |-> e, profile |-> c[e]] : e \in last}
  BY DEF PriorIn
<1>5. PriorIn(n, s) = {[session |-> e, profile |-> n[e]] : e \in last}
  BY <1>3 DEF PriorIn
<1> HIDE DEF last
<1>6. PriorIn(n, s) = PriorIn(c, s)
  BY <1>3, <1>4, <1>5
<1>. QED
  BY <1>1, <1>6 DEF PriorAt

LEMMA PriorTyped ==
    ASSUME NEW s \in Slots, cache \in [Sessions -> Profile]
    PROVE  PriorOf(s) \in SUBSET Prior /\ PriorOf(s) = PriorIn(cache, s)
BY DEF PriorOf, PriorIn, Prior

\* A change of the inputs that leaves the rows alone keeps what holds among
\* rows.
LEMMA RowsOnly ==
    ASSUME Inv, UNCHANGED rows
    PROVE  CarriedFromRoot' /\ CarryIsFresh'
BY DEF Inv, CarriedFromRoot, CarryIsFresh

\* An input stays one when one of its fields changes, and so with the
\* fields that each kind of change sets.
LEMMA InputExcept ==
    ASSUME NEW x \in Input, NEW n \in Nat, NEW f \in BOOLEAN
    PROVE  /\ [x EXCEPT !.rev = n] \in Input
           /\ [x EXCEPT !.fix = n] \in Input
           /\ [x EXCEPT !.ts = n] \in Input
           /\ [x EXCEPT !.final = f] \in Input
  BY DEF Input

LEMMA ChangedInput ==
    ASSUME NEW x \in Input, NEW f \in BOOLEAN
    PROVE  /\ [x EXCEPT !.ts = @ + 1, !.final = f, !.rev = @ + 1] \in Input
           /\ [x EXCEPT !.final = f, !.rev = @ + 1] \in Input
           /\ [x EXCEPT !.rev = @ + 1, !.fix = @ + 1] \in Input
<1>1. x.rev + 1 \in Nat /\ x.ts + 1 \in Nat /\ x.fix + 1 \in Nat
  BY DEF Input
<1>2. /\ [x EXCEPT !.ts = @ + 1] \in Input
      /\ [x EXCEPT !.final = f] \in Input
      /\ [x EXCEPT !.rev = @ + 1] \in Input
  BY <1>1, InputExcept
<1>3. [x EXCEPT !.ts = @ + 1, !.final = f] \in Input
  BY <1>2, InputExcept
<1>. QED
  BY <1>1, <1>2, <1>3, InputExcept

\* Inputs only move forward; a complete last bar moves by restatement only.
LEMMA ChangeInv ==
    ASSUME Inv, NEW s \in Slots, NEW d \in Input, Change(s, d),
           d.fix >= data[s].fix, d.ts >= data[s].ts,
           s.key # "open_interest" =>
              \/ d.ts > data[s].ts
              \/ d.fix > data[s].fix
              \/ ~data[s].final
    PROVE  Inv'
<1>1. /\ data' = [data EXCEPT ![s] = d]
      /\ UNCHANGED <<hash, day, closed, todo, rows, cache, run, pending, created>>
  BY DEF Change, runVars, storeVars
<1>2. Typed'
  BY <1>1 DEF Inv, Typed
<1>3. ASSUME NEW i \in 1..Len(rows)
      PROVE  Behind(rows[i])' /\ WindowMeansData(rows[i])' /\ FinalIsCurrent(rows[i])'
  <2>0. rows[i] \in Row /\ rows' = rows /\ data[s] \in Input
    BY <1>1 DEF Inv, Typed
  <2>1. rows[i] \in Row /\ rows' = rows /\ data[s] \in Input /\ rows[i].slot \in Slots
    BY <2>0 DEF Row
  <2>2. Behind(rows[i]) /\ WindowMeansData(rows[i]) /\ FinalIsCurrent(rows[i])
    BY DEF Inv, RowsInv
  <2>3. CASE rows[i].slot = s
    <3>1. data'[s] = d
      BY <1>1 DEF Inv, Typed
    <3>. QED
      BY <2>1, <2>2, <2>3, <3>1, SMTT(30) DEF Behind, WindowMeansData, FinalIsCurrent, Row, Input
  <2>4. CASE rows[i].slot # s
    <3>1. data'[rows[i].slot] = data[rows[i].slot]
      BY <1>1, <2>1, <2>4 DEF Inv, Typed
    <3>. QED
      BY <2>1, <2>2, <3>1 DEF Behind, WindowMeansData, FinalIsCurrent
  <2>. QED
    BY <2>3, <2>4
<1>4. RowsInv'
  BY <1>1, <1>3 DEF RowsInv
<1>5. DayInv'
  BY <1>1 DEF Inv, DayInv, TodayOnly
<1>. QED
  BY <1>1, <1>2, <1>4, <1>5, RowsOnly DEF Inv

\* Adding a row that is in order keeps the invariant.
LEMMA AppendInv ==
    ASSUME Inv, NEW r \in Row, rows' = Append(rows, r),
           UNCHANGED <<data, hash, day, closed, run, pending, created>>,
           todo' \in Seq(Slots), TodayOnly', run # 0,
           cache' \in [Sessions -> Profile], \A e \in Sessions : e < day => cache'[e] = cache[e],
           PriorAt(r, day, cache), Behind(r), WindowMeansData(r), FinalIsCurrent(r),
           r.carried =>
              /\ r.from \in 1..Len(rows)
              /\ LET root == rows[r.from]
                 IN  /\ ~root.carried /\ root.status = "OK" /\ root.final
                     /\ root.slot = r.slot /\ root.hash = r.hash /\ root.end = r.end
                     /\ r.slot.key # "open_interest" /\ root.fix = r.fix => root.rev = r.rev /\ root.prior = r.prior
    PROVE  Inv'
<1>1. rows \in Seq(Row) /\ Len(rows) \in Nat
  BY DEF Inv, Typed
<1>2. /\ rows' \in Seq(Row) /\ Len(rows') = Len(rows) + 1
      /\ \A i \in 1..Len(rows) : rows'[i] = rows[i]
      /\ rows'[Len(rows) + 1] = r
  BY <1>1
<1>3. \A i \in 1..Len(rows') : i \in 1..Len(rows) \/ i = Len(rows) + 1
  BY <1>1, <1>2
<1>4. Typed'
  BY <1>2 DEF Inv, Typed
<1>5. RowsInv'
  <2> SUFFICES ASSUME NEW i \in 1..Len(rows')
               PROVE  Behind(rows[i])' /\ WindowMeansData(rows[i])' /\ FinalIsCurrent(rows[i])'
    BY DEF RowsInv
  <2>1. data' = data
    OBVIOUS
  <2>2. CASE i \in 1..Len(rows)
    <3>1. rows'[i] = rows[i]
      BY <1>2, <2>2
    <3>2. Behind(rows[i]) /\ WindowMeansData(rows[i]) /\ FinalIsCurrent(rows[i])
      BY <2>2 DEF Inv, RowsInv
    <3>. QED
      BY <2>1, <3>1, <3>2 DEF Behind, WindowMeansData, FinalIsCurrent
  <2>3. CASE i = Len(rows) + 1
    <3>1. rows'[i] = r
      BY <1>2, <2>3
    <3>. QED
      BY <2>1, <3>1 DEF Behind, WindowMeansData, FinalIsCurrent
  <2>. QED
    BY <1>3, <2>2, <2>3
<1>6. CarriedFromRoot'
  <2> SUFFICES ASSUME NEW i \in 1..Len(rows'), rows'[i].carried
               PROVE  /\ rows'[i].from \in 1..(i - 1)
                      /\ LET root == rows'[rows'[i].from]
                         IN  /\ ~root.carried /\ root.status = "OK" /\ root.final
                             /\ root.slot = rows'[i].slot /\ root.hash = rows'[i].hash /\ root.end = rows'[i].end
    BY DEF CarriedFromRoot
  <2>1. CASE i \in 1..Len(rows)
    <3>1. rows[i].carried /\ rows'[i] = rows[i]
      BY <1>2, <2>1
    <3>2. rows[i].from \in 1..(i - 1)
      BY <2>1, <3>1 DEF Inv, CarriedFromRoot
    <3>3. rows'[rows[i].from] = rows[rows[i].from]
      BY <1>1, <1>2, <2>1, <3>2
    <3>. QED
      BY <2>1, <3>1, <3>2, <3>3 DEF Inv, CarriedFromRoot
  <2>2. CASE i = Len(rows) + 1
    <3>1. rows'[i] = r /\ rows'[r.from] = rows[r.from]
      BY <1>2, <2>2
    <3>. QED
      BY <1>1, <2>2, <3>1
  <2>. QED
    BY <1>3, <2>1, <2>2
<1>7. CarryIsFresh'
  <2> SUFFICES ASSUME NEW i \in 1..Len(rows'), rows'[i].carried, rows'[i].slot.key # "open_interest",
                      rows'[rows'[i].from].fix = rows'[i].fix
               PROVE  rows'[rows'[i].from].rev = rows'[i].rev /\ rows'[rows'[i].from].prior = rows'[i].prior
    BY DEF CarryIsFresh
  <2>1. CASE i \in 1..Len(rows)
    <3>1. rows[i].carried /\ rows'[i] = rows[i]
      BY <1>2, <2>1
    <3>2. rows[i].from \in 1..(i - 1)
      BY <2>1, <3>1 DEF Inv, CarriedFromRoot
    <3>3. rows'[rows[i].from] = rows[rows[i].from]
      BY <1>1, <1>2, <2>1, <3>2
    <3>. QED
      BY <2>1, <3>1, <3>3 DEF Inv, CarryIsFresh
  <2>2. CASE i = Len(rows) + 1
    <3>1. rows'[i] = r /\ rows'[r.from] = rows[r.from]
      BY <1>2, <2>2
    <3>. QED
      BY <3>1
  <2>. QED
    BY <1>3, <2>1, <2>2
<1>8. DayInv'
  <2>1. ASSUME NEW i \in 1..Len(rows') PROVE PriorAt(rows'[i], day, cache')
    <3>1. day \in Nat /\ day <= day /\ cache \in [Sessions -> Profile]
      BY HistoryAssumption DEF Inv, Typed
    <3>2. rows'[i] \in Row /\ PriorAt(rows'[i], day, cache)
      BY <1>1, <1>2, <1>3 DEF Inv, DayInv
    <3>. QED
      BY <3>1, <3>2, PriorsStay
  <2>. QED
    BY <2>1 DEF DayInv, TodayOnly
<1>. QED
  BY <1>4, <1>5, <1>6, <1>7, <1>8 DEF Inv

\* Analysing a slot adds a row that is in order: a carried one says what its
\* root says, a computed one what the input is.
LEMMA AnalyzeInv == ASSUME Inv, Analyze PROVE Inv'
<1> DEFINE s == Head(todo)
<1>1. s \in Slots /\ todo' \in Seq(Slots) /\ s = todo[1] /\ 1 \in 1..Len(todo)
  BY DEF Inv, Typed, Analyze
<1>2. UNCHANGED <<data, hash, day, closed, run, pending, created>> /\ todo' = Tail(todo) /\ run # 0
  BY DEF Inv, DayInv, Analyze, inputVars
<1>15. TodayOnly' /\ (s.key = "market_profile" => s.at = day)
  <2>1. \A a \in 1..Len(todo') : a + 1 \in 1..Len(todo) /\ todo'[a] = todo[a + 1]
    BY <1>1, <1>2 DEF Inv, Typed
  <2>. QED
    BY <1>1, <1>2, <2>1 DEF Inv, DayInv, TodayOnly
<1>16. day \in Nat /\ PriorOf(s) \in SUBSET Prior /\ PriorOf(s) = PriorIn(cache, s) /\ cache \in [Sessions -> Profile]
  BY <1>1, PriorTyped, HistoryAssumption DEF Inv, Typed
<1>17. s.key = "market_profile" => s.at <= day
  BY <1>15, <1>16
<1>3. data[s] \in Input /\ hash[s.key] \in Nat /\ s.key \in Keys
  BY <1>1, SlotKeys DEF Inv, Typed
<1>4. ASSUME NEW i \in 1..Len(rows), Carries(s, i), rows' = Append(rows, CarriedRow(s, i)), UNCHANGED cache
      PROVE  Inv'
  <2> DEFINE r == CarriedRow(s, i)
             root == rows[Root(i)]
  <2>0. rows[i] \in Row
    BY DEF Inv, Typed
  <2>1. /\ rows[i] \in Row /\ rows[i].slot = s /\ data[s].ts >= 1
        /\ rows[i].hash = hash[s.key] /\ rows[i].end = data[s].ts
        /\ rows[Root(i)].final
    BY <1>3, <1>4, <2>0, HistoryAssumption DEF Carries, IsLatest, Input
  <2>2. /\ Root(i) \in 1..Len(rows) /\ ~root.carried /\ root.status = "OK" /\ root.final
        /\ root.slot = s /\ root.hash = hash[s.key] /\ root.end = data[s].ts
    <3>1. CASE rows[i].carried
      <4>1. rows[i].from \in 1..(i - 1) /\ Root(i) = rows[i].from
        BY <3>1 DEF Inv, CarriedFromRoot, Root
      <4>2. Root(i) \in 1..Len(rows)
        BY <4>1 DEF Inv, Typed
      <4>. QED
        BY <2>1, <3>1, <4>1, <4>2 DEF Inv, CarriedFromRoot
    <3>2. CASE ~rows[i].carried
      <4>1. Root(i) = i
        BY <3>2 DEF Root
      <4>2. WindowMeansData(rows[i])
        BY DEF Inv, RowsInv
      <4>. QED
        BY <1>3, <2>1, <3>2, <4>1, <4>2 DEF WindowMeansData, Input
    <3>. QED
      BY <3>1, <3>2
  <2>3. root \in Row
    BY <2>2 DEF Inv, Typed
  <2>4. Root(i) \in Nat
    BY <2>2
  <2>5. r \in Row
    BY <1>1, <1>3, <1>16, <2>4 DEF Inv, Typed, Row, Input, CarriedRow
  <2>6. /\ r.carried /\ r.slot = s /\ r.from = Root(i) /\ r.end = data[s].ts
        /\ r.hash = hash[s.key] /\ r.rev = data[s].rev /\ r.fix = data[s].fix /\ r.prior = PriorOf(s)
    BY DEF CarriedRow
  <2>7. Behind(r) /\ WindowMeansData(r) /\ FinalIsCurrent(r)
    BY <1>3, <2>6 DEF Behind, WindowMeansData, FinalIsCurrent, Input
  <2>8. /\ s.key # "open_interest" /\ root.fix = data[s].fix => root.rev = data[s].rev
        /\ root.prior = r.prior /\ PriorAt(r, day, cache)
    <3>1. FinalIsCurrent(root)
      BY <2>2 DEF Inv, RowsInv
    <3>2. root.prior = PriorOf(s)
      BY <1>16, <2>2 DEF Inv, DayInv, PriorAt
    <3>3. s.key # "open_interest" /\ root.fix = data[s].fix => root.rev = data[s].rev
      BY <1>3, <2>1, <2>2, <3>1 DEF FinalIsCurrent, Input
    <3>. QED
      BY <1>16, <1>17, <2>6, <3>2, <3>3 DEF PriorAt
  <2> HIDE DEF r, root
  <2>9. root = rows[r.from]
    BY <2>6 DEF root
  <2>10. rows' = Append(rows, r)
    BY <1>4 DEF r
  <2>. QED
    BY <1>1, <1>2, <1>4, <1>15, <1>16, <2>2, <2>5, <2>6, <2>7, <2>8, <2>9, <2>10, AppendInv
<1>5. ASSUME rows' = Append(rows, ComputedRow(s)), cache' \in [Sessions -> Profile],
             \A e \in Sessions : e < day => cache'[e] = cache[e]
      PROVE  Inv'
  <2> DEFINE r == ComputedRow(s)
  <2>1. r \in Row
    BY <1>1, <1>3, <1>16, HistoryAssumption DEF Inv, Typed, Row, Input, ComputedRow
  <2>2. /\ ~r.carried /\ r.slot = s /\ r.final = data[s].final
        /\ r.rev = data[s].rev /\ r.fix = data[s].fix /\ r.prior = PriorOf(s)
        /\ r.end = (IF data[s].ts >= MinBars THEN data[s].ts ELSE 0)
        /\ r.status = (IF data[s].ts >= MinBars THEN "OK" ELSE "INSUFFICIENT_DATA")
    BY DEF ComputedRow
  <2>3. Behind(r) /\ WindowMeansData(r) /\ FinalIsCurrent(r)
    BY <1>3, <2>2, HistoryAssumption DEF Behind, WindowMeansData, FinalIsCurrent, Input
  <2>5. PriorAt(r, day, cache)
    BY <1>16, <1>17, <2>2 DEF PriorAt
  <2> HIDE DEF r
  <2>4. rows' = Append(rows, r)
    BY <1>5 DEF r
  <2>. QED
    BY <1>1, <1>2, <1>5, <1>15, <2>1, <2>2, <2>3, <2>4, <2>5, AppendInv
<1>6. CASE /\ \E i \in 1..Len(rows) : Carries(s, i) /\ Write(CarriedRow(s, i), rows[Root(i)].rev)
           /\ UNCHANGED cache
  BY <1>4, <1>6 DEF Write
<1>7. CASE /\ Write(ComputedRow(s), data[s].rev)
           /\ cache' = IF s.key = "market_profile" /\ data[s].ts >= MinBars
                       THEN [cache EXCEPT ![s.at] = [ts |-> data[s].ts, hash |-> hash[s.key],
                                                     rev |-> data[s].rev, complete |-> closed]]
                       ELSE cache
  <2> DEFINE p == [ts |-> data[s].ts, hash |-> hash[s.key], rev |-> data[s].rev, complete |-> closed]
  <2>1. rows' = Append(rows, ComputedRow(s))
    BY <1>7 DEF Write
  <2>2. p \in Profile
    BY <1>3 DEF Inv, Typed, Input, Profile
  <2>3. cache' = IF s.key = "market_profile" /\ data[s].ts >= MinBars THEN [cache EXCEPT ![s.at] = p] ELSE cache
    BY <1>7
  <2>4. Sessions \subseteq Nat
    BY HistoryAssumption
  <2> HIDE DEF p, s
  <2>5. cache' \in [Sessions -> Profile] /\ \A e \in Sessions : e < day => cache'[e] = cache[e]
    <3>1. CASE s.key = "market_profile" /\ data[s].ts >= MinBars
      <4>1. cache' = [cache EXCEPT ![day] = p]
        BY <1>15, <2>3, <3>1
      <4>2. day \in Sessions /\ \A e \in Sessions : e < day => e # day
        BY <1>16, <2>4 DEF Inv, Typed
      <4>. QED
        BY <1>16, <2>2, <4>1, <4>2
    <3>2. CASE ~(s.key = "market_profile" /\ data[s].ts >= MinBars)
      BY <1>16, <2>3, <3>2
    <3>. QED
      BY <3>1, <3>2
  <2>. QED
    BY <1>5, <2>1, <2>5
<1>. QED
  BY <1>6, <1>7 DEF Analyze

\* The steps that neither add a row nor change an input.
LEMMA QuietInv ==
    ASSUME Inv, UNCHANGED <<data, rows, cache>>, hash' \in [Keys -> Nat], day' \in Sessions, day <= day',
           closed' \in BOOLEAN, run' = 0 => todo' = <<>>, TodayOnly',
           todo' \in Seq(Slots), run' \in Nat, pending' \subseteq Nat \ {0}, created' \in Nat
    PROVE  Inv'
<1>1. Typed'
  BY DEF Inv, Typed
<1>2. RowsInv'
  BY DEF Inv, RowsInv, Behind, WindowMeansData, FinalIsCurrent
<1>3. DayInv'
  <2>1. ASSUME NEW i \in 1..Len(rows) PROVE PriorAt(rows[i], day', cache)
    <3>1. day \in Nat /\ day' \in Nat /\ cache \in [Sessions -> Profile]
      BY HistoryAssumption DEF Inv, Typed
    <3>2. rows[i] \in Row /\ PriorAt(rows[i], day, cache)
      BY DEF Inv, Typed, DayInv
    <3>. QED
      BY <3>1, <3>2, PriorsStay
  <2>. QED
    BY <2>1 DEF DayInv
<1>. QED
  BY <1>1, <1>2, <1>3, RowsOnly DEF Inv

LEMMA InvStep == Inv /\ [Next]_vars => Inv'
<1> SUFFICES ASSUME Inv, [Next]_vars PROVE Inv'
  OBVIOUS
<1> USE DEF inputVars, runVars, storeVars
<1>0. /\ data \in [Slots -> Input] /\ hash \in [Keys -> Nat] /\ day \in Sessions
      /\ todo \in Seq(Slots) /\ run \in Nat /\ pending \subseteq Nat \ {0} /\ created \in Nat
      /\ closed \in BOOLEAN /\ (run = 0 => todo = <<>>) /\ TodayOnly /\ day \in Nat /\ day <= day
  BY HistoryAssumption DEF Inv, Typed, DayInv
<1>20. UNCHANGED <<todo, day>> => TodayOnly'
  BY <1>0 DEF TodayOnly
<1>21. todo' = <<>> => TodayOnly'
  BY DEF TodayOnly
<1>1. ASSUME NEW s \in Slots, NewBar(s) PROVE Inv'
  <2>1. PICK f \in BOOLEAN : Change(s, [data[s] EXCEPT !.ts = @ + 1, !.final = f, !.rev = @ + 1])
    BY <1>1 DEF NewBar
  <2> DEFINE d == [data[s] EXCEPT !.ts = @ + 1, !.final = f, !.rev = @ + 1]
  <2>2. data[s] \in Input
    BY <1>0
  <2>3. d \in Input
    BY <2>2, ChangedInput
  <2>4. d.fix >= data[s].fix /\ d.ts >= data[s].ts
    BY <2>2 DEF Input
  <2>5. d.ts > data[s].ts
    BY <1>1, <2>2 DEF Input, NewBar
  <2>6. Change(s, d)
    BY <2>1
  <2> HIDE DEF d
  <2>. QED
    BY <2>3, <2>4, <2>5, <2>6, ChangeInv
<1>2. ASSUME NEW s \in Slots, FormingMoves(s) PROVE Inv'
  <2>1. PICK f \in BOOLEAN : Change(s, [data[s] EXCEPT !.final = f, !.rev = @ + 1])
    BY <1>2 DEF FormingMoves
  <2> DEFINE d == [data[s] EXCEPT !.final = f, !.rev = @ + 1]
  <2>2. data[s] \in Input
    BY <1>0
  <2>3. d \in Input
    BY <2>2, ChangedInput
  <2>4. d.fix >= data[s].fix /\ d.ts >= data[s].ts
    BY <2>2 DEF Input
  <2>5. ~data[s].final
    BY <1>2, <2>2 DEF Input, FormingMoves
  <2>6. Change(s, d)
    BY <2>1
  <2> HIDE DEF d
  <2>. QED
    BY <2>3, <2>4, <2>5, <2>6, ChangeInv
<1>3. ASSUME NEW s \in Slots, Restate(s) PROVE Inv'
  <2> DEFINE d == [data[s] EXCEPT !.rev = @ + 1, !.fix = @ + 1]
  <2>2. data[s] \in Input
    BY <1>0
  <2>3. d \in Input
    BY <2>2, ChangedInput
  <2>4. d.fix >= data[s].fix /\ d.ts >= data[s].ts
    BY <2>2 DEF Input
  <2>5. d.fix > data[s].fix
    BY <1>3, <2>2 DEF Input, Restate
  <2>6. Change(s, d)
    BY <1>3 DEF Restate
  <2> HIDE DEF d
  <2>. QED
    BY <2>3, <2>4, <2>5, <2>6, ChangeInv
<1>4. ASSUME NEW s \in Slots, MinuteOfOI(s) PROVE Inv'
  <2>1. PICK f \in BOOLEAN : Change(s, [data[s] EXCEPT !.final = f, !.rev = @ + 1])
    BY <1>4 DEF MinuteOfOI
  <2> DEFINE d == [data[s] EXCEPT !.final = f, !.rev = @ + 1]
  <2>2. data[s] \in Input
    BY <1>0
  <2>3. d \in Input
    BY <2>2, ChangedInput
  <2>4. d.fix >= data[s].fix /\ d.ts >= data[s].ts
    BY <2>2 DEF Input
  <2>5. s.key = "open_interest"
    BY <1>4, <2>2 DEF Input, MinuteOfOI
  <2>6. Change(s, d)
    BY <2>1
  <2> HIDE DEF d
  <2>. QED
    BY <2>3, <2>4, <2>5, <2>6, ChangeInv
<1>5. ASSUME NEW k \in Keys, NewParams(k) PROVE Inv'
  BY <1>0, <1>5, <1>20, QuietInv DEF NewParams
<1>6. CASE NextDay
  <2>1. todo' = <<>> /\ day <= day'
    BY <1>0, <1>6 DEF NextDay
  <2>. QED
    BY <1>0, <1>6, <1>21, <2>1, QuietInv DEF NextDay
<1>22. CASE SessionCloses
  BY <1>0, <1>20, <1>22, QuietInv DEF SessionCloses
<1>7. CASE CreateRun
  BY <1>0, <1>7, <1>20, QuietInv DEF CreateRun
<1>8. ASSUME NEW r \in pending, StartRun(r) PROVE Inv'
  <2>1. (todo' = Plan(day) \/ todo' = <<>>) /\ day' = day /\ run' # 0
    BY <1>0, <1>8 DEF StartRun
  <2>2. todo' \in Seq(Slots) /\ TodayOnly'
    <3>1. CASE todo' = Plan(day)
      BY <1>0, <2>1, <3>1, PlanTyped DEF TodayOnly
    <3>2. CASE todo' = <<>>
      BY <1>21, <3>2
    <3>. QED
      BY <2>1, <3>1, <3>2
  <2>. QED
    BY <1>0, <1>8, <2>1, <2>2, QuietInv DEF StartRun
<1>9. CASE Analyze
  BY <1>9, AnalyzeInv
<1>10. CASE AnalyzeFails
  BY <1>0, <1>10, <1>21, QuietInv DEF AnalyzeFails
<1>11. CASE Score
  BY <1>0, <1>11, <1>20, QuietInv DEF Score
<1>12. CASE FinishRun
  BY <1>0, <1>12, <1>20, QuietInv DEF FinishRun
<1>13. CASE Rebuild
  BY <1>0, <1>13, <1>20, QuietInv DEF Rebuild
<1>14. CASE UNCHANGED vars
  BY <1>0, <1>14, <1>20, QuietInv DEF vars
<1>. QED
  BY <1>1, <1>2, <1>3, <1>4, <1>5, <1>6, <1>7, <1>8, <1>9, <1>10, <1>11, <1>12, <1>13, <1>14, <1>22 DEF Next

LEMMA InvCorrect == Spec => []Inv
BY InitInv, InvStep, PTL DEF Spec

\* A carried result always names a computed result with data, of the same
\* analysis, parameters and last bar: carrying never chains.
THEOREM CarriesNameRoots == Spec => []CarriedFromRoot
<1>1. Inv => CarriedFromRoot
  BY DEF Inv
<1>. QED
  BY InvCorrect, <1>1, PTL

\* Unless complete bars were restated, a carried indicator or profile comes of
\* the input the engine would be given now, the prior session's profile
\* included and the clock excepted.
THEOREM CarriesAreFresh == Spec => []CarryIsFresh
<1>1. Inv => CarryIsFresh
  BY DEF Inv
<1>. QED
  BY InvCorrect, <1>1, PTL

-----------------------------------------------------------------------------
(* Links, and what is on show. *)

Factor == [slot : Slots, used : Nat, row : Nat, link : Nat]
ScoreRow == [run : Nat, tf : Timeframes, prev : Nat, factors : SUBSET Factor]

\* Only a run that was executed has results or scores, and it is not executed
\* again.
RunsInv ==
    /\ pending \subseteq 1..created /\ run \in (0..created) \ pending
    /\ run = 0 => todo = <<>> /\ toScore = <<>>
    /\ \A i \in 1..Len(rows) : rows[i].run \in (1..created) \ pending
    /\ \A n \in 1..Len(scores) : scores[n].run \in (1..created) \ pending

\* A run writes at most one result of an analysis that has one slot, and what
\* it has written it does not have still to do.
PlanInv ==
    /\ \A a, b \in 1..Len(todo) : todo[a].key = todo[b].key /\ todo[a].key # "indicator" => a = b
    /\ \A i \in OwnRows, a \in 1..Len(todo) :
          rows[i].slot.key = todo[a].key => todo[a].key = "indicator"
    /\ \A i, j \in 1..Len(rows) :
          rows[i].run = rows[j].run /\ rows[i].slot.key = rows[j].slot.key
          /\ rows[i].slot.key # "indicator" => i = j

\* A run scores a timeframe once.
ScoreInv ==
    /\ scores \in Seq(ScoreRow) /\ toScore \in Seq(Timeframes)
    /\ shown = [tf \in Timeframes |-> shown[tf]]
    /\ \A a, b \in 1..Len(toScore) : toScore[a] = toScore[b] => a = b
    /\ \A n \in 1..Len(scores), a \in 1..Len(toScore) :
          scores[n].run = run => toScore[a] # scores[n].tf
    /\ \A m, n \in 1..Len(scores) :
          scores[m].run = scores[n].run /\ scores[m].tf = scores[n].tf => m = n

\* Factors are linked to results that exist.
LinkInv ==
    \A n \in 1..Len(scores) : \A f \in scores[n].factors : f.link \in 1..Len(rows)

HistInv ==
    /\ RunsInv /\ PlanInv /\ ScoreInv /\ LinkInv
    /\ current = [r \in Refs |-> current[r]]
    /\ FactorsTraceable /\ ScoresRebuilt /\ AnalysesRebuilt

\* A set of natural numbers has a least element ...
LEMMA Least ==
    ASSUME NEW T \in SUBSET Nat, T # {}
    PROVE  \E x \in T : \A y \in T : x <= y
<1> DEFINE R == {s \in Nat \X Nat : s[1] < s[2]}
<1>1. IsWellFoundedOn(R, Nat)
  BY NatLessThanWellFounded DEF OpToRel
<1>2. PICK x \in T : \A y \in T : <<y, x>> \notin R
  BY <1>1, WFMin
<1>3. \A y \in T : ~(y < x)
  <2>1. TAKE y \in T
  <2>2. <<y, x>> \in Nat \X Nat /\ <<y, x>>[1] = y /\ <<y, x>>[2] = x
    OBVIOUS
  <2>3. QED BY <1>2, <2>2
<1>4. QED BY <1>3

\* ... and a set of integers with a bound a greatest one.
LEMMA Greatest ==
    ASSUME NEW n \in Int, NEW T \in SUBSET Int, T # {}, \A x \in T : x <= n
    PROVE  \E x \in T : \A y \in T : y <= x
<1> DEFINE U == {n - x : x \in T}
<1>1. U \in SUBSET Nat /\ U # {}
  <2>1. \A x \in T : n - x \in Nat
    OBVIOUS
  <2>. QED BY <2>1
<1>2. PICK u \in U : \A v \in U : u <= v
  BY <1>1, Least
<1>3. PICK x \in T : u = n - x
  OBVIOUS
<1>4. ASSUME NEW y \in T PROVE y <= x
  <2>1. n - y \in U
    OBVIOUS
  <2>2. n - x <= n - y
    BY <2>1, <1>2, <1>3
  <2>. QED BY <2>2
<1>5. QED BY <1>4

\* The places of a sequence with one more element ...
LEMMA AppendFacts ==
    ASSUME NEW S, NEW s \in Seq(S), NEW x
    PROVE  /\ Len(s) \in Nat /\ Len(Append(s, x)) = Len(s) + 1
           /\ \A i \in 1..Len(s) : Append(s, x)[i] = s[i]
           /\ Append(s, x)[Len(s) + 1] = x
           /\ \A i \in 1..Len(Append(s, x)) : i \in 1..Len(s) \/ i = Len(s) + 1
           /\ \A i \in 1..Len(s) : i \in 1..Len(Append(s, x)) /\ i # Len(s) + 1 /\ ~(Len(s) + 1 <= i)
           /\ Len(s) + 1 \in 1..Len(Append(s, x))
OBVIOUS

\* ... and of one without its first.
LEMMA TailFacts ==
    ASSUME NEW S, NEW s \in Seq(S), s # <<>>
    PROVE  /\ Head(s) \in S /\ Head(s) = s[1] /\ 1 \in 1..Len(s) /\ Tail(s) \in Seq(S)
           /\ \A i \in 1..Len(Tail(s)) : i + 1 \in 1..Len(s) /\ i + 1 # 1 /\ Tail(s)[i] = s[i + 1]
OBVIOUS

\* A plan has open interest and the market profile once.
LEMMA PlanOnce ==
    ASSUME NEW d \in Sessions
    PROVE  \A a, b \in 1..Len(Plan(d)) :
              Plan(d)[a].key = Plan(d)[b].key /\ Plan(d)[a].key # "indicator" => a = b
<1>1. Len(TFs) \in Nat /\ Len(Plan(d)) = Len(TFs) + 2
  BY HistoryAssumption DEF Plan
<1>2. \A a \in 1..Len(Plan(d)) :
        /\ a <= Len(TFs) => Plan(d)[a].key = "indicator"
        /\ a = Len(TFs) + 1 => Plan(d)[a].key = "open_interest"
        /\ a = Len(TFs) + 2 => Plan(d)[a].key = "market_profile"
  BY <1>1 DEF Plan
<1>3. \A a \in 1..Len(Plan(d)) : a <= Len(TFs) \/ a = Len(TFs) + 1 \/ a = Len(TFs) + 2
  BY <1>1
<1>. QED BY <1>2, <1>3

\* Nothing is written, planned or on show at the start.
LEMMA HistInit == Init => HistInv
<1> SUFFICES ASSUME Init PROVE HistInv
  OBVIOUS
<1>1. /\ rows = <<>> /\ scores = <<>> /\ todo = <<>> /\ toScore = <<>>
      /\ created = 0 /\ pending = {} /\ run = 0
      /\ current = [r \in Refs |-> NoEntry] /\ shown = [tf \in Timeframes |-> NoScore]
  BY DEF Init
<1>2. Len(rows) = 0 /\ Len(scores) = 0 /\ Len(todo) = 0 /\ Len(toScore) = 0 /\ 1..0 = {}
  BY <1>1
<1>3. RunsInv
  BY <1>1, <1>2 DEF RunsInv
<1>4. PlanInv /\ LinkInv /\ FactorsTraceable
  BY <1>2 DEF PlanInv, LinkInv, FactorsTraceable, OwnRows
<1>5. ScoreInv
  BY <1>1, <1>2 DEF ScoreInv
<1>6. ScoresRebuilt
  BY <1>1, <1>2 DEF ScoresRebuilt, RebuiltScore, NoScore
<1>7. AnalysesRebuilt
  BY <1>1, <1>2 DEF AnalysesRebuilt, RebuiltEntry, NoEntry
<1>. QED BY <1>1, <1>3, <1>4, <1>5, <1>6, <1>7 DEF HistInv

\* A rebuild depends on the scores ...
LEMMA SameScores ==
    ASSUME UNCHANGED scores PROVE \A tf : RebuiltScore(tf)' = RebuiltScore(tf)
BY DEF RebuiltScore, PreviousComposite

\* ... and on the results, and on nothing else.
LEMMA SameRows ==
    ASSUME UNCHANGED rows PROVE \A r : RebuiltEntry(r)' = RebuiltEntry(r)
BY DEF RebuiltEntry, LatestByRun

\* A step that writes no results or scores leaves links and what is on show.
LEMMA StoreStands ==
    ASSUME HistInv, UNCHANGED storeVars
    PROVE  LinkInv' /\ FactorsTraceable' /\ ScoresRebuilt' /\ AnalysesRebuilt'
           /\ current' = [r \in Refs |-> current'[r]]
<1>1. UNCHANGED <<rows, current, scores, shown>>
  BY DEF storeVars
<1>2. LinkInv' /\ FactorsTraceable' /\ current' = [r \in Refs |-> current'[r]]
  BY <1>1 DEF HistInv, LinkInv, FactorsTraceable, Root
<1>3. ScoresRebuilt'
  BY <1>1, SameScores DEF HistInv, ScoresRebuilt, ScoredInOrder
<1>4. AnalysesRebuilt'
  BY <1>1, SameRows DEF HistInv, AnalysesRebuilt, InOrder
<1>. QED BY <1>2, <1>3, <1>4

\* The inputs and their parameters may change at any time.
LEMMA InputsStep ==
    ASSUME Inv, HistInv, UNCHANGED <<runVars, storeVars>>
    PROVE  HistInv'
<1>1. LinkInv' /\ FactorsTraceable' /\ ScoresRebuilt' /\ AnalysesRebuilt'
           /\ current' = [r \in Refs |-> current'[r]]
  BY StoreStands
<1>2. UNCHANGED <<created, pending, run, todo, toScore, rows, current, scores, shown>>
  BY DEF runVars, storeVars
<1>3. RunsInv' /\ PlanInv' /\ ScoreInv'
  BY <1>2 DEF HistInv, RunsInv, PlanInv, ScoreInv, OwnRows
<1>. QED BY <1>1, <1>3 DEF HistInv

\* A new run is none of those that have results.
LEMMA CreateStep == ASSUME Inv, HistInv, CreateRun PROVE HistInv'
<1>1. LinkInv' /\ FactorsTraceable' /\ ScoresRebuilt' /\ AnalysesRebuilt'
           /\ current' = [r \in Refs |-> current'[r]]
  BY StoreStands DEF CreateRun
<1>2. /\ UNCHANGED <<run, todo, toScore, rows, current, scores, shown>>
      /\ created' = created + 1 /\ pending' = pending \cup {created + 1}
  BY DEF CreateRun, storeVars
<1>3. PlanInv' /\ ScoreInv'
  BY <1>2 DEF HistInv, PlanInv, ScoreInv, OwnRows
<1>4. RunsInv'
  <2>1. created \in Nat
    BY DEF Inv, Typed
  <2>2. /\ \A x \in 1..created : x \in 1..(created + 1) /\ x # created + 1
        /\ \A x \in 0..created : x \in 0..(created + 1) /\ x # created + 1
        /\ created + 1 \in 1..(created + 1)
    BY <2>1
  <2>. QED BY <1>2, <2>2 DEF HistInv, RunsInv
<1>. QED BY <1>1, <1>3, <1>4 DEF HistInv

\* A run that starts has no results yet, so its plan is all it has to do.
LEMMA StartStep == ASSUME Inv, HistInv, NEW r \in pending, StartRun(r) PROVE HistInv'
<1>1. LinkInv' /\ FactorsTraceable' /\ ScoresRebuilt' /\ AnalysesRebuilt'
           /\ current' = [x \in Refs |-> current'[x]]
  BY StoreStands DEF StartRun
<1>2. /\ UNCHANGED <<rows, scores, shown, created>>
      /\ run' = r /\ pending' = pending \ {r}
      /\ todo' = Plan(day) \/ todo' = <<>>
      /\ toScore' = TFs \/ toScore' = <<>>
  BY DEF StartRun, storeVars
<1>3. RunsInv'
  <2>1. r \in 1..created /\ created \in Nat
    BY DEF HistInv, RunsInv, Inv, Typed
  <2>2. r # 0 /\ r \in 0..created
    BY <2>1
  <2>. QED BY <1>2, <2>2 DEF HistInv, RunsInv
<1>4. /\ \A i \in 1..Len(rows) : rows[i].run # r
      /\ \A n \in 1..Len(scores) : scores[n].run # r
  BY DEF HistInv, RunsInv
<1>5. PlanInv'
  <2>1. \A a, b \in 1..Len(todo') : todo'[a].key = todo'[b].key /\ todo'[a].key # "indicator" => a = b
    <3>1. day \in Sessions
      BY DEF Inv, Typed
    <3>2. CASE todo' = <<>>
      BY <3>2
    <3>3. CASE todo' = Plan(day)
      BY <3>1, <3>3, PlanOnce
    <3>. QED BY <1>2, <3>2, <3>3
  <2>2. OwnRows' = {}
    BY <1>2, <1>4 DEF OwnRows
  <2>. QED BY <1>2, <2>1, <2>2 DEF HistInv, PlanInv
<1>6. ScoreInv'
  <2>1. TFs \in Seq(Timeframes)
    BY HistoryAssumption DEF Timeframes
  <2>2. toScore' \in Seq(Timeframes) /\ \A a, b \in 1..Len(toScore') : toScore'[a] = toScore'[b] => a = b
    <3>1. CASE toScore' = TFs
      BY <2>1, <3>1, HistoryAssumption
    <3>2. CASE toScore' = <<>>
      BY <3>2
    <3>. QED BY <1>2, <3>1, <3>2
  <2>. QED BY <1>2, <1>4, <2>2 DEF HistInv, ScoreInv
<1>. QED BY <1>1, <1>3, <1>5, <1>6 DEF HistInv

\* A run may end, or leave what it had still to do.
LEMMA StopStep ==
    ASSUME Inv, HistInv, UNCHANGED storeVars, UNCHANGED <<created, pending>>, todo' = <<>>, toScore' = <<>>,
           run' = run \/ run' = 0
    PROVE  HistInv'
<1>1. LinkInv' /\ FactorsTraceable' /\ ScoresRebuilt' /\ AnalysesRebuilt'
           /\ current' = [x \in Refs |-> current'[x]]
  BY StoreStands
<1>2. UNCHANGED <<rows, scores, shown>>
  BY DEF storeVars
<1>3. RunsInv'
  BY <1>2 DEF HistInv, RunsInv, Inv, Typed
<1>4. PlanInv'
  BY <1>2 DEF HistInv, PlanInv
<1>5. ScoreInv'
  BY <1>2 DEF HistInv, ScoreInv
<1>. QED BY <1>1, <1>3, <1>4, <1>5 DEF HistInv

\* A rebuild shows what a rebuild derives.
LEMMA RebuildStep == ASSUME Inv, HistInv, Rebuild PROVE HistInv'
<1>1. /\ UNCHANGED <<rows, scores, created, pending, run, todo, toScore>>
      /\ current' = [r \in Refs |-> RebuiltEntry(r)]
      /\ shown' = [tf \in Timeframes |-> RebuiltScore(tf)]
  BY DEF Rebuild, runVars
<1>2. RunsInv' /\ PlanInv' /\ ScoreInv' /\ LinkInv' /\ FactorsTraceable'
  BY <1>1 DEF HistInv, RunsInv, PlanInv, ScoreInv, OwnRows, LinkInv, FactorsTraceable, Root
<1>3. \A tf \in Timeframes : RebuiltScore(tf)' = RebuiltScore(tf)
  BY <1>1, SameScores
<1>4. \A r \in Refs : RebuiltEntry(r)' = RebuiltEntry(r)
  BY <1>1, SameRows
<1>5. ScoresRebuilt' /\ AnalysesRebuilt' /\ current' = [r \in Refs |-> current'[r]]
  BY <1>1, <1>3, <1>4 DEF ScoresRebuilt, AnalysesRebuilt
<1>. QED BY <1>2, <1>5 DEF HistInv

-----------------------------------------------------------------------------
(* Analyses on show. *)

\* LatestByRun and RebuiltEntry over any results.
LatestIn(R, s) == CHOOSE i \in 1..Len(R) :
    /\ R[i].slot = s
    /\ \A j \in 1..Len(R) : R[j].slot = s => R[j].run < R[i].run \/ (R[j].run = R[i].run /\ j <= i)
Filled(R, r) == {s \in Slots : Ref(s) = r /\ \E i \in 1..Len(R) : R[i].slot = s}
First(F) == CHOOSE s \in F : \A t \in F : s = t \/ s.at < t.at
EntryRow(R, r) == IF Filled(R, r) = {} THEN 0 ELSE LatestIn(R, First(Filled(R, r)))

\* Which of the model's are theirs over the results there are.
LEMMA EntryRowIs ==
    \A r : RebuiltEntry(r).row = EntryRow(rows, r) /\ RebuiltEntry(r)'.row = EntryRow(rows', r)
BY DEF RebuiltEntry, LatestByRun, EntryRow, Filled, First, LatestIn, NoEntry

\* A result appended while runs go in order is the latest of its slot, and
\* leaves the latest of the other slots.
LEMMA AnalyzeStep == ASSUME Inv, HistInv, Analyze PROVE HistInv'
<1> DEFINE s == Head(todo)
           m == Len(rows) + 1
<1>1. PICK row, shows :
        /\ rows' = Append(rows, row) /\ row.run = run /\ row.slot = s
        /\ current' = [current EXCEPT ![Ref(s)] = [row |-> m, shows |-> shows]]
  BY DEF Analyze, Write, CarriedRow, ComputedRow
<1>2. /\ todo # <<>> /\ todo' = Tail(todo)
      /\ UNCHANGED <<scores, shown, created, pending, run, toScore>>
  BY DEF Analyze
<1>3. /\ s \in Slots /\ s = todo[1] /\ 1 \in 1..Len(todo)
      /\ \A a \in 1..Len(todo') : a + 1 \in 1..Len(todo) /\ a + 1 # 1 /\ todo'[a] = todo[a + 1]
  BY <1>2, TailFacts DEF Inv, Typed
<1>4. /\ m - 1 = Len(rows) /\ m \in Nat /\ Len(rows') = m
      /\ \A i \in 1..Len(rows) : rows'[i] = rows[i] /\ i \in 1..Len(rows') /\ i # m /\ ~(m <= i)
      /\ rows'[m] = row /\ m \in 1..Len(rows')
      /\ \A i \in 1..Len(rows') : i \in 1..Len(rows) \/ i = m
  BY <1>1, AppendFacts DEF Inv, Typed
<1> HIDE DEF m, s
<1>5. RunsInv'
  <2>1. run \in (1..created) \ pending /\ run # 0
    BY <1>2 DEF HistInv, RunsInv, Inv, Typed
  <2>. QED BY <2>1, <1>1, <1>2, <1>4 DEF HistInv, RunsInv
<1>6. PlanInv'
  <2>1. \A a, b \in 1..Len(todo') : todo'[a].key = todo'[b].key /\ todo'[a].key # "indicator" => a = b
    <3> SUFFICES ASSUME NEW a \in 1..Len(todo'), NEW b \in 1..Len(todo'),
                        todo'[a].key = todo'[b].key, todo'[a].key # "indicator"
                 PROVE  a = b
      OBVIOUS
    <3>1. a + 1 = b + 1
      BY <1>3 DEF HistInv, PlanInv
    <3>. QED BY <3>1
  <2>2. ASSUME NEW i \in OwnRows', NEW a \in 1..Len(todo'), rows'[i].slot.key = todo'[a].key
        PROVE  todo'[a].key = "indicator"
    <3>1. CASE i = m
      BY <3>1, <2>2, <1>1, <1>3, <1>4 DEF HistInv, PlanInv
    <3>2. CASE i # m
      <4>1. i \in OwnRows /\ rows'[i] = rows[i]
        BY <3>2, <1>2, <1>4 DEF OwnRows
      <4>. QED BY <4>1, <2>2, <1>3 DEF HistInv, PlanInv
    <3>. QED BY <3>1, <3>2
  <2>3. ASSUME NEW i \in 1..Len(rows), rows[i].run = run, rows[i].slot.key = s.key PROVE s.key = "indicator"
    BY <2>3, <1>3 DEF HistInv, PlanInv, OwnRows
  <2>4. ASSUME NEW i \in 1..Len(rows'), NEW j \in 1..Len(rows'),
               rows'[i].run = rows'[j].run, rows'[i].slot.key = rows'[j].slot.key, rows'[i].slot.key # "indicator"
        PROVE  i = j
    <3>1. CASE i # m /\ j # m
      BY <3>1, <2>4, <1>4 DEF HistInv, PlanInv
    <3>2. CASE i = m /\ j # m
      BY <3>2, <2>4, <2>3, <1>1, <1>4
    <3>3. CASE i # m /\ j = m
      BY <3>3, <2>4, <2>3, <1>1, <1>4
    <3>. QED BY <3>1, <3>2, <3>3
  <2>. QED BY <2>1, <2>2, <2>4 DEF PlanInv
<1>7. ScoreInv' /\ LinkInv'
  BY <1>2, <1>4 DEF HistInv, ScoreInv, LinkInv
<1>8. ScoresRebuilt'
  BY <1>2, SameScores DEF HistInv, ScoresRebuilt, ScoredInOrder
<1>9. FactorsTraceable'
  <2>1. ASSUME NEW i \in 1..Len(rows) PROVE Root(i)' = Root(i) /\ rows'[Root(i)] = rows[Root(i)]
    <3>1. CASE rows[i].carried
      <4>1. rows[i].from \in 1..(i - 1) /\ Root(i) = rows[i].from
        BY <3>1 DEF Inv, CarriedFromRoot, Root
      <4>2. rows[i].from \in 1..Len(rows)
        BY <4>1, <1>4
      <4>. QED BY <4>1, <4>2, <3>1, <1>4 DEF Root
    <3>2. CASE ~rows[i].carried
      BY <3>2, <1>4 DEF Root
    <3>. QED BY <3>1, <3>2
  <2> SUFFICES ASSUME NEW n \in 1..Len(scores), NEW f \in scores[n].factors
               PROVE  /\ f.link # 0 /\ rows'[f.link].run = scores[n].run
                      /\ rows'[f.link].slot.key = f.slot.key
                      /\ f.slot.key # "indicator" => rows'[Root(f.link)'].rev = f.used
    BY <1>2 DEF FactorsTraceable
  <2>2. f.link \in 1..Len(rows)
    BY DEF HistInv, LinkInv
  <2>. QED BY <2>1, <2>2, <1>4 DEF HistInv, FactorsTraceable
<1>10. current' = [r \in Refs |-> current'[r]] /\ Ref(s) \in Refs /\ current'[Ref(s)].row = m
       /\ \A r \in Refs : r # Ref(s) => current'[r] = current[r]
  BY <1>1, <1>3 DEF HistInv, Refs
<1>11. AnalysesRebuilt'
  <2> SUFFICES ASSUME InOrder', NEW r \in Refs, r[2] # "SESSION"
               PROVE  current'[r].row = RebuiltEntry(r)'.row
    BY DEF AnalysesRebuilt
  <2>1. InOrder /\ \A j \in 1..Len(rows) : rows[j].run <= run
    <3>1. \A j \in 1..Len(rows) : j < m
      BY <1>4
    <3>. QED BY <3>1, <1>1, <1>4 DEF InOrder
  <2> DEFINE F == Filled(rows, r)
             G == Filled(rows', r)
  <2>2. /\ RebuiltEntry(r)'.row = IF G = {} THEN 0 ELSE LatestIn(rows', First(G))
        /\ RebuiltEntry(r).row = IF F = {} THEN 0 ELSE LatestIn(rows, First(F))
    BY EntryRowIs DEF EntryRow
  <2>3. \A t, u \in Slots : Ref(t) = r /\ Ref(u) = r => t = u
    <3> SUFFICES ASSUME NEW t \in Slots, NEW u \in Slots, Ref(t) = r, Ref(u) = r PROVE t = u
      OBVIOUS
    <3>1. t.key = u.key /\ t.key # "market_profile" /\ t.at = u.at
      BY DEF Ref
    <3>2. t = [key |-> t.key, at |-> t.at] /\ u = [key |-> u.key, at |-> u.at]
      BY DEF Slots
    <3>. QED BY <3>1, <3>2
  <2>4. CASE r # Ref(s)
    <3>1. \A t \in Slots : Ref(t) = r => t # s
      BY <2>4
    <3>2. \A t \in Slots : Ref(t) = r =>
             ((\E i \in 1..Len(rows') : rows'[i].slot = t) <=> (\E i \in 1..Len(rows) : rows[i].slot = t))
      BY <3>1, <1>1, <1>4
    <3>3. F = G
      BY <3>2 DEF Filled
    <3>4. ASSUME NEW t \in F PROVE LatestIn(rows', t) = LatestIn(rows, t)
      <4> DEFINE P(i) == /\ i \in 1..Len(rows) /\ rows[i].slot = t
                         /\ \A j \in 1..Len(rows) : rows[j].slot = t =>
                              rows[j].run < rows[i].run \/ (rows[j].run = rows[i].run /\ j <= i)
                 Q(i) == /\ i \in 1..Len(rows') /\ rows'[i].slot = t
                         /\ \A j \in 1..Len(rows') : rows'[j].slot = t =>
                              rows'[j].run < rows'[i].run \/ (rows'[j].run = rows'[i].run /\ j <= i)
      <4>1. t # s
        BY <3>1 DEF Filled
      <4>2. \A i : P(i) <=> Q(i)
        BY <4>1, <1>1, <1>4
      <4>3. LatestIn(rows, t) = CHOOSE i : P(i)
        BY DEF LatestIn
      <4>4. LatestIn(rows', t) = CHOOSE i : Q(i)
        BY DEF LatestIn
      <4> HIDE DEF P, Q
      <4>5. (CHOOSE i : P(i)) = (CHOOSE i : Q(i))
        BY <4>2, Zenon
      <4>. QED BY <4>3, <4>4, <4>5
    <3>5. \A t, u \in F : t = u
      BY <2>3 DEF Filled
    <3> HIDE DEF F, G
    <3>6. F # {} => First(F) \in F
      BY <3>5 DEF First
    <3>7. RebuiltEntry(r)'.row = RebuiltEntry(r).row
      BY <2>2, <3>3, <3>4, <3>6
    <3>8. current'[r] = current[r] /\ current[r].row = RebuiltEntry(r).row
      BY <1>10, <2>1, <2>4 DEF HistInv, AnalysesRebuilt
    <3>. QED BY <3>7, <3>8
  <2>5. CASE r = Ref(s)
    <3>1. s \in G
      BY <2>5, <1>1, <1>3, <1>4 DEF Filled
    <3>2. G = {s}
      BY <3>1, <2>3 DEF Filled
    <3> HIDE DEF G
    <3>3. First(G) = s /\ G # {}
      BY <3>2 DEF First
    <3>4. LatestIn(rows', s) = m
      <4> DEFINE Q(i) == /\ i \in 1..Len(rows') /\ rows'[i].slot = s
                         /\ \A j \in 1..Len(rows') : rows'[j].slot = s =>
                              rows'[j].run < rows'[i].run \/ (rows'[j].run = rows'[i].run /\ j <= i)
      <4>1. run \in Nat /\ \A j \in 1..Len(rows) : rows[j].run \in Nat
        <5>1. \A j \in 1..Len(rows) : rows[j] \in Row
          BY DEF Inv, Typed
        <5>. QED BY <5>1 DEF Inv, Typed, Row
      <4>2. \A j \in 1..Len(rows) : j <= m
        BY <1>4
      <4>3. Q(m)
        BY <4>1, <4>2, <1>1, <1>4, <2>1
      <4>4. ASSUME NEW i, Q(i) PROVE i = m
        <5>1. CASE i \in 1..Len(rows)
          <6>1. rows'[i].run <= run /\ rows'[i].run \in Nat /\ rows'[m].run = run
            BY <5>1, <4>1, <2>1, <1>1, <1>4
          <6>2. run < rows'[i].run \/ m <= i
            BY <4>4, <6>1, <1>1, <1>4
          <6>. QED BY <6>1, <6>2, <5>1, <1>4, <4>1
        <5>. QED BY <5>1, <4>4, <1>4
      <4>5. LatestIn(rows', s) = CHOOSE i : Q(i)
        BY DEF LatestIn
      <4> HIDE DEF Q
      <4>. QED BY <4>3, <4>4, <4>5
    <3>5. RebuiltEntry(r)'.row = m
      BY <2>2, <3>3, <3>4
    <3>. QED BY <2>5, <3>5, <1>10
  <2>. QED BY <2>4, <2>5
<1>. QED BY <1>5, <1>6, <1>7, <1>8, <1>9, <1>10, <1>11 DEF HistInv

-----------------------------------------------------------------------------
(* Scores on show. *)

\* PreviousComposite and RebuiltScore over any scores.
PrevIn(S, tf, r) ==
    LET ids == {i \in 1..Len(S) : S[i].tf = tf /\ S[i].run < r}
    IN  IF ids = {} THEN 0 ELSE CHOOSE i \in ids : \A j \in ids : S[j].run <= S[i].run
IdsIn(S, tf) == {i \in 1..Len(S) : S[i].tf = tf}
BestIn(S, tf) == CHOOSE i \in IdsIn(S, tf) : \A j \in IdsIn(S, tf) : S[j].run <= S[i].run
ScoreIn(S, tf) ==
    IF IdsIn(S, tf) = {} THEN NoScore
    ELSE [score |-> BestIn(S, tf), prev |-> PrevIn(S, tf, S[BestIn(S, tf)].run)]

\* Which of the model's are theirs over the scores there are.
LEMMA ScoreInIs ==
    \A tf : RebuiltScore(tf) = ScoreIn(scores, tf) /\ RebuiltScore(tf)' = ScoreIn(scores', tf)
<1>1. \A tf, r : PreviousComposite(tf, r) = PrevIn(scores, tf, r) /\ PreviousComposite(tf, r)' = PrevIn(scores', tf, r)
  BY DEF PreviousComposite, PrevIn
<1>2. \A tf : RebuiltScore(tf) = ScoreIn(scores, tf)
  BY <1>1 DEF RebuiltScore, ScoreIn, IdsIn, BestIn
<1>3. \A tf : RebuiltScore(tf)' = ScoreIn(scores', tf)
  BY <1>1 DEF RebuiltScore, ScoreIn, IdsIn, BestIn
<1>. QED BY <1>2, <1>3

\* Scores have run ids ...
LEMMA RunsTyped ==
    ASSUME NEW S \in Seq(ScoreRow)
    PROVE  \A i \in 1..Len(S) : S[i].run \in Nat
<1>1. \A i \in 1..Len(S) : S[i] \in ScoreRow
  OBVIOUS
<1>. QED BY <1>1 DEF ScoreRow

\* ... so some of them is of the last run ...
LEMMA BestExists ==
    ASSUME NEW S \in Seq(ScoreRow), NEW ids \in SUBSET (1..Len(S)), ids # {},
           NEW r \in Nat, \A i \in ids : S[i].run <= r
    PROVE  \E i \in ids : \A j \in ids : S[j].run <= S[i].run
<1> DEFINE T == {S[i].run : i \in ids}
<1>1. T \in SUBSET Int /\ T # {} /\ \A x \in T : x <= r
  <2>1. \A i \in ids : S[i].run \in Int
    BY RunsTyped
  <2>. QED BY <2>1
<1>2. r \in Int
  OBVIOUS
<1>3. PICK x \in T : \A y \in T : y <= x
  <2> HIDE DEF T
  <2>. QED BY <1>1, <1>2, Greatest
<1>. QED BY <1>3

\* ... and the previous score of a timeframe is one, or none.
LEMMA PrevTyped ==
    ASSUME NEW S \in Seq(ScoreRow), NEW tf, NEW r \in Nat
    PROVE  PrevIn(S, tf, r) \in Nat
<1> DEFINE ids == {i \in 1..Len(S) : S[i].tf = tf /\ S[i].run < r}
<1>1. ids \in SUBSET (1..Len(S)) /\ \A i \in ids : S[i].run <= r
  BY RunsTyped
<1>2. PrevIn(S, tf, r) = IF ids = {} THEN 0 ELSE CHOOSE i \in ids : \A j \in ids : S[j].run <= S[i].run
  BY DEF PrevIn
<1>3. \A i \in ids : i \in Nat
  OBVIOUS
<1> HIDE DEF ids
<1>4. ids # {} => \E i \in ids : \A j \in ids : S[j].run <= S[i].run
  BY <1>1, BestExists, Zenon
<1>5. ids # {} => (CHOOSE i \in ids : \A j \in ids : S[j].run <= S[i].run) \in Nat
  BY <1>3, <1>4, Zenon
<1>6. CASE ids = {}
  BY <1>2, <1>6
<1>7. CASE ids # {}
  <2>1. PrevIn(S, tf, r) = CHOOSE i \in ids : \A j \in ids : S[j].run <= S[i].run
    BY <1>2, <1>7, Zenon
  <2>. QED BY <2>1, <1>5, <1>7, Zenon
<1>. QED BY <1>6, <1>7

\* A score appended by the last run is the one a rebuild shows, over the score
\* that was the last before it; other timeframes stand.
LEMMA AppendScore ==
    ASSUME NEW S \in Seq(ScoreRow), NEW x \in ScoreRow,
           \A j \in 1..Len(S) : S[j].run <= x.run,
           \A j \in 1..Len(S) : S[j].tf = x.tf => S[j].run # x.run
    PROVE  LET T == Append(S, x) IN
           /\ ScoreIn(T, x.tf) = [score |-> Len(S) + 1, prev |-> PrevIn(S, x.tf, x.run)]
           /\ \A tf : tf # x.tf => ScoreIn(T, tf) = ScoreIn(S, tf)
<1> DEFINE T == Append(S, x)
           m == Len(S) + 1
<1>1. /\ Len(S) \in Nat /\ Len(T) = m
      /\ \A i \in 1..Len(S) : T[i] = S[i] /\ i \in 1..Len(T) /\ i # m
      /\ T[m] = x /\ m \in 1..Len(T)
      /\ \A i \in 1..Len(T) : i \in 1..Len(S) \/ i = m
  BY AppendFacts
<1>2. x.run \in Nat /\ \A i \in 1..Len(S) : S[i].run \in Nat
  BY RunsTyped DEF ScoreRow
<1> HIDE DEF T, m
<1>3. ASSUME NEW tf, NEW r \in Nat, r <= x.run PROVE PrevIn(T, tf, r) = PrevIn(S, tf, r)
  <2>1. {i \in 1..Len(T) : T[i].tf = tf /\ T[i].run < r} = {i \in 1..Len(S) : S[i].tf = tf /\ S[i].run < r}
    BY <1>1, <1>2, <1>3
  <2> DEFINE ids == {i \in 1..Len(S) : S[i].tf = tf /\ S[i].run < r}
             ids2 == {i \in 1..Len(T) : T[i].tf = tf /\ T[i].run < r}
  <2>2. \A i \in ids : T[i].run = S[i].run
    BY <1>1
  <2>3. (CHOOSE i \in ids : \A j \in ids : T[j].run <= T[i].run) = (CHOOSE i \in ids : \A j \in ids : S[j].run <= S[i].run)
    <3> HIDE DEF ids
    <3>. QED BY <2>2
  <2>4. PrevIn(T, tf, r) = IF ids2 = {} THEN 0 ELSE CHOOSE i \in ids2 : \A j \in ids2 : T[j].run <= T[i].run
    BY DEF PrevIn
  <2>5. PrevIn(S, tf, r) = IF ids = {} THEN 0 ELSE CHOOSE i \in ids : \A j \in ids : S[j].run <= S[i].run
    BY DEF PrevIn
  <2>6. ids2 = ids
    BY <2>1
  <2> HIDE DEF ids, ids2
  <2>7. PrevIn(T, tf, r) = IF ids = {} THEN 0 ELSE CHOOSE i \in ids : \A j \in ids : T[j].run <= T[i].run
    BY <2>4, <2>6, Zenon
  <2>8. CASE ids = {}
    <3>1. PrevIn(T, tf, r) = 0
      BY <2>7, <2>8, Zenon
    <3>2. PrevIn(S, tf, r) = 0
      BY <2>5, <2>8, Zenon
    <3>. QED BY <3>1, <3>2, Zenon
  <2>9. CASE ids # {}
    <3>1. PrevIn(T, tf, r) = CHOOSE i \in ids : \A j \in ids : T[j].run <= T[i].run
      BY <2>7, <2>9, Zenon
    <3>2. PrevIn(S, tf, r) = CHOOSE i \in ids : \A j \in ids : S[j].run <= S[i].run
      BY <2>5, <2>9, Zenon
    <3>. QED BY <2>3, <3>1, <3>2, Zenon
  <2>. QED BY <2>8, <2>9
<1>4. ScoreIn(T, x.tf) = [score |-> m, prev |-> PrevIn(S, x.tf, x.run)]
  <2>1. m \in IdsIn(T, x.tf) /\ \A j \in IdsIn(T, x.tf) : T[j].run <= T[m].run /\ (T[m].run <= T[j].run => j = m)
    BY <1>1, <1>2 DEF IdsIn
  <2>2. BestIn(T, x.tf) = m
    BY <2>1 DEF BestIn
  <2>3. PrevIn(T, x.tf, x.run) = PrevIn(S, x.tf, x.run)
    BY <1>2, <1>3
  <2>. QED BY <1>1, <2>1, <2>2, <2>3 DEF ScoreIn
<1>5. ASSUME NEW tf, tf # x.tf PROVE ScoreIn(T, tf) = ScoreIn(S, tf)
  <2> DEFINE ids == IdsIn(S, tf)
  <2>1. IdsIn(T, tf) = ids
    BY <1>1, <1>5 DEF IdsIn
  <2>2. \A i \in ids : i \in 1..Len(S) /\ T[i] = S[i]
    BY <1>1 DEF IdsIn
  <2> HIDE DEF ids
  <2>3. BestIn(T, tf) = BestIn(S, tf)
    BY <2>1, <2>2 DEF BestIn, ids
  <2>4. ids # {} => BestIn(S, tf) \in ids
    <3>1. \A i \in ids : S[i].run <= x.run
      BY <2>2
    <3>2. ids \in SUBSET (1..Len(S))
      BY <2>2
    <3>3. ids # {} => \E i \in ids : \A j \in ids : S[j].run <= S[i].run
      BY <3>1, <3>2, <1>2, BestExists
    <3>. QED BY <3>3 DEF BestIn, ids
  <2>5. ids # {} => PrevIn(T, tf, T[BestIn(T, tf)].run) = PrevIn(S, tf, S[BestIn(S, tf)].run)
    BY <2>2, <2>3, <2>4, <1>2, <1>3
  <2>. QED BY <2>1, <2>3, <2>5 DEF ScoreIn, ids
<1>. QED BY <1>4, <1>5 DEF T, m

\* A score is linked to results of its own run, and is the one to show.
LEMMA ScoreStep == ASSUME Inv, HistInv, Score PROVE HistInv'
<1> DEFINE tf == Head(toScore)
           m == Len(scores) + 1
           factor(i, link) == [slot |-> rows[i].slot, used |-> rows[Root(i)].rev,
                               row |-> i, link |-> link[rows[i].slot.key]]
           Score1(link) == [run |-> run, tf |-> tf, prev |-> PreviousComposite(tf, run),
                            factors |-> {factor(i, link) : i \in FactorRows(tf)}]
<1>1. PICK link \in [Keys -> UNION {LinkOf(k) : k \in Keys} \cup {0}] :
        /\ \A k \in Keys : IF LinkOf(k) = {} THEN link[k] = 0 ELSE link[k] \in LinkOf(k)
        /\ scores' = Append(scores, Score1(link))
        /\ shown' = [shown EXCEPT ![tf] = [score |-> m, prev |-> PreviousComposite(tf, run)]]
  BY DEF Score
<1> DEFINE x == Score1(link)
<1>2. /\ toScore # <<>> /\ toScore' = Tail(toScore)
      /\ UNCHANGED <<rows, current, created, pending, run, todo>>
  BY DEF Score
<1>3. /\ tf \in Timeframes /\ tf = toScore[1] /\ 1 \in 1..Len(toScore) /\ toScore' \in Seq(Timeframes)
      /\ \A a \in 1..Len(toScore') : a + 1 \in 1..Len(toScore) /\ a + 1 # 1 /\ toScore'[a] = toScore[a + 1]
  BY <1>2, TailFacts DEF HistInv, ScoreInv
<1>4. run \in (1..created) \ pending /\ run \in Nat
  BY <1>2 DEF HistInv, RunsInv, Inv, Typed
<1>5. ASSUME NEW i \in 1..Len(rows)
      PROVE  Root(i) \in 1..Len(rows) /\ rows[i] \in Row /\ rows[i].slot \in Slots
             /\ rows[i].slot.key \in Keys /\ rows[Root(i)].rev \in Nat
  <2>1. \A j \in 1..Len(rows) : rows[j] \in Row
    BY DEF Inv, Typed
  <2>2. Root(i) \in 1..Len(rows)
    <3>1. CASE rows[i].carried
      <4>1. rows[i].from \in 1..(i - 1) /\ Root(i) = rows[i].from
        BY <3>1 DEF Inv, CarriedFromRoot, Root
      <4>2. Len(rows) \in Nat
        BY DEF Inv, Typed
      <4>. QED BY <4>1, <4>2
    <3>2. CASE ~rows[i].carried
      BY <3>2 DEF Root
    <3>. QED BY <3>1, <3>2
  <2>. QED BY <2>1, <2>2, SlotKeys DEF Row
<1>6. \A f \in x.factors : \E i \in OwnRows :
         f = factor(i, link) /\ rows[i].slot.key \in Keys /\ f.link \in LinkOf(rows[i].slot.key)
  <2>1. \A i \in FactorRows(tf) : i \in OwnRows /\ i \in 1..Len(rows)
    BY DEF FactorRows, OwnRows
  <2>2. \A i \in FactorRows(tf) : link[rows[i].slot.key] \in LinkOf(rows[i].slot.key)
    <3> SUFFICES ASSUME NEW i \in FactorRows(tf) PROVE link[rows[i].slot.key] \in LinkOf(rows[i].slot.key)
      OBVIOUS
    <3>1. i \in LinkOf(rows[i].slot.key) /\ rows[i].slot.key \in Keys
      BY <2>1, <1>5 DEF LinkOf
    <3>. QED BY <3>1, <1>1
  <2>. QED BY <2>1, <2>2, <1>5
<1>7. \A k : \A i \in LinkOf(k) : i \in OwnRows /\ i \in 1..Len(rows) /\ rows[i].run = run /\ rows[i].slot.key = k
  BY DEF LinkOf, OwnRows
<1>8. \A f \in x.factors :
         /\ f.link \in 1..Len(rows) /\ f.link # 0 /\ rows[f.link].run = run /\ rows[f.link].slot.key = f.slot.key
         /\ f.slot.key # "indicator" => rows[Root(f.link)].rev = f.used
         /\ f \in Factor
  <2> SUFFICES ASSUME NEW f \in x.factors, NEW i \in OwnRows,
                      f = factor(i, link), rows[i].slot.key \in Keys, f.link \in LinkOf(rows[i].slot.key)
               PROVE  /\ f.link \in 1..Len(rows) /\ f.link # 0 /\ rows[f.link].run = run /\ rows[f.link].slot.key = f.slot.key
                      /\ f.slot.key # "indicator" => rows[Root(f.link)].rev = f.used
                      /\ f \in Factor
    BY <1>6
  <2>1. f.slot = rows[i].slot /\ f.used = rows[Root(i)].rev
    OBVIOUS
  <2>2. i \in 1..Len(rows) /\ rows[i].run = run
    BY DEF OwnRows
  <2>3. f.slot.key # "indicator" => f.link = i
    BY <2>1, <2>2, <1>7 DEF HistInv, PlanInv
  <2>4. f \in Factor
    <3>1. f.link \in Nat /\ i \in Nat /\ rows[i].slot \in Slots /\ rows[Root(i)].rev \in Nat
      BY <2>2, <1>5, <1>7
    <3>2. f = [slot |-> rows[i].slot, used |-> rows[Root(i)].rev, row |-> i, link |-> f.link]
      OBVIOUS
    <3>. QED BY <3>1, <3>2 DEF Factor
  <2>5. f.link \in 1..Len(rows) /\ f.link # 0
    BY <1>7
  <2>. QED BY <2>1, <2>3, <2>4, <2>5, <1>7
<1>9. x.run = run /\ x.tf = tf
  OBVIOUS
<1>10. x \in ScoreRow
  <2>1. PreviousComposite(tf, run) \in Nat
    BY <1>4, PrevTyped DEF HistInv, ScoreInv, PreviousComposite, PrevIn
  <2>2. x.factors \in SUBSET Factor
    BY <1>8
  <2>3. x = [run |-> run, tf |-> tf, prev |-> PreviousComposite(tf, run), factors |-> x.factors]
    OBVIOUS
  <2>. QED BY <2>1, <2>2, <2>3, <1>3, <1>4 DEF ScoreRow
<1>11. shown' = [shown EXCEPT ![tf] = [score |-> m, prev |-> PrevIn(scores, tf, run)]]
  BY <1>1 DEF PreviousComposite, PrevIn
<1>12. scores' = Append(scores, x) /\ scores \in Seq(ScoreRow)
  BY <1>1 DEF HistInv, ScoreInv
<1> HIDE DEF x, tf, m
<1>13. /\ Len(scores) \in Nat /\ Len(scores') = m /\ scores' \in Seq(ScoreRow)
       /\ \A n \in 1..Len(scores) : scores'[n] = scores[n] /\ n \in 1..Len(scores') /\ n # m /\ ~(m <= n)
       /\ scores'[m] = x /\ m \in 1..Len(scores')
       /\ \A n \in 1..Len(scores') : n \in 1..Len(scores) \/ n = m
  BY <1>10, <1>12, AppendFacts DEF m
<1>14. RunsInv' /\ PlanInv'
  BY <1>2, <1>4, <1>9, <1>13 DEF HistInv, RunsInv, PlanInv, OwnRows
<1>15. \A n \in 1..Len(scores) : scores[n].run = run => scores[n].tf # tf
  BY <1>3 DEF HistInv, ScoreInv
<1>16. ScoreInv'
  <2>1. \A a, b \in 1..Len(toScore') : toScore'[a] = toScore'[b] => a = b
    <3> SUFFICES ASSUME NEW a \in 1..Len(toScore'), NEW b \in 1..Len(toScore'), toScore'[a] = toScore'[b]
                 PROVE  a = b
      OBVIOUS
    <3>1. a + 1 = b + 1
      BY <1>3 DEF HistInv, ScoreInv
    <3>. QED BY <3>1
  <2>2. \A a \in 1..Len(toScore') : toScore'[a] # tf
    <3>1. \A a, b \in 1..Len(toScore) : toScore[a] = toScore[b] => a = b
      BY DEF HistInv, ScoreInv
    <3>. QED BY <1>3, <3>1
  <2>3. \A n \in 1..Len(scores'), a \in 1..Len(toScore') : scores'[n].run = run' => toScore'[a] # scores'[n].tf
    <3> SUFFICES ASSUME NEW n \in 1..Len(scores'), NEW a \in 1..Len(toScore'), scores'[n].run = run
                 PROVE  toScore'[a] # scores'[n].tf
      BY <1>2
    <3>1. CASE n = m
      BY <3>1, <2>2, <1>9, <1>13
    <3>2. CASE n # m
      <4>1. n \in 1..Len(scores) /\ scores'[n] = scores[n]
        BY <3>2, <1>13
      <4>2. a + 1 \in 1..Len(toScore) /\ toScore'[a] = toScore[a + 1]
        BY <1>3
      <4>. QED BY <4>1, <4>2 DEF HistInv, ScoreInv
    <3>. QED BY <3>1, <3>2
  <2>4. \A n, k \in 1..Len(scores') : scores'[n].run = scores'[k].run /\ scores'[n].tf = scores'[k].tf => n = k
    <3> SUFFICES ASSUME NEW n \in 1..Len(scores'), NEW k \in 1..Len(scores'),
                        scores'[n].run = scores'[k].run, scores'[n].tf = scores'[k].tf
                 PROVE  n = k
      OBVIOUS
    <3>1. CASE n # m /\ k # m
      BY <3>1, <1>13 DEF HistInv, ScoreInv
    <3>2. CASE n = m /\ k # m
      BY <3>2, <1>9, <1>13, <1>15
    <3>3. CASE n # m /\ k = m
      BY <3>3, <1>9, <1>13, <1>15
    <3>. QED BY <3>1, <3>2, <3>3
  <2>5. shown' = [t \in Timeframes |-> shown'[t]]
    BY <1>11 DEF HistInv, ScoreInv
  <2>. QED BY <2>1, <2>3, <2>4, <2>5, <1>3, <1>13 DEF ScoreInv
<1>17. LinkInv' /\ FactorsTraceable'
  <2>1. \A n \in 1..Len(scores') : \A f \in scores'[n].factors :
          /\ f.link \in 1..Len(rows) /\ f.link # 0 /\ rows[f.link].run = scores'[n].run
          /\ rows[f.link].slot.key = f.slot.key
          /\ f.slot.key # "indicator" => rows[Root(f.link)].rev = f.used
    BY <1>8, <1>9, <1>13 DEF HistInv, LinkInv, FactorsTraceable
  <2>. QED BY <2>1, <1>2 DEF LinkInv, FactorsTraceable, Root
<1>18. ScoresRebuilt'
  <2> SUFFICES ASSUME ScoredInOrder', NEW t \in Timeframes PROVE shown'[t] = RebuiltScore(t)'
    BY DEF ScoresRebuilt
  <2>1. ScoredInOrder /\ \A n \in 1..Len(scores) : scores[n].run <= run
    <3>1. \A n \in 1..Len(scores) : n < m
      BY <1>13 DEF m
    <3>. QED BY <3>1, <1>9, <1>13 DEF ScoredInOrder
  <2>2. /\ ScoreIn(scores', tf) = [score |-> m, prev |-> PrevIn(scores, tf, run)]
        /\ t # tf => ScoreIn(scores', t) = ScoreIn(scores, t)
    BY <2>1, <1>9, <1>10, <1>12, <1>15, AppendScore DEF m
  <2>3. shown[t] = ScoreIn(scores, t)
    BY <2>1, ScoreInIs DEF HistInv, ScoresRebuilt
  <2>4. shown'[t] = IF t = tf THEN [score |-> m, prev |-> PrevIn(scores, tf, run)] ELSE shown[t]
    BY <1>11 DEF HistInv, ScoreInv
  <2>5. RebuiltScore(t)' = ScoreIn(scores', t)
    BY ScoreInIs
  <2>6. CASE t = tf
    BY <2>2, <2>4, <2>5, <2>6
  <2>7. CASE t # tf
    BY <2>2, <2>3, <2>4, <2>5, <2>7
  <2>. QED BY <2>6, <2>7
<1>19. AnalysesRebuilt' /\ current' = [r \in Refs |-> current'[r]]
  BY <1>2, SameRows DEF HistInv, AnalysesRebuilt, InOrder
<1>. QED BY <1>14, <1>16, <1>17, <1>18, <1>19 DEF HistInv

-----------------------------------------------------------------------------
\* Every step keeps the invariant.
LEMMA HistStep == Inv /\ HistInv /\ [Next]_vars => HistInv'
<1> SUFFICES ASSUME Inv, HistInv, [Next]_vars PROVE HistInv'
  OBVIOUS
<1>1. ASSUME NEW s \in Slots, NewBar(s) \/ FormingMoves(s) \/ Restate(s) \/ MinuteOfOI(s) PROVE HistInv'
  BY <1>1, InputsStep DEF NewBar, FormingMoves, Restate, MinuteOfOI, Change
<1>2. ASSUME NEW k \in Keys, NewParams(k) PROVE HistInv'
  BY <1>2, InputsStep DEF NewParams
<1>3. CASE NextDay \/ SessionCloses
  BY <1>3, InputsStep DEF NextDay, SessionCloses
<1>4. ASSUME NEW r \in pending, StartRun(r) PROVE HistInv'
  BY <1>4, StartStep
<1>5. CASE AnalyzeFails
  BY <1>5, StopStep DEF AnalyzeFails
<1>6. CASE FinishRun
  BY <1>6, StopStep DEF FinishRun
<1>7. CASE UNCHANGED vars
  BY <1>7, InputsStep DEF vars
<1>. QED BY <1>1, <1>2, <1>3, <1>4, <1>5, <1>6, <1>7, CreateStep, AnalyzeStep, ScoreStep, RebuildStep DEF Next

LEMMA HistCorrect == Spec => []HistInv
BY HistInit, HistStep, InvCorrect, PTL DEF Spec

\* Every factor of a score leads to a result of the score's own run and of the
\* factor's analysis, and but for indicators to the payload that was used.
THEOREM FactorsHold == Spec => []FactorsTraceable
<1>1. HistInv => FactorsTraceable
  BY DEF HistInv
<1>. QED BY <1>1, HistCorrect, PTL

\* As long as runs are executed in order, the scores on show and the changes
\* they show are the ones rebuild-projections derives.
THEOREM ScoresHold == Spec => []ScoresRebuilt
<1>1. HistInv => ScoresRebuilt
  BY DEF HistInv
<1>. QED BY <1>1, HistCorrect, PTL

\* And so are the results on show, of the analyses of a timeframe.
THEOREM AnalysesHold == Spec => []AnalysesRebuilt
<1>1. HistInv => AnalysesRebuilt
  BY DEF HistInv
<1>. QED BY <1>1, HistCorrect, PTL
=============================================================================
