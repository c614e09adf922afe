---------------------------- MODULE ProfileEvents ----------------------------
(***************************************************************************)
(* The event layer of the market profile (analytical_core/market_profile/  *)
(* events.py) and its sessions: bars print, cycles rebuild today's row of  *)
(* market_profile_sessions, and the next day reads the last complete row   *)
(* as its prior profile.                                                   *)
(*                                                                         *)
(* A row is a function of the bars that were there and of the clock, so it *)
(* is stored as the pair of them.  Evidence and metadata of an event are   *)
(* kept where a later decision or a property reads them.                   *)
(***************************************************************************)
EXTENDS MarketProfile

CONSTANTS
    Brackets,          \* accept_brackets
    AcceptPct, ShiftPct, OverlapPct,
    OneSidedPct, TwoSidedPct,          \* ib_ext_one_sided_x, ib_ext_two_sided_x
    PoorTpo, ExcessMin,
    DriftMin, DriftPct, Atr,          \* Atr = 0: none
    OneTfPct, TrendWidthPct, TrendIbPct, NormalIbPct, DeadPct, EdgePct,
    NoPrior, NoRow,
    Prints,            \* of a day: the bars that may print, [open, high, low, close, vol]
    PrintSlots,        \* slots in which a bar may print
    Delay              \* bound: slots a bar may come late

Days == DOMAIN Prints

ASSUME EventAssumption ==
    /\ Brackets \in Nat /\ AcceptPct \in Nat
    /\ ShiftPct \in 0..100 /\ OverlapPct \in Nat \ {0}
    /\ DeadPct \in Nat /\ OneSidedPct \in Nat /\ DeadPct <= OneSidedPct
    /\ Prints \in Seq(SUBSET [open : Int, low : Int, high : Int, close : Int, vol : Nat])
    /\ Prints # <<>> /\ \A d \in Days : \A b \in Prints[d] : b.low <= b.high
    /\ PrintSlots \subseteq 0..SessionLen /\ Delay \in Nat

VARIABLES day, slot, bars, row, prior
vars == <<day, slot, bars, row, prior>>

Beyond(dir, x, level) == IF dir = "UP" THEN x > level ELSE x < level
Full(dir) == IF dir = "UP" THEN "ABOVE_FULL" ELSE "BELOW_FULL"
Opposite(dir) == IF dir = "UP" THEN "DOWN" ELSE "UP"

-----------------------------------------------------------------------------
(* Facts                                                                    *)

\* _rel_to_level: most of a bracket's bins beyond a level, with a tolerance of
\* half a bin.
RelToLevel(low, high, level) ==
    LET bins == OverlappedBins(low, high)
        n == Cardinality(bins)
        above == Cardinality({b \in bins : 2 * b * Bin > 2 * level + Bin})
        below == Cardinality({b \in bins : 2 * b * Bin < 2 * level - Bin})
    IN  CASE 100 * above >= AcceptPct * n -> "ABOVE_FULL"
          [] 100 * above < AcceptPct * n /\ 100 * below >= AcceptPct * n -> "BELOW_FULL"
          [] OTHER -> IF low < level /\ level < high THEN "SPANNING"
                      ELSE IF above > 0 THEN "ABOVE_PARTIAL"
                      ELSE IF below > 0 THEN "BELOW_PARTIAL" ELSE "SPANNING"

\* Slip: the extremes of the range and of the value are confused.
PriorLevelSwapped(pr, name) ==
    CASE name = "prev_vah" -> pr.high [] name = "prev_val" -> pr.low
      [] name = "prev_high" -> pr.vah [] name = "prev_low" -> pr.val

\* The prior profile's levels a bracket is related to.
PriorLevel(pr, name) ==
    CASE name = "prev_vah" -> pr.vah [] name = "prev_val" -> pr.val
      [] name = "prev_high" -> pr.high [] name = "prev_low" -> pr.low

\* Slip: the developing profile of a bracket is built from all bars there are.
SliceOfAll(series, p) == Restrict(series, DOMAIN series)

\* The bars up to the close of a bracket, _slice_series.
Slice(series, p) == Restrict(series, {i \in DOMAIN series : series[i].ts < Periods[p].end})

\* The profile as of the close of a bracket.
Developing(sliced, p) == IF DOMAIN sliced = {} THEN NoProfile ELSE BuildProfile("TPO", sliced, p)

\* The snapshot of a bracket, compute_facts.
Snapshot(sliced, p, pr, dev) ==
    LET own == Restrict(sliced, {i \in DOMAIN sliced : sliced[i].ts >= Periods[p].start})
        missing == DOMAIN own = {}
        high == IF missing THEN dev.high ELSE Max(Highs(own))
        low == IF missing THEN dev.low ELSE Min(Lows(own))
        ib == dev.ibHigh # NoPrice /\ p > IbPeriods
        names == (IF pr = NoPrior THEN {} ELSE {"prev_vah", "prev_val", "prev_high", "prev_low"})
                 \cup (IF ib THEN {"ib_high", "ib_low"} ELSE {})
        level(name) == CASE name = "ib_high" -> dev.ibHigh [] name = "ib_low" -> dev.ibLow
                         [] OTHER -> PriorLevel(pr, name)
    IN  [high |-> high, low |-> low, close |-> IF missing THEN dev.close ELSE LastOf(own).close,
         dev |-> dev, missing |-> missing,
         rel |-> [name \in names |-> RelToLevel(low, high, level(name))]]

\* Those of the brackets closed by now that have a profile, by the bracket.
Snapshots(series, now, pr) ==
    LET closed == {p \in DOMAIN Periods : Periods[p].end <= now}
        dev == [p \in closed |-> Developing(Slice(series, p), p)]
    IN  [p \in {p \in closed : dev[p] # NoProfile} |-> Snapshot(Slice(series, p), p, pr, dev[p])]

\* _structural_from_bins of a profile: the single prints from an extreme inwards,
\* and what they make of it.
Structure(prof) ==
    LET metric == prof.metric
        bins == DOMAIN metric
        lowRun == Cardinality({b \in bins : \A c \in bins : c <= b => metric[c] = 1})
        highRun == Cardinality({b \in bins : \A c \in bins : c >= b => metric[c] = 1})
    IN  [lowRun |-> lowRun, highRun |-> highRun,
         excessLow |-> lowRun >= ExcessMin, excessHigh |-> highRun >= ExcessMin,
         poorLow |-> lowRun < ExcessMin /\ metric[Min(bins)] > PoorTpo,
         poorHigh |-> highRun < ExcessMin /\ metric[Max(bins)] > PoorTpo,
         parts |-> 1 + Cardinality(Valleys(metric)),
         thin |-> 100 * Cardinality({b \in bins : metric[b] <= 1}) >= 45 * Cardinality(bins)]

\* compute_facts: the structure is that of the final profile, or of the latest
\* developing one.
FactsOf(snaps, complete, final, pr) ==
    LET shown == IF snaps # <<>> /\ ~complete THEN LastOf(snaps).dev ELSE final
    IN  [snaps |-> snaps, complete |-> complete, final |-> final, prior |-> pr,
         structure |-> IF shown = NoProfile THEN NoProfile ELSE Structure(shown),
         prof |-> IF final # NoProfile THEN final ELSE shown]
Facts(series, now, pr) ==
    FactsOf(Snapshots(series, now, pr), now >= SessionLen,
            IF now >= SessionLen THEN BuildProfile("TPO", series, Len(Periods)) ELSE NoProfile, pr)

-----------------------------------------------------------------------------
(* The acceptance machine                                                   *)

\* MPEvent.transition: no entry for the state the history already ends in.
Transition(e, state, at) ==
    IF e.hist # <<>> /\ Last(e.hist).state = state THEN e
    ELSE [e EXCEPT !.state = state, !.hist = Append(@, [state |-> state, at |-> at])]

Partial == {"ABOVE_PARTIAL", "BELOW_PARTIAL", "SPANNING"}
InValue(s) == s.dev.val <= s.close /\ s.close <= s.dev.vah

\* One bracket that is full beyond the level.
FullStep(e, p, s, dir, level) ==
    LET full == e.full + 1
        begun == IF e.state = "NOT_TRIGGERED" THEN Transition(e, "TRIGGERED", p) ELSE e
        enough == full >= Brackets /\ ~e.accepted
        built == IF enough /\ begun.state \in {"TRIGGERED", "DEVELOPING"}
                 THEN Transition(begun, "DEVELOPING", p) ELSE begun
        edge == IF dir = "UP" THEN s.dev.val ELSE s.dev.vah
        developed == e.developed \/ enough
    IN  IF developed /\ Beyond(dir, edge, level) /\ built.state # "CONFIRMED"
        THEN [Transition(built, "CONFIRMED", p) EXCEPT
                 !.full = full, !.opp = 0, !.developed = TRUE, !.accepted = TRUE, !.strength = "STRONG"]
        ELSE [built EXCEPT !.full = full, !.opp = 0, !.developed = developed]

\* One bracket that is full on the other side: a failed acceptance, or a failed
\* breakout of the extreme of a range, ends the event.
OppositeStep(e, p, s, dir, level, isRange) ==
    LET opp == e.opp + 1
        origin == ~Beyond(dir, s.dev.poc, level)
        fails == \/ (e.developed \/ e.accepted) /\ opp >= 2 /\ origin
                 \/ isRange /\ e.state = "TRIGGERED" /\ InValue(s) /\ origin
    IN  IF fails THEN [Transition(e, "INVALIDATED", p) EXCEPT !.strength = "STRONG", !.done = TRUE]
        ELSE [e EXCEPT !.opp = opp, !.full = 0]

AcceptanceStep(e, p, s, name, dir, level, isRange) ==
    LET rel == s.rel[name]
        probed == IF rel \in Partial /\ e.state = "NOT_TRIGGERED"
                  THEN Transition(e, "TRIGGERED", p) ELSE e
    IN  CASE e.done -> e
          [] ~e.done /\ rel = Full(dir) -> FullStep(probed, p, s, dir, level)
          [] ~e.done /\ rel = Full(Opposite(dir)) -> OppositeStep(probed, p, s, dir, level, isRange)
          [] OTHER -> [probed EXCEPT !.full = 0, !.opp = 0]

NewEvent(id, dir, strength) ==
    [id |-> id, dir |-> dir, state |-> "NOT_TRIGGERED", strength |-> strength, hist |-> <<>>,
     full |-> 0, opp |-> 0, developed |-> FALSE, accepted |-> FALSE, done |-> FALSE]

\* At the close an event that was not accepted expires; the test for a sustained
\* acceptance is behind a state that accepted events have left.
AtClose(f, end) ==
    IF f.prior = NoPrior \/ end.state = "NOT_TRIGGERED" THEN {}
    ELSE IF end.state \in {"TRIGGERED", "DEVELOPING"} /\ f.complete
            /\ ~(end.accepted /\ f.final # NoProfile)
         THEN {Transition(end, "EXPIRED", Max(DOMAIN f.snaps))} ELSE {end}

\* A machine over the brackets.
Over(f, start, step(_, _, _)) ==
    FoldLeft(LAMBDA e, p : IF p \in DOMAIN f.snaps THEN step(e, p, f.snaps[p]) ELSE e,
             start, [p \in 1..Len(Periods) |-> p])

\* _acceptance_event, skipping the brackets that have no relation to the level.
AcceptanceEvent(f, id, name, dir, isRange) ==
    LET level(s) == CASE name = "ib_high" -> s.dev.ibHigh [] name = "ib_low" -> s.dev.ibLow
                      [] OTHER -> PriorLevel(f.prior, name)
        step(e, p, s) == IF name \in DOMAIN s.rel THEN AcceptanceStep(e, p, s, name, dir, level(s), isRange)
                         ELSE e
    IN  AtClose(f, Over(f, NewEvent(id, dir, "WEAK"), step))

\* _rejection_event: a probe, and full on the other side within two brackets.
RejectionEvent(f, id, name, dir) ==
    LET rel(p) == f.snaps[p].rel[name]
        probes == {p \in DOMAIN f.snaps : rel(p) \in Partial \cup {Full(dir)}}
        probe == Min(probes)
        backs == {p \in DOMAIN f.snaps : probe < p /\ p - probe <= 2 /\ rel(p) = Full(Opposite(dir))}
        tailed == IF dir = "UP" THEN f.structure.excessHigh ELSE f.structure.excessLow
        begun == Transition(NewEvent(id, dir, "MODERATE"), "TRIGGERED", probe)
    IN  IF f.prior = NoPrior \/ probes = {} THEN {}
        ELSE IF backs = {} THEN {begun}
        ELSE {[Transition(begun, "CONFIRMED", Min(backs)) EXCEPT
                  !.strength = IF f.structure # NoProfile /\ tailed THEN "STRONG" ELSE @]}

\* _developing_value_outside.
OutsideStep(e, p, s, pr) ==
    LET up == s.dev.val > pr.vah
        down == s.dev.vah < pr.val
        out == [e EXCEPT !.full = @ + 1, !.dir = IF up THEN "UP" ELSE "DOWN"]
    IN  CASE e.done -> e
          [] ~e.done /\ (up \/ down) ->
               IF e.state = "NOT_TRIGGERED" THEN Transition(out, "TRIGGERED", p)
               ELSE IF out.full >= 3 /\ e.state = "TRIGGERED" THEN Transition(out, "DEVELOPING", p)
               ELSE out
          [] OTHER -> IF e.state \in {"TRIGGERED", "DEVELOPING"}
                      THEN [Transition(e, "INVALIDATED", p) EXCEPT !.done = TRUE]
                      ELSE [e EXCEPT !.full = 0]
OutsideEvent(f) ==
    LET end == Over(f, NewEvent("MP-015", "NONE", "STRONG"), LAMBDA e, p, s : OutsideStep(e, p, s, f.prior))
        agrees == IF end.dir = "UP" THEN f.final.val > f.prior.vah ELSE f.final.vah < f.prior.val
    IN  IF f.prior = NoPrior THEN {}
        ELSE CASE end.state = "NOT_TRIGGERED" -> {}
               [] end.state \in {"TRIGGERED", "DEVELOPING"} /\ f.complete /\ f.final # NoProfile ->
                    {Transition(end, IF agrees THEN "CONFIRMED" ELSE "EXPIRED", Max(DOMAIN f.snaps))}
               [] OTHER -> {end}

\* What detect_events says with a history of its own, and what it says anew of
\* the whole session.
Lifecycles(f) ==
    AcceptanceEvent(f, "MP-010", "prev_vah", "UP", FALSE)
    \cup AcceptanceEvent(f, "MP-011", "prev_val", "DOWN", FALSE)
    \cup AcceptanceEvent(f, "MP-016", "prev_high", "UP", TRUE)
    \cup AcceptanceEvent(f, "MP-017", "prev_low", "DOWN", TRUE)
    \cup AcceptanceEvent(f, "MP-019", "ib_high", "UP", TRUE)
    \cup AcceptanceEvent(f, "MP-020", "ib_low", "DOWN", TRUE)
    \cup RejectionEvent(f, "MP-012", "prev_vah", "UP")
    \cup RejectionEvent(f, "MP-013", "prev_val", "DOWN")
    \cup OutsideEvent(f)

-----------------------------------------------------------------------------
(* Readings of the whole session                                            *)

\* MP-001, _opening_facts: where the session opened, to the prior value and range.
Opening(series, pr) ==
    LET open == series[1].open
    IN  CASE pr = NoPrior -> "UNKNOWN"
          [] pr # NoPrior /\ open > pr.high -> "ABOVE_RANGE"
          [] pr # NoPrior /\ open < pr.low -> "BELOW_RANGE"
          [] OTHER -> IF open > pr.vah THEN "ABOVE_VALUE"
                      ELSE IF open < pr.val THEN "BELOW_VALUE" ELSE "INSIDE_VALUE"

\* MP-030, _value_migration_event: direction and topology of today's value.
Overlap(f) == Max({0, Min({f.prof.vah, f.prior.vah}) - Max({f.prof.val, f.prior.val})})
PriorWidth(f) == IF f.prior.vah > f.prior.val THEN f.prior.vah - f.prior.val ELSE Bin
Balanced(f) ==
    100 * Overlap(f) >= OverlapPct * Min({PriorWidth(f), Max({f.prof.vah - f.prof.val, Bin})})
Migration(f) ==
    LET up(d) == 100 * d >= ShiftPct * PriorWidth(f)
        down(d) == 100 * d <= -ShiftPct * PriorWidth(f)
        vah == f.prof.vah - f.prior.vah
        val == f.prof.val - f.prior.val
    IN  CASE Balanced(f) -> "OVERLAP"
          [] ~Balanced(f) /\ up(vah) /\ up(val) -> "UP"
          [] ~Balanced(f) /\ down(vah) /\ down(val) -> "DOWN"
          [] OTHER -> IF up(vah) \/ up(val) THEN "UP_SKEW"
                      ELSE IF down(vah) \/ down(val) THEN "DOWN_SKEW" ELSE "UNCHANGED"
\* Slip: the upper edges of the two value areas are compared.
TopologyByTop(f) ==
    CASE f.prof.vah > f.prior.vah -> "FULLY_ABOVE"
      [] f.prof.vah < f.prior.val -> "FULLY_BELOW"
      [] OTHER -> "OVERLAP_MID"

Topology(f) ==
    LET mid2 == f.prof.vah + f.prof.val
    IN  CASE f.prof.val > f.prior.vah -> "FULLY_ABOVE"
          [] f.prof.vah < f.prior.val -> "FULLY_BELOW"
          [] OTHER -> IF Balanced(f) THEN "BALANCE"
                      ELSE IF Overlap(f) > 0 /\ mid2 > 2 * f.prior.vah THEN "OVERLAP_HIGH"
                      ELSE IF Overlap(f) > 0 /\ mid2 < 2 * f.prior.val THEN "OVERLAP_LOW"
                      ELSE "OVERLAP_MID"

\* MP-040 and MP-041, _poc_events: the migration of the point of control, and its
\* longest run in one direction, the first of the longest.
PocMigration(f) ==
    LET d == f.prof.poc - f.prior.poc
    IN  IF 100 * d >= ShiftPct * PriorWidth(f) THEN "UP"
        ELSE IF 100 * d <= -ShiftPct * PriorWidth(f) THEN "DOWN" ELSE "UNCHANGED"
Drift(f) ==
    LET poc(i) == f.snaps[i].dev.poc
        one(dir, i, j) == \A k \in i..(j - 1) : Beyond(dir, poc(k + 1), poc(k))
        runs == {r \in {"UP", "DOWN"} \X (DOMAIN f.snaps) \X (DOMAIN f.snaps) :
                    r[2] < r[3] /\ one(r[1], r[2], r[3])}
        best == CHOOSE r \in runs : \A q \in runs :
                    r[3] - r[2] > q[3] - q[2] \/ (r[3] - r[2] = q[3] - q[2] /\ r[3] <= q[3])
        net == poc(best[3]) - poc(best[2])
    IN  IF /\ Cardinality(DOMAIN f.snaps) >= DriftMin /\ Atr > 0 /\ runs # {} /\ best[3] - best[2] >= DriftMin
           /\ 100 * (IF net < 0 THEN -net ELSE net) >= DriftPct * Atr
        THEN best[1] ELSE "NONE"

\* MP-051 to MP-053, _ib_events: the initial balance, its breaks and extensions.
IbSnaps(f) == {p \in DOMAIN f.snaps : f.snaps[p].dev.ibHigh # NoPrice}
PostIb(f) == {p \in DOMAIN f.snaps : p > Min(IbSnaps(f))}
IbOf(f) == f.snaps[Min(IbSnaps(f))].dev
IbRange(f) == Max({IbOf(f).ibHigh - IbOf(f).ibLow, Bin})
Broke(f, name, dir) == \E p \in PostIb(f) : f.snaps[p].rel[name] = Full(dir)
Extension(f, dir) ==
    LET dev == LastOf(f.snaps).dev
    IN  IF dev.ibHigh = NoPrice THEN 0
        ELSE IF dir = "UP" THEN Max({0, dev.high - dev.ibHigh}) ELSE Max({0, dev.ibLow - dev.low})
OneSided(f, dir) ==
    /\ 100 * Extension(f, dir) >= OneSidedPct * IbRange(f)
    /\ 100 * Extension(f, Opposite(dir)) < DeadPct * IbRange(f)
Sidedness(f) ==
    CASE OneSided(f, "UP") -> "ONE_SIDED_UP"
      [] ~OneSided(f, "UP") /\ OneSided(f, "DOWN") -> "ONE_SIDED_DOWN"
      [] OTHER ->
           IF \A dir \in {"UP", "DOWN"} : 100 * Extension(f, dir) >= TwoSidedPct * IbRange(f)
           THEN "TWO_SIDED"
           ELSE IF \E dir \in {"UP", "DOWN"} : Extension(f, dir) > 0 THEN "SOME" ELSE "NONE"

\* _one_timeframing: brackets of the longest run of higher lows, or lower highs.
OneTimeframing(f, over, dir) ==
    LET goes(p) == IF dir = "UP" THEN f.snaps[p + 1].low > f.snaps[p].low
                   ELSE f.snaps[p + 1].high < f.snaps[p].high
        runs == {r[2] - r[1] : r \in {r \in over \X over : r[1] < r[2] /\ \A p \in r[1]..(r[2] - 1) : goes(p)}}
    IN  IF runs = {} THEN 0 ELSE Max(runs) + 1

\* MP-110, _tension_events: an acceptance against the drift of the value.
Tension(f) ==
    LET goes(dir) == \E e \in Lifecycles(f) : /\ e.state \in {"DEVELOPING", "CONFIRMED"}
                                              /\ e.id = IF dir = "UP" THEN "MP-010" ELSE "MP-011"
    IN  {dir \in {"UP", "DOWN"} : goes(dir) /\ Drift(f) = Opposite(dir)}

\* MP-060 and MP-061, _narrative_events: how the auction beyond the prior value ended.
OutcomeOf(states) ==
    CASE "CONFIRMED" \in states -> "ACCEPTANCE"
      [] "INVALIDATED" \in states -> "FAILED"
      [] states \cap {"TRIGGERED", "DEVELOPING"} # {} -> "ATTEMPTING"
      [] OTHER -> "NONE"
StatesOf(id, events) == {e.state : e \in {x \in events : x.id = id}}
Outcome(f, dir) == OutcomeOf(StatesOf(IF dir = "UP" THEN "MP-010" ELSE "MP-011", Lifecycles(f)))

\* classify_day_type, in its order of resolution; the trailing ranges are never
\* given, and with them goes LARGE_RANGE.
Trend(f, dir) ==
    LET after == IF IbSnaps(f) = {} THEN {} ELSE PostIb(f)
        range == Max({f.prof.high - f.prof.low, Bin})
        close == IF f.complete THEN f.prof.close ELSE LastOf(f.snaps).close
        mine == OneTimeframing(f, after, dir)
        other == OneTimeframing(f, after, Opposite(dir))
    IN  /\ after # {}
        /\ 100 * mine >= OneTfPct * Cardinality(after) /\ (mine > other \/ (mine = other /\ dir = "UP"))
        /\ 100 * (IbOf(f).ibHigh - IbOf(f).ibLow) <= TrendIbPct * range
        /\ 100 * (f.prof.vah - f.prof.val) <= TrendWidthPct * range
        /\ IF dir = "UP" THEN close >= f.prof.vah ELSE close <= f.prof.val
        /\ OneSided(f, dir)
DayType(f) ==
    LET range == Max({f.prof.high - f.prof.low, Bin})
        close == IF f.complete THEN f.prof.close ELSE LastOf(f.snaps).close
        ib100 == IF IbSnaps(f) = {} THEN 0 ELSE 100 * (IbOf(f).ibHigh - IbOf(f).ibLow)
        neutral == IbSnaps(f) # {} /\ Broke(f, "ib_high", "UP") /\ Broke(f, "ib_low", "DOWN")
        edge == \/ 100 * (close - f.prof.low) <= EdgePct * range
                \/ 100 * (f.prof.high - close) <= EdgePct * range
    IN  CASE Trend(f, "UP") -> "TREND_UP"
          [] ~Trend(f, "UP") /\ Trend(f, "DOWN") -> "TREND_DOWN"
          [] OTHER -> IF f.structure.parts >= 2 THEN "DOUBLE_DISTRIBUTION"
                      ELSE IF neutral THEN IF edge THEN "NEUTRAL_EXTREME" ELSE "NEUTRAL"
                      ELSE IF TrendIbPct * range < ib100 /\ ib100 < NormalIbPct * range
                           THEN "NORMAL_VARIATION"
                      ELSE IF ib100 >= NormalIbPct * range THEN "NORMAL" ELSE "UNDETERMINED"
Silhouette(f) ==
    LET range == Max({f.prof.high - f.prof.low, Bin})
        poc100 == 100 * (f.prof.poc - f.prof.low)
    IN  CASE f.structure.parts >= 2 -> "BIMODAL"
          [] f.structure.parts < 2 /\ f.structure.thin -> "THIN_I"
          [] OTHER -> IF poc100 >= 60 * range /\ f.structure.lowRun >= 2 THEN "P_SHAPE"
                      ELSE IF poc100 <= 40 * range /\ f.structure.highRun >= 2 THEN "B_SHAPE"
                      ELSE "BALANCED_D"

-----------------------------------------------------------------------------
(* The sessions                                                             *)

Init == day = 1 /\ slot = 0 /\ bars = <<>> /\ row = NoRow /\ prior = NoPrior

\* A bar prints in its slot, or comes late.
BarPrints ==
    \E ts \in PrintSlots, b \in Prints[day] :
        /\ slot - Delay <= ts /\ ts <= slot
        /\ \A i \in DOMAIN bars : bars[i].ts < ts
        /\ bars' = Append(bars, [ts |-> ts, open |-> b.open, low |-> b.low, high |-> b.high,
                                 close |-> b.close, vol |-> b.vol])
        /\ UNCHANGED <<day, slot, row, prior>>

Tick == slot < SessionLen /\ slot' = slot + 1 /\ UNCHANGED <<day, bars, row, prior>>

\* _run_market_profile: carried while the last bar is the one of the stored row.
Cycle ==
    /\ Len(bars) >= MinPeriods
    /\ row # NoRow => Last(row.bars).ts # Last(bars).ts
    /\ Profiles(bars, TRUE) # <<>>
    /\ row' = [bars |-> bars, now |-> slot]
    /\ UNCHANGED <<day, slot, bars, prior>>

\* get_prior_session: the levels of the latest complete row before today.
NextDay ==
    /\ slot = SessionLen /\ day + 1 \in Days
    /\ day' = day + 1 /\ slot' = 0 /\ bars' = <<>> /\ row' = NoRow
    /\ prior' = IF row # NoRow /\ row.now >= SessionLen
                THEN LET prof == BuildProfile("TPO", row.bars, Len(Periods))
                     IN  [x \in {"poc", "vah", "val", "high", "low", "close"} |-> prof[x]]
                ELSE prior

Next == BarPrints \/ Tick \/ Cycle \/ NextDay

Spec == Init /\ [][Next]_vars

-----------------------------------------------------------------------------
\* The histories of the events of an id.
EntriesOf(id, events) == UNION {Range(e.hist) : e \in {x \in events : x.id = id}}

\* A cycle has just stored the row.
Fresh == row # NoRow /\ row.bars = bars /\ row.now = slot
Live == Fresh /\ DOMAIN Snapshots(bars, slot, prior) # {}

\* The value area of every profile a cycle builds is one stretch of the printed
\* bins around the point of control; it holds its share of the session, and one
\* expansion less would not.
ValueAreaSound ==
    Fresh => \A prof \in {BuildProfile(kind, bars, Len(Periods)) : kind \in {"TPO", "VOLUME"}} :
        LET inside == {b \in DOMAIN prof.metric : prof.val <= b * Bin /\ b * Bin <= prof.vah}
            share(S) == 100 * SumOf(prof.metric, S)
            target == ValueAreaPct * SumOf(prof.metric, DOMAIN prof.metric)
            top == {b \in inside : Cardinality({c \in inside : c > b}) < Expansion}
            bottom == {b \in inside : Cardinality({c \in inside : c < b}) < Expansion}
        IN  prof # NoProfile =>
                /\ prof.val <= prof.poc /\ prof.poc <= prof.vah
                /\ share(inside) >= target
                /\ \/ prof.val = prof.vah
                   \/ \E cut \in {top, bottom} : share(inside \ cut) < target

\* 14-MARKET-PROFILE-EVENTS.md, 14.8: the events of the facts truncated to a
\* bracket are the prefix of the full run's histories up to it.  What a cycle
\* stored of an event a later cycle of the day only continues.
NoRepaint ==
    [][row # NoRow /\ row' # NoRow /\ row' # row =>
        LET before == Facts(row.bars, row.now, prior)
            after == Facts(bars, slot, prior)
            later == Lifecycles(after)
        IN  \A e \in Lifecycles(before) : \E l \in later : l.id = e.id /\ IsPrefix(e.hist, l.hist)]_vars

\* Of two histories, as sets of entries: the one without confirms only after the one
\* within has decided, and has failed if it was under way when the one within fails.
NestWithin(outer, inner) ==
    /\ \A c \in outer : c.state = "CONFIRMED" =>
           \E d \in inner : d.state \in {"CONFIRMED", "INVALIDATED"} /\ d.at <= c.at
    /\ \A x \in inner, c \in outer :
           x.state = "INVALIDATED" /\ c.state \in {"DEVELOPING", "CONFIRMED"} /\ c.at <= x.at =>
               \E y \in outer : y.state = "INVALIDATED" /\ y.at <= x.at

\* Acceptances nest, prior range (MP-016, MP-017) in prior value (MP-010, MP-011):
\* an acceptance beyond the range is confirmed only when the one beyond the value
\* has been confirmed or has failed; and when the one beyond the value fails, one
\* beyond the range that had developed or been confirmed by then has failed too.
\* One that develops later may still be confirmed beside the failed one, which is
\* done.  The low of the value is the lower edge of a bin and may lie below the low
\* of the range; those of the initial balance (MP-019, MP-020) are not nested in
\* anything.
AcceptancesNest ==
    Live /\ prior # NoPrior =>
        \A events \in {Lifecycles(Facts(bars, slot, prior))},
           ids \in {<<"MP-016", "MP-010">>} \cup (IF prior.low <= prior.val THEN {<<"MP-017", "MP-011">>} ELSE {}) :
            NestWithin(EntriesOf(ids[1], events), EntriesOf(ids[2], events))

\* The readings of a session, each computed on its own from the facts, do not
\* contradict each other: where today's value lies, how it and its point of
\* control have moved, and what the machine of the value outside has seen; an
\* acceptance in tension and its outcome; the opening; the day type, the
\* extensions of the initial balance and the silhouette.
ReadingsAgree ==
    Live =>
        \A f \in {Facts(bars, slot, prior)} :
        /\ prior # NoPrior /\ f.prof # NoProfile =>
             /\ Topology(f) = "FULLY_ABOVE" => Migration(f) \in {"UP", "UP_SKEW"} /\ PocMigration(f) # "DOWN"
             /\ Topology(f) = "FULLY_BELOW" => Migration(f) \in {"DOWN", "DOWN_SKEW"} /\ PocMigration(f) # "UP"
             /\ ~f.complete /\ Topology(f) \in {"FULLY_ABOVE", "FULLY_BELOW"} => StatesOf("MP-015", Lifecycles(f)) # {}
             /\ \A dir \in Tension(f) : Outcome(f, dir) # "NONE"
             /\ Opening(bars, prior) = "ABOVE_RANGE" => bars[1].open > prior.vah
        /\ DayType(f) = "TREND_UP" => Sidedness(f) = "ONE_SIDED_UP"
        /\ DayType(f) = "TREND_DOWN" => Sidedness(f) = "ONE_SIDED_DOWN"
        /\ DayType(f) = "DOUBLE_DISTRIBUTION" => Silhouette(f) = "BIMODAL"
=============================================================================
