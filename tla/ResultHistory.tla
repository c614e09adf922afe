---------------------------- MODULE ResultHistory ----------------------------
(***************************************************************************)
(* What cycles write about one instrument, and what they read of it again: *)
(* the history (analysis_results, signal_scores), the recompute guard that *)
(* carries an older result, the current_* projections, the links from a    *)
(* score's factors to results, and the rebuild of the projections.         *)
(*                                                                         *)
(* A slot is an analysis and its scope_key: an indicator at a timeframe,   *)
(* open interest at D1, the market profile of a session.  An input is      *)
(* abstracted to the time and finality of its last bar, and a revision of  *)
(* its content; inputs of different slots change independently.  The       *)
(* engine of the market profile is also given the time, against the close, *)
(* and the profile of the prior session.                                   *)
(***************************************************************************)
EXTENDS Integers, Sequences, FiniteSets

CONSTANTS
    TFs,          \* USER_FACING_TIMEFRAMES, a sequence; the last one is D1
    Sessions,     \* the session dates, 1..n
    Requests,     \* the phases runs may be asked for, sets of phases
    MinBars,      \* fewer bars than this are INSUFFICIENT_DATA
    MaxRuns,      \* bound: runs created
    MaxChanges    \* bound: changes of inputs and parameters

ASSUME HistoryAssumption ==
    /\ TFs \in Seq(STRING) /\ TFs # <<>>
    /\ \A i, j \in 1..Len(TFs) : TFs[i] = TFs[j] => i = j
    /\ Sessions \subseteq Nat
    /\ MinBars \in Nat \ {0}

VARIABLES
    data,         \* slot -> its input: [ts, final, rev, fix]
    hash,         \* analysis -> its params_hash (with ALGO_VERSION)
    day,          \* today's session date
    closed,       \* today's session is over by the clock
    rows,         \* analysis_results, by id
    cache,        \* market_profile_sessions: session -> [ts, hash, rev, complete]
    current,      \* current_analysis_results: <<key, scope_ref>> -> [row, shows]
    scores,       \* signal_scores with their score_factors, by id
    shown,        \* current_signal_scores: timeframe -> [score, prev]
    created,      \* the last run id given out
    pending,      \* runs created and not executed yet
    run,          \* the run executing, 0 if none
    todo,         \* its slots still to analyse
    toScore,      \* its timeframes still to score
    changes       \* changes of inputs and parameters so far

inputVars == <<data, hash, day, closed, changes>>
runVars == <<created, pending, run, todo, toScore>>
storeVars == <<rows, cache, current, scores, shown>>
vars == <<inputVars, runVars, storeVars>>

Timeframes == {TFs[i] : i \in 1..Len(TFs)}
D1 == TFs[Len(TFs)]
Keys == {"indicator", "open_interest", "market_profile"}
Slots == [key : {"indicator"}, at : Timeframes] \cup [key : {"open_interest"}, at : {D1}]
             \cup [key : {"market_profile"}, at : Sessions]

\* scope_ref collapses the sessions of a slot.
Ref(s) == <<s.key, IF s.key = "market_profile" THEN "SESSION" ELSE s.at>>
Refs == {Ref(s) : s \in Slots}

\* plan_analyses on a session date.
Plan(d) == [i \in 1..(Len(TFs) + 2) |->
               IF i <= Len(TFs) THEN [key |-> "indicator", at |-> TFs[i]]
               ELSE IF i = Len(TFs) + 1 THEN [key |-> "open_interest", at |-> D1]
               ELSE [key |-> "market_profile", at |-> d]]

NoEntry == [row |-> 0, shows |-> 0]
NoScore == [score |-> 0, prev |-> 0]
NoProfile == [ts |-> 0, hash |-> 0, rev |-> 0, complete |-> FALSE]

Init ==
    /\ data = [s \in Slots |-> [ts |-> 0, final |-> FALSE, rev |-> 0, fix |-> 0]]
    /\ hash = [k \in Keys |-> 0]
    /\ day \in Sessions /\ \A d \in Sessions : day <= d
    /\ rows = <<>> /\ scores = <<>>
    /\ cache = [d \in Sessions |-> NoProfile] /\ closed = FALSE
    /\ current = [r \in Refs |-> NoEntry]
    /\ shown = [tf \in Timeframes |-> NoScore]
    /\ created = 0 /\ pending = {} /\ run = 0
    /\ todo = <<>> /\ toScore = <<>> /\ changes = 0

-----------------------------------------------------------------------------
(* The inputs, as ingestion and the stream write them. *)

Change(s, d) == /\ changes < MaxChanges
                /\ s.key = "market_profile" => s.at = day
                /\ data' = [data EXCEPT ![s] = d]
                /\ changes' = changes + 1
                /\ UNCHANGED <<hash, day, closed, runVars, storeVars>>

\* A later bar appears, forming or complete.
NewBar(s) == \E f \in BOOLEAN :
    Change(s, [data[s] EXCEPT !.ts = @ + 1, !.final = f, !.rev = @ + 1])

\* The forming bar moves, or completes.
FormingMoves(s) == /\ data[s].ts > 0 /\ ~data[s].final
                   /\ \E f \in BOOLEAN : Change(s, [data[s] EXCEPT !.final = f, !.rev = @ + 1])

\* The repair pass fetches the last complete bars again and finds them
\* changed, or fills a gap before them.
Restate(s) == /\ data[s].ts > 0
              /\ Change(s, [data[s] EXCEPT !.rev = @ + 1, !.fix = @ + 1])

\* A later one-minute observation of open interest: the daily point keeps its
\* time stamp, the date, and takes the minute's value and finality.
MinuteOfOI(s) == /\ s.key = "open_interest" /\ data[s].ts > 0
                 /\ \E f \in BOOLEAN : Change(s, [data[s] EXCEPT !.final = f, !.rev = @ + 1])

\* Other parameters: a release, or for the market profile a PATCH /config.
NewParams(k) == /\ changes < MaxChanges
                /\ hash' = [hash EXCEPT ![k] = @ + 1]
                /\ changes' = changes + 1
                /\ UNCHANGED <<data, day, closed, runVars, storeVars>>

\* A run goes by the time it began to analyse (now), so the close passes
\* between runs.
SessionCloses == /\ run = 0 /\ ~closed
                 /\ closed' = TRUE
                 /\ UNCHANGED <<data, hash, day, changes, runVars, storeVars>>

NextDay == /\ run = 0
           /\ day' \in Sessions /\ day' = day + 1 /\ closed' = FALSE
           /\ UNCHANGED <<data, hash, changes, runVars, storeVars>>

-----------------------------------------------------------------------------
(* Runs: created under the lock, executed later, each alone. *)

\* create_pending_run; a POST leaves the execution to a background task.
CreateRun == /\ run = 0 /\ created < MaxRuns
             /\ created' = created + 1 /\ pending' = pending \cup {created + 1}
             /\ UNCHANGED <<run, todo, toScore, inputVars, storeVars>>

\* run_cycle on a pending run, with the phases it was asked for.
StartRun(r) == /\ run = 0 /\ r \in pending
               /\ run' = r /\ pending' = pending \ {r}
               /\ \E phases \in Requests :
                     /\ todo' = IF "ANALYZE" \in phases THEN Plan(day) ELSE <<>>
                     /\ toScore' = IF "SCORE" \in phases THEN TFs ELSE <<>>
               /\ UNCHANGED <<created, inputVars, storeVars>>

\* i is the latest result of a slot.
IsLatest(i, s) == /\ i \in 1..Len(rows) /\ rows[i].slot = s
                  /\ \A j \in 1..Len(rows) : rows[j].slot = s => j <= i

\* The result that holds the payload.  last_fingerprint walks on while it
\* meets carried rows; by CarriedFromRoot one step is enough.
Root(i) == IF rows[i].carried THEN rows[i].from ELSE i

\* The cached profile is of the same last bar and parameters.
CacheHit(s) == cache[s.at].ts = data[s].ts /\ cache[s.at].hash = hash[s.key]

\* Slip: a result over a forming bar may be carried.
CarriesForming(s, i) ==
    /\ data[s].ts >= IF s.key = "indicator" THEN 1 ELSE MinBars
    /\ IsLatest(i, s)
    /\ IF s.key = "market_profile"
       THEN CacheHit(s)
       ELSE data[s].final
    /\ rows[i].hash = hash[s.key]
    /\ rows[i].end = data[s].ts

\* _carry, and the conditions under which it is tried.
Carries(s, i) ==
    /\ data[s].ts >= IF s.key = "indicator" THEN 1 ELSE MinBars
    /\ IsLatest(i, s)
    /\ IF s.key = "market_profile"
       THEN CacheHit(s)
       ELSE data[s].final
    /\ rows[Root(i)].final
    /\ rows[i].hash = hash[s.key]
    /\ rows[i].end = data[s].ts

\* get_prior_session: of the earlier sessions' profiles the latest that is
\* complete, if any; the other analyses read none.
PriorOf(s) ==
    LET complete == {e \in Sessions : s.key = "market_profile" /\ e < s.at /\ cache[e].complete}
    IN  {[session |-> e, profile |-> cache[e]] : e \in {d \in complete : \A c \in complete : c <= d}}

\* Slip: a carry refers to the row before it, carried or not.
CarriedRowFromLast(s, i) == [run |-> run, slot |-> s, status |-> "OK", carried |-> TRUE,
                  from |-> i, end |-> data[s].ts, final |-> FALSE,
                  hash |-> hash[s.key], rev |-> data[s].rev, fix |-> data[s].fix, prior |-> PriorOf(s)]

\* The light row of _carry; rev, fix and prior say what the engine would have
\* been given.
CarriedRow(s, i) == [run |-> run, slot |-> s, status |-> "OK", carried |-> TRUE,
                  from |-> Root(i), end |-> data[s].ts, final |-> FALSE,
                  hash |-> hash[s.key], rev |-> data[s].rev, fix |-> data[s].fix, prior |-> PriorOf(s)]

\* What the engine makes of the input: no window without enough data.
ComputedRow(s) ==
    [run |-> run, slot |-> s, status |-> IF data[s].ts >= MinBars THEN "OK" ELSE "INSUFFICIENT_DATA",
     carried |-> FALSE, from |-> 0, end |-> IF data[s].ts >= MinBars THEN data[s].ts ELSE 0,
     final |-> data[s].final,
     hash |-> hash[s.key], rev |-> data[s].rev, fix |-> data[s].fix, prior |-> PriorOf(s)]

\* upsert_result and upsert_current_analysis: the summary shows the payload.
Write(row, payload) ==
    /\ rows' = Append(rows, row)
    /\ current' = [current EXCEPT ![Ref(row.slot)] = [row |-> Len(rows) + 1, shows |-> payload]]

\* _one: the next planned analysis is carried or computed.
Analyze ==
    /\ todo # <<>>
    /\ LET s == Head(todo)
       IN  \/ /\ \E i \in 1..Len(rows) :
                    Carries(s, i) /\ Write(CarriedRow(s, i), rows[Root(i)].rev)
              /\ UNCHANGED cache
           \/ /\ \A i \in 1..Len(rows) : ~Carries(s, i)
              /\ Write(ComputedRow(s), data[s].rev)
              /\ cache' = IF s.key = "market_profile" /\ data[s].ts >= MinBars
                          THEN [cache EXCEPT ![s.at] = [ts |-> data[s].ts, hash |-> hash[s.key],
                                                        rev |-> data[s].rev, complete |-> closed]]
                          ELSE cache
    /\ todo' = Tail(todo)
    /\ UNCHANGED <<scores, shown, created, pending, run, toScore, inputVars>>

\* An engine error: the instrument is not scored, its earlier rows stay.
AnalyzeFails == /\ todo # <<>>
                /\ todo' = <<>> /\ toScore' = <<>>
                /\ UNCHANGED <<created, pending, run, inputVars, storeVars>>

\* list_run_results.
OwnRows == {i \in 1..Len(rows) : rows[i].run = run}

\* The rows a score at tf uses, with the payload that carries lead to.
FactorRows(tf) == {i \in OwnRows : /\ rows[i].status = "OK"
                                   /\ rows[i].slot.key = "indicator" => rows[i].slot.at = tf}

\* Slip: a factor is linked to the row that holds its payload.
LinkToRoot(k) == {Root(i) : i \in {j \in OwnRows : rows[j].slot.key = k}}

\* result_id_by_key keeps one row of each analysis, of whichever timeframe:
\* the query has no order.
LinkOf(k) == {i \in OwnRows : rows[i].slot.key = k}

\* Slip: the run's own score counts as the previous one.
PreviousOrOwnComposite(tf, r) ==
    LET ids == {i \in 1..Len(scores) : scores[i].tf = tf /\ scores[i].run <= r}
    IN  IF ids = {} THEN 0 ELSE CHOOSE i \in ids : \A j \in ids : scores[j].run <= scores[i].run

\* The last score of a lower run id; 0 if there is none.
PreviousComposite(tf, r) ==
    LET ids == {i \in 1..Len(scores) : scores[i].tf = tf /\ scores[i].run < r}
    IN  IF ids = {} THEN 0 ELSE CHOOSE i \in ids : \A j \in ids : scores[j].run <= scores[i].run

\* _score_one.
Score ==
    /\ todo = <<>> /\ toScore # <<>>
    /\ LET tf == Head(toScore)
           factor(i, link) == [slot |-> rows[i].slot, used |-> rows[Root(i)].rev,
                               row |-> i, link |-> link[rows[i].slot.key]]
       IN  \E link \in [Keys -> UNION {LinkOf(k) : k \in Keys} \cup {0}] :
              /\ \A k \in Keys : IF LinkOf(k) = {} THEN link[k] = 0 ELSE link[k] \in LinkOf(k)
              /\ scores' = Append(scores, [run |-> run, tf |-> tf, prev |-> PreviousComposite(tf, run),
                                           factors |-> {factor(i, link) : i \in FactorRows(tf)}])
              /\ shown' = [shown EXCEPT ![tf] = [score |-> Len(scores) + 1, prev |-> PreviousComposite(tf, run)]]
    /\ toScore' = Tail(toScore)
    /\ UNCHANGED <<rows, cache, current, created, pending, run, todo, inputVars>>

FinishRun == /\ run # 0 /\ todo = <<>> /\ toScore = <<>>
             /\ run' = 0
             /\ UNCHANGED <<created, pending, todo, toScore, inputVars, storeVars>>

-----------------------------------------------------------------------------
(* rebuild-projections. *)

\* Slip: ordered upwards.
EarliestByRun(s) == CHOOSE i \in 1..Len(rows) :
    /\ rows[i].slot = s
    /\ \A j \in 1..Len(rows) : rows[j].slot = s =>
          rows[i].run < rows[j].run \/ (rows[j].run = rows[i].run /\ i <= j)

\* The latest row of a slot by run, then id.
LatestByRun(s) == CHOOSE i \in 1..Len(rows) :
    /\ rows[i].slot = s
    /\ \A j \in 1..Len(rows) : rows[j].slot = s =>
          rows[j].run < rows[i].run \/ (rows[j].run = rows[i].run /\ j <= i)

\* Of the scope_keys that share a scope_ref the first in their order is
\* inserted, and the later ones do nothing.
RebuiltEntry(ref) ==
    LET filled == {s \in Slots : Ref(s) = ref /\ \E i \in 1..Len(rows) : rows[i].slot = s}
        first == CHOOSE s \in filled : \A t \in filled : s = t \/ s.at < t.at
        row == LatestByRun(first)
    IN  IF filled = {} THEN NoEntry
        ELSE [row |-> row, shows |-> IF rows[row].carried THEN -1 ELSE rows[row].rev]

RebuiltScore(tf) ==
    LET ids == {i \in 1..Len(scores) : scores[i].tf = tf}
        best == CHOOSE i \in ids : \A j \in ids : scores[j].run <= scores[i].run
    IN  IF ids = {} THEN NoScore
        ELSE [score |-> best, prev |-> PreviousComposite(tf, scores[best].run)]

Rebuild == /\ run = 0
           /\ current' = [r \in Refs |-> RebuiltEntry(r)]
           /\ shown' = [tf \in Timeframes |-> RebuiltScore(tf)]
           /\ UNCHANGED <<rows, cache, scores, inputVars, runVars>>

Next == \/ \E s \in Slots : NewBar(s) \/ FormingMoves(s) \/ Restate(s) \/ MinuteOfOI(s)
        \/ \E k \in Keys : NewParams(k)
        \/ SessionCloses \/ NextDay \/ CreateRun
        \/ \E r \in pending : StartRun(r)
        \/ Analyze \/ AnalyzeFails \/ Score \/ FinishRun \/ Rebuild

Spec == Init /\ [][Next]_vars

-----------------------------------------------------------------------------
\* A carried row names a computed result, of the same slot and parameters,
\* with data, over a window that ends at the same bar: carrying never chains,
\* never revives a result of other parameters or one without data.
CarriedFromRoot == \A i \in 1..Len(rows) : rows[i].carried =>
    /\ rows[i].from \in 1..(i - 1)
    /\ LET root == rows[rows[i].from]
       IN  /\ ~root.carried /\ root.status = "OK" /\ root.final
           /\ root.slot = rows[i].slot /\ root.hash = rows[i].hash /\ root.end = rows[i].end

\* Unless complete bars were changed in between, a carried indicator or
\* profile comes of the input the engine would be given now
\* (docs/02-ARCHITECTURE.md, recompute guard): of the same bars and, for a
\* profile, of the same prior session with the same profile.  The clock is
\* excepted: see ClosedProfileCompleted.
CarryIsFresh == \A i \in 1..Len(rows) :
    rows[i].carried /\ rows[i].slot.key # "open_interest" =>
        LET root == rows[rows[i].from]
        IN  root.fix = rows[i].fix => root.rev = rows[i].rev /\ root.prior = rows[i].prior

\* Every factor of a score leads to a result of the score's own run, of the
\* factor's analysis, and in effect to the payload it was computed from.
FactorsTraceable == \A n \in 1..Len(scores) : \A f \in scores[n].factors :
    /\ f.link # 0 /\ rows[f.link].run = scores[n].run
    /\ rows[f.link].slot.key = f.slot.key
    /\ f.slot.key # "indicator" => rows[Root(f.link)].rev = f.used

InOrder == \A i, j \in 1..Len(rows) : i < j => rows[i].run <= rows[j].run
ScoredInOrder == \A i, j \in 1..Len(scores) : i < j => scores[i].run <= scores[j].run

\* As long as runs execute in the order they were created, the scores on
\* show, and the change they show, are the ones a rebuild derives.
ScoresRebuilt == ScoredInOrder => \A tf \in Timeframes : shown[tf] = RebuiltScore(tf)

\* And so are the results on show, of the analyses of a timeframe.
AnalysesRebuilt == InOrder => \A r \in Refs :
    r[2] # "SESSION" => current[r].row = RebuiltEntry(r).row

\* docs/03-DATABASE.md:331: analysis_result_id is the exact provenance.
LinksExact == \A n \in 1..Len(scores) : \A f \in scores[n].factors : f.link = f.row

\* docs/09-TESTING.md:145: rebuild-projections reproduces current_*; the
\* scores, whatever the order of the runs.
RebuildKeepsScores == \A tf \in Timeframes : shown[tf] = RebuiltScore(tf)

\* The same of the session scope.
RebuildKeepsSession == InOrder => \A r \in Refs : r[2] = "SESSION" => current[r].row = RebuiltEntry(r).row

\* The same of the summaries.
RebuildKeepsSummaries == InOrder => \A r \in Refs : current[r].row = RebuiltEntry(r).row => current[r] = RebuiltEntry(r)

\* docs/09-TESTING.md:91: an advanced bar recomputes open interest.
AdvancedOIRecomputed == \A i \in 1..Len(rows) :
    rows[i].carried /\ rows[i].slot.key = "open_interest" =>
        LET root == rows[rows[i].from]
        IN  root.fix = rows[i].fix => root.rev = rows[i].rev

\* docs/14-MARKET-PROFILE-EVENTS.md:166: the prior profile used today is the one
\* frozen at yesterday's close.  So a run after the close leaves a profile that
\* is complete.
ClosedProfileCompleted == [][
    Analyze /\ Head(todo).key = "market_profile" /\ closed /\ rows'[Len(rows')].status = "OK" =>
        cache'[day].complete]_vars

\* docs/05-ANALYSIS-ENGINE.md:1026: a profile is recomputed when its bars
\* were ingested anew.
ReingestedRecomputed == \A i \in 1..Len(rows) :
    rows[i].carried /\ rows[i].slot.key = "market_profile" =>
        rows[rows[i].from].rev = rows[i].rev
=============================================================================
