-------------------------------- MODULE Cycle --------------------------------
(***************************************************************************)
(* One execution cycle from within: run_cycle (worker/cycle.py) over the   *)
(* tracked instruments, in one session that worker_context commits at the  *)
(* end or not at all.  INGEST fetches with a pool of threads and stores    *)
(* one instrument after the other (ingestion/backfill.py); ANALYZE and     *)
(* SCORE go through the instruments that the phase before found fit.       *)
(*                                                                         *)
(* After a failed statement PostgreSQL refuses every other statement of    *)
(* the transaction, and no handler of the cycle rolls back.                *)
(*                                                                         *)
(* Beside the cycle the live stream writes minutes too, in one transaction *)
(* that it commits in the turn of some later tick (ingestion/stream.py).   *)
(***************************************************************************)
EXTENDS Integers, Sequences, FiniteSets

CONSTANTS
    N,            \* the number of tracked instruments, in the order of list_tracked
    Workers,      \* PROVIDER_CONCURRENCY
    Requests      \* the phases a cycle may be asked for, sets of phases

ASSUME CycleAssumption ==
    /\ N \in Nat \ {0} /\ Workers \in Nat \ {0}
    /\ Requests \subseteq SUBSET {"INGEST", "ANALYZE", "SCORE"}

VARIABLES
    pc,           \* where run_cycle is
    tx,           \* the transaction: "ok", or "aborted" by a failed statement
    requested,    \* phases
    token,        \* the provider's access token: "valid" or "expired"
    fetch,        \* where the fetch of each instrument is
    got,          \* the timeframes it has received
    stored,       \* the timeframes written
    cursor,       \* the instrument the phase comes to next
    eligible,
    outcome,      \* phase -> instrument -> what the phase recorded of it
    phaseRow,     \* run_phase_status
    results,      \* how much of an instrument's plan was analysed
    scored,       \* how many of its timeframes were scored
    held,         \* the instruments of which the stream has written minutes and not committed
    status,       \* analysis_runs.status
    crashed,
    hooks,        \* the statuses reported to run-completed subscribers
    cause         \* what made the transaction fail, for the properties

fetchVars == <<fetch, got>>
workVars == <<stored, results, scored, held>>
recordVars == <<eligible, outcome, phaseRow>>
endVars == <<status, crashed, hooks>>
vars == <<pc, tx, requested, token, cursor, cause, fetchVars, workVars, recordVars, endVars>>

Phases == {"INGEST", "ANALYZE", "SCORE"}
Instruments == 1..N
Parts == {"none", "some", "all"}
Ended == {"committed", "rolledback"}

\* The phase, or the end, that follows.
After(p) == IF p = "start" /\ "INGEST" \in requested THEN "INGEST"
            ELSE IF p \in {"start", "INGEST"} /\ "ANALYZE" \in requested THEN "ANALYZE"
            ELSE IF p \in {"start", "INGEST", "ANALYZE"} /\ "SCORE" \in requested THEN "SCORE"
            ELSE "finalize"

\* Where the body of each phase starts, and where its outcome is recorded.
Body == [INGEST |-> "authenticating", ANALYZE |-> "analyzing", SCORE |-> "scoring"]
Close == [INGEST |-> "ingested", ANALYZE |-> "analyzed", SCORE |-> "scoredAll"]

Init ==
    /\ pc = "start" /\ tx = "ok" /\ cause = "none"
    /\ requested \in Requests
    /\ token \in {"valid", "expired"}
    /\ fetch = [i \in Instruments |-> "queued"]
    /\ got = [i \in Instruments |-> {}]
    /\ stored = [i \in Instruments |-> {}]
    /\ cursor = 1
    /\ eligible = Instruments
    /\ outcome = [p \in Phases |-> [i \in Instruments |-> "NONE"]]
    /\ phaseRow = [p \in Phases |-> "NONE"]
    /\ results = [i \in Instruments |-> "none"]
    /\ scored = [i \in Instruments |-> "none"] /\ held = {}
    /\ status = "RUNNING" /\ crashed = FALSE /\ hooks = <<>>

-----------------------------------------------------------------------------
(* The frame of run_cycle *)

CapabilitiesKnown == /\ pc = "start"
                     /\ pc' = After("start")
                     /\ UNCHANGED <<tx, requested, token, cursor, cause, fetchVars, workVars, recordVars, endVars>>

\* Slip: the cycle goes on after it has failed all phases.
ProviderInertGoesOn ==
    /\ pc = "start"
    /\ phaseRow' = [p \in Phases |-> IF p \in requested THEN "FAILED" ELSE "NONE"]
    /\ status' = "FAILED" /\ hooks' = Append(hooks, "FAILED") /\ pc' = After("start")
    /\ UNCHANGED <<tx, requested, token, cursor, cause, eligible, outcome, crashed, fetchVars, workVars>>

\* capabilities raises a ProviderError: _fail_all_phases.
ProviderInert ==
    /\ pc = "start"
    /\ phaseRow' = [p \in Phases |-> IF p \in requested THEN "FAILED" ELSE "NONE"]
    /\ status' = "FAILED" /\ hooks' = Append(hooks, "FAILED") /\ pc' = "leaving"
    /\ UNCHANGED <<tx, requested, token, cursor, cause, eligible, outcome, crashed, fetchVars, workVars>>

\* It raises anything else: the outer handler.
CapabilitiesRaise == /\ pc = "start" /\ pc' = "crashing"
                     /\ UNCHANGED <<tx, requested, token, cursor, cause, fetchVars, workVars, recordVars, endVars>>

\* _run_phase: the phase is RUNNING, and its body starts.
Enter(p) ==
    /\ pc = p
    /\ phaseRow' = [phaseRow EXCEPT ![p] = "RUNNING"]
    /\ cursor' = 1 /\ pc' = Body[p]
    /\ UNCHANGED <<tx, requested, token, cause, eligible, outcome, fetchVars, workVars, endVars>>

\* _roll_up of the three services.
RollUp(p) ==
    LET seen == {outcome[p][i] : i \in Instruments}
    IN  IF seen = {"OK"} THEN "SUCCEEDED" ELSE IF seen = {"SKIPPED"} THEN "SKIPPED" ELSE "PARTIAL"

\* Slip: whoever did not fail continues.
FitUnlessError(p) == {i \in Instruments : outcome[p][i] # "ERROR"}

\* eligible_ids.
Fit(p) == {i \in Instruments : outcome[p][i] \in {"OK", "DEGRADED"}}

\* The body has returned: the instruments' outcomes and the phase are recorded.
Record(p) ==
    /\ pc = Close[p] /\ tx = "ok"
    /\ phaseRow' = [phaseRow EXCEPT ![p] = RollUp(p)]
    /\ eligible' = IF p = "SCORE" THEN eligible ELSE Fit(p)
    /\ pc' = After(p)
    /\ UNCHANGED <<tx, requested, token, cursor, cause, outcome, fetchVars, workVars, endVars>>

\* Slip: only the result says that the phase failed, the row stays RUNNING.
BodyRaisesUnrecorded(p) ==
    /\ outcome' = [outcome EXCEPT ![p] = [i \in Instruments |-> "NONE"]]
    /\ pc' = After(p)
    /\ UNCHANGED <<tx, requested, token, cursor, cause, eligible, phaseRow, workVars, endVars>>

\* The body raised: FAILED, no outcomes, and eligible stays what it was.
BodyRaises(p) ==
    /\ phaseRow' = [phaseRow EXCEPT ![p] = "FAILED"]
    /\ outcome' = [outcome EXCEPT ![p] = [i \in Instruments |-> "NONE"]]
    /\ pc' = After(p)
    /\ UNCHANGED <<tx, requested, token, cursor, cause, eligible, workVars, endVars>>

\* A statement outside the instruments' handlers fails, or finds the
\* transaction aborted: the outer handler.
StatementFails ==
    /\ pc \in {"start", "authenticating", "persisting", "finalize"} \cup Phases \cup {Close[p] : p \in Phases}
    /\ tx' = "aborted" /\ pc' = "crashing"
    /\ cause' = IF tx = "ok" THEN "cycle" ELSE cause
    /\ UNCHANGED <<requested, token, cursor, fetchVars, workVars, recordVars, endVars>>

-----------------------------------------------------------------------------
(* INGEST *)

\* ensure_authenticated: an expired token skips everybody, and any other
\* error is the phase's.
Authenticate ==
    /\ pc = "authenticating"
    /\ \/ /\ token = "valid" /\ pc' = "fetching"
          /\ UNCHANGED <<tx, requested, token, cursor, cause, fetchVars, workVars, recordVars, endVars>>
       \/ /\ token = "expired" /\ pc' = "ingested"
          /\ outcome' = [outcome EXCEPT !["INGEST"] = [i \in Instruments |-> "SKIPPED"]]
          /\ UNCHANGED <<tx, requested, token, cursor, cause, eligible, phaseRow, fetchVars, workVars, endVars>>
       \/ BodyRaises("INGEST") /\ UNCHANGED fetchVars

Fetching == {i \in Instruments : fetch[i] \in {"D1", "M1"}}
Fetched == {"OK", "RATE_LIMITED", "AUTH_FAILED", "ERROR"}

\* A free worker takes the next target.
StartFetch(i) ==
    /\ pc = "fetching" /\ Cardinality(Fetching) < Workers
    /\ fetch[i] = "queued" /\ \A j \in Instruments : j < i => fetch[j] # "queued"
    /\ fetch' = [fetch EXCEPT ![i] = "D1"]
    /\ UNCHANGED <<pc, tx, requested, token, cursor, cause, got, workVars, recordVars, endVars>>

\* A series arrives; daily candles first, then the minutes.
Receive(i) ==
    /\ pc = "fetching" /\ fetch[i] \in {"D1", "M1"} /\ token = "valid"
    /\ got' = [got EXCEPT ![i] = @ \cup {fetch[i]}]
    /\ fetch' = [fetch EXCEPT ![i] = IF @ = "D1" THEN "M1" ELSE "OK"]
    /\ UNCHANGED <<pc, tx, requested, token, cursor, cause, workVars, recordVars, endVars>>

\* _fetch keeps a ProviderError; what is not one leaves the thread.
FetchFails(i) ==
    /\ pc = "fetching" /\ fetch[i] \in {"D1", "M1"}
    /\ \E how \in IF token = "valid" THEN {"RATE_LIMITED", "ERROR", "raised"} ELSE {"AUTH_FAILED", "raised"} :
          fetch' = [fetch EXCEPT ![i] = how]
    /\ UNCHANGED <<pc, tx, requested, token, cursor, cause, got, workVars, recordVars, endVars>>

AllFetched ==
    /\ pc = "fetching" /\ \A i \in Instruments : fetch[i] \in Fetched
    /\ pc' = "persisting"
    /\ UNCHANGED <<tx, requested, token, cursor, cause, fetchVars, workVars, recordVars, endVars>>

\* Slip: an exception is noticed only when nobody has received anything.
FetchRaisedByAll ==
    /\ pc = "fetching" /\ \A i \in Instruments : fetch[i] = "raised"
    /\ BodyRaises("INGEST") /\ UNCHANGED fetchVars

\* pool.map comes to an exception: what is queued is cancelled, what runs
\* is waited for, and nothing is stored.
FetchRaised ==
    /\ pc = "fetching" /\ Fetching = {}
    /\ \E i \in Instruments : /\ fetch[i] = "raised"
                              /\ \A j \in Instruments : j < i => fetch[j] \in Fetched
    /\ BodyRaises("INGEST") /\ UNCHANGED fetchVars

\* _persist, and the outcome of its watermark status.  The upsert of minutes
\* that the stream has written too waits until the stream commits them.
Persist ==
    /\ pc = "persisting" /\ cursor <= N /\ ("M1" \in got[cursor] => cursor \notin held)
    /\ stored' = [stored EXCEPT ![cursor] = got[cursor]]
    /\ outcome' = [outcome EXCEPT !["INGEST"][cursor] =
                      CASE fetch[cursor] = "OK" -> "OK" [] fetch[cursor] = "RATE_LIMITED" -> "DEGRADED"
                        [] fetch[cursor] = "AUTH_FAILED" -> "SKIPPED" [] OTHER -> "ERROR"]
    /\ cursor' = cursor + 1
    /\ pc' = IF cursor = N THEN "ingested" ELSE pc
    /\ UNCHANGED <<tx, requested, token, cause, results, scored, held, eligible, phaseRow, fetchVars, endVars>>

\* Something else than a statement raises in _persist: the outcomes are lost
\* with the report, what was stored stays.
PersistRaises ==
    /\ pc = "persisting"
    /\ BodyRaises("INGEST") /\ UNCHANGED fetchVars

-----------------------------------------------------------------------------
(* ANALYZE and SCORE: one instrument after the other, each in a handler. *)

\* What a phase makes of an instrument: the parts it has written, and OK; an
\* exception, after some of them; or a failed statement, which aborts the
\* transaction.  Once it is aborted, there is nothing but errors.
Attempt(p, made) ==
    \/ /\ tx = "ok" /\ made' = [made EXCEPT ![cursor] = "all"]
       /\ outcome' = [outcome EXCEPT ![p][cursor] = "OK"]
       /\ UNCHANGED <<tx, cause>>
    \/ /\ tx = "ok" /\ \E part \in {"none", "some"} : made' = [made EXCEPT ![cursor] = part]
       /\ outcome' = [outcome EXCEPT ![p][cursor] = "ERROR"]
       /\ UNCHANGED <<tx, cause>>
    \/ /\ tx' = "aborted" /\ cause' = IF tx = "ok" THEN "instrument" ELSE cause
       /\ outcome' = [outcome EXCEPT ![p][cursor] = "ERROR"]
       /\ UNCHANGED made

Skip(p) == /\ cursor \notin eligible
           /\ outcome' = [outcome EXCEPT ![p][cursor] = "SKIPPED"]

\* Slip: the exceptions of an instrument are swallowed.
AnalyzeSwallows ==
    /\ pc = "analyzing"
    /\ \/ Skip("ANALYZE") /\ UNCHANGED <<tx, cause, results>>
       \/ /\ cursor \in eligible /\ tx = "ok"
          /\ \E part \in Parts : results' = [results EXCEPT ![cursor] = part]
          /\ outcome' = [outcome EXCEPT !["ANALYZE"][cursor] = "OK"]
          /\ UNCHANGED <<tx, cause>>
    /\ cursor' = cursor + 1
    /\ pc' = IF cursor = N THEN "analyzed" ELSE pc
    /\ UNCHANGED <<requested, token, stored, scored, held, eligible, phaseRow, fetchVars, endVars>>

Analyze ==
    /\ pc = "analyzing"
    /\ \/ Skip("ANALYZE") /\ UNCHANGED <<tx, cause, results>>
       \/ cursor \in eligible /\ Attempt("ANALYZE", results)
    /\ cursor' = cursor + 1
    /\ pc' = IF cursor = N THEN "analyzed" ELSE pc
    /\ UNCHANGED <<requested, token, stored, scored, held, eligible, phaseRow, fetchVars, endVars>>

Score ==
    /\ pc = "scoring"
    /\ \/ Skip("SCORE") /\ UNCHANGED <<tx, cause, scored>>
       \/ cursor \in eligible /\ Attempt("SCORE", scored)
    /\ cursor' = cursor + 1
    /\ pc' = IF cursor = N THEN "scoredAll" ELSE pc
    /\ UNCHANGED <<requested, token, stored, results, held, eligible, phaseRow, fetchVars, endVars>>

-----------------------------------------------------------------------------
(* The end *)

\* _final_status of the phases that have a result.
FinalStatus ==
    IF \E p \in requested : phaseRow[p] = "FAILED" THEN "FAILED"
    ELSE IF \A p \in requested : phaseRow[p] = "SUCCEEDED" /\ \A i \in Instruments : outcome[p][i] = "OK"
    THEN "SUCCEEDED" ELSE "PARTIAL"

Finalize ==
    /\ pc = "finalize"
    /\ status' = FinalStatus /\ hooks' = Append(hooks, FinalStatus) /\ pc' = "leaving"
    /\ UNCHANGED <<tx, requested, token, cursor, cause, crashed, fetchVars, workVars, recordVars>>

\* The outer handler: it tries to write FAILED, and fires the hooks.
Crash ==
    /\ pc = "crashing"
    /\ crashed' = TRUE
    /\ status' = IF tx = "ok" THEN "FAILED" ELSE status
    /\ hooks' = Append(hooks, "FAILED") /\ pc' = "leaving"
    /\ UNCHANGED <<tx, requested, token, cursor, cause, fetchVars, workVars, recordVars>>

\* worker_context unlocks and session_scope commits; either may fail.
Leave ==
    /\ pc = "leaving"
    /\ \/ tx = "ok" /\ pc' = "committed" /\ UNCHANGED cause
       \/ pc' = "rolledback" /\ cause' = IF tx = "ok" THEN "cycle" ELSE cause
    /\ UNCHANGED <<tx, requested, token, cursor, fetchVars, workVars, recordVars, endVars>>

\* The process ends, and the server rolls back.
Die == /\ pc \notin Ended
       /\ pc' = "rolledback" /\ cause' = "died"
       /\ UNCHANGED <<tx, requested, token, cursor, fetchVars, workVars, recordVars, endVars>>

\* 03:30 IST; once the fetches are over, nothing asks for the token again.
TokenExpires == /\ pc \in {"start", "INGEST", "authenticating", "fetching"}
                /\ token = "valid" /\ token' = "expired"
                /\ UNCHANGED <<pc, tx, requested, cursor, cause, fetchVars, workVars, recordVars, endVars>>

-----------------------------------------------------------------------------
(* The stream beside the cycle *)

\* A closed minute goes into the stream's transaction; one that the cycle has
\* written already has to wait for the cycle.
StreamWrites(i) ==
    /\ pc \notin Ended /\ i \notin held /\ "M1" \notin stored[i]
    /\ held' = held \cup {i}
    /\ UNCHANGED <<pc, tx, requested, token, cursor, cause, stored, results, scored, fetchVars, recordVars, endVars>>

\* The turn of a tick, every couple of seconds if there are ticks; or the
\* stream stops.
StreamCommits ==
    /\ held # {} /\ held' = {}
    /\ UNCHANGED <<pc, tx, requested, token, cursor, cause, stored, results, scored, fetchVars, recordVars, endVars>>

Stream == StreamCommits \/ \E i \in Instruments : StreamWrites(i)

-----------------------------------------------------------------------------
Step == \/ CapabilitiesKnown \/ ProviderInert \/ CapabilitiesRaise
        \/ \E p \in Phases : Enter(p) \/ Record(p)
        \/ StatementFails \/ Authenticate
        \/ \E i \in Instruments : StartFetch(i) \/ Receive(i) \/ FetchFails(i)
        \/ AllFetched \/ FetchRaised \/ Persist \/ PersistRaises \/ Analyze \/ Score
        \/ Finalize \/ Crash \/ Leave

Next == Step \/ Die \/ TokenExpires \/ Stream

Spec == Init /\ [][Next]_vars

\* What happens by itself while nothing is in the way: a fault is not forced,
\* but for a fetch, which ends well or ill, and for the statement after a
\* failed one.
Progress == \/ CapabilitiesKnown \/ ProviderInert \/ CapabilitiesRaise
            \/ \E p \in Phases : Enter(p) \/ Record(p)
            \/ (tx = "aborted" /\ StatementFails) \/ Authenticate
            \/ \E i \in Instruments : StartFetch(i) \/ Receive(i) \/ FetchFails(i)
            \/ AllFetched \/ FetchRaised \/ Analyze \/ Score
            \/ Finalize \/ Crash \/ Leave

\* A fetch ends, for the HTTP client has a timeout and a bound on its
\* retries; the rest is one thread, whose statements return, but for an
\* upsert that waits for the stream's rows.  It waits for the transaction
\* that holds them and goes on when that one ends, whatever the stream
\* writes next: strong fairness.  Nothing is assumed of the stream.
LiveSpec == Spec /\ WF_vars(Progress) /\ SF_vars(Persist)

-----------------------------------------------------------------------------
\* A committed run that says SUCCEEDED did all it was asked for, of every
\* instrument: no swallowed error, no stale data passed for fresh.
SucceededIsComplete == pc = "committed" /\ status = "SUCCEEDED" => \A i \in Instruments :
    /\ "INGEST" \in requested => stored[i] = {"D1", "M1"}
    /\ "ANALYZE" \in requested => results[i] = "all"
    /\ "SCORE" \in requested => scored[i] = "all"

\* Nothing is computed of an instrument that an earlier phase of the run
\* found unfit; the first phase that did excludes it for good
\* (docs/09-TESTING.md, end-to-end cycle, partial failure).
DownstreamOnlyFit == \A i \in Instruments :
    LET unfit(p) == p \in requested /\ outcome[p][i] \in {"SKIPPED", "ERROR"}
    IN  /\ unfit("INGEST") => results[i] = "none" /\ scored[i] = "none"
        /\ unfit("ANALYZE") => scored[i] = "none"

\* A committed run explains its status: FAILED comes with a failed phase or
\* a crash, PARTIAL with an instrument that is not OK, no phase of it looks
\* as if it were still running, and none is missing but after a crash.
StatusExplained == pc = "committed" =>
    /\ status # "RUNNING" /\ \A p \in Phases : phaseRow[p] # "RUNNING"
    /\ requested # {} => (status = "FAILED" <=> crashed \/ \E p \in Phases : phaseRow[p] = "FAILED")
    /\ status = "PARTIAL" => \E p \in requested, i \in Instruments : outcome[p][i] \notin {"NONE", "OK"}
    /\ ~crashed => \A p \in requested : phaseRow[p] # "NONE"

\* Subscribers hear of a committed run once, and hear the status it has.
HooksReportStatus == pc = "committed" => hooks = <<status>>

\* Every cycle comes to an end, if the stream commits again and again what it
\* has written.  The stream is not obliged to: while no tick arrives its rows
\* stay uncommitted and the cycle waits for them (ingestion/stream.py:83).
CycleEnds == []<>(held = {}) => <>(pc \in Ended)

\* worker/cycle.py:98: problems of an instrument become outcomes.
InstrumentProblemsRecorded == pc = "rolledback" => cause # "instrument"

\* worker/hooks.py:3: the hooks are called after the run is finalised.
HooksAfterTheFact == pc = "rolledback" => hooks = <<>>

\* ingestion/backfill.py:245: a failed fetch is the instrument's own.
FetchErrorsContained == pc = "committed" /\ ~crashed =>
    \A i \in Instruments : fetch[i] = "raised" => outcome["INGEST"][i] # "NONE"
=============================================================================
