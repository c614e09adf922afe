----------------------------- MODULE CycleProofs -----------------------------
(***************************************************************************)
(* Proofs about Cycle, for any number of instruments and of workers and    *)
(* any set of requests: what a committed run says of itself is true.       *)
(*                                                                         *)
(* The inductive invariant Inv has one conjunct for each thing run_cycle   *)
(* relies on between its steps.  Each is preserved by a lemma of its own,  *)
(* with one step per action; the theorems follow from Inv alone.           *)
(***************************************************************************)
EXTENDS Cycle, TLAPS

\* Where run_cycle is while a phase is in progress, and the places before it.
InPhase == [INGEST  |-> {"authenticating", "fetching", "persisting", "ingested"},
            ANALYZE |-> {"analyzing", "analyzed"},
            SCORE   |-> {"scoring", "scoredAll"}]
BeforeAnalyze == {"start", "INGEST", "ANALYZE"} \cup InPhase.INGEST
BeforeScore == {"SCORE"} \cup BeforeAnalyze \cup InPhase.ANALYZE
Open == {"start", "crashing", "finalize"} \cup Phases
          \cup InPhase.INGEST \cup InPhase.ANALYZE \cup InPhase.SCORE

Outcomes == {"NONE", "OK", "DEGRADED", "SKIPPED", "ERROR"}
Decided == {"SUCCEEDED", "SKIPPED", "PARTIAL"}

TypeOK ==
    /\ pc \in Open \cup {"leaving"} \cup Ended
    /\ tx \in {"ok", "aborted"} /\ requested \subseteq Phases
    /\ fetch \in [Instruments -> {"queued", "D1", "M1", "raised"} \cup Fetched]
    /\ got \in [Instruments -> SUBSET {"D1", "M1"}]
    /\ stored \in [Instruments -> SUBSET {"D1", "M1"}]
    /\ results \in [Instruments -> Parts] /\ scored \in [Instruments -> Parts]
    /\ cursor \in 1..(N + 1) /\ eligible \subseteq Instruments
    /\ outcome \in [Phases -> [Instruments -> Outcomes]]
    /\ phaseRow \in [Phases -> {"NONE", "RUNNING", "FAILED"} \cup Decided]
    /\ status \in {"RUNNING", "FAILED", "SUCCEEDED", "PARTIAL"} /\ crashed \in BOOLEAN

\* A fetch has received what its place says: both series if it ended well.
FetchInv == \A i \in Instruments :
    /\ fetch[i] \in {"queued", "D1"} => got[i] = {}
    /\ fetch[i] = "M1" => got[i] = {"D1"}
    /\ fetch[i] = "OK" => got[i] = {"D1", "M1"}

\* An instrument that is OK in a phase has been worked on wholly.
WorkInv == \A i \in Instruments :
    /\ outcome["INGEST"][i] = "OK" => stored[i] = {"D1", "M1"}
    /\ outcome["ANALYZE"][i] = "OK" => results[i] = "all"
    /\ outcome["SCORE"][i] = "OK" => scored[i] = "all"

\* Before a phase there is nothing of it; a phase not asked for leaves nothing.
BeforeAt(p, before) ==
    pc \in before \/ p \notin requested =>
        phaseRow[p] = "NONE" /\ \A i \in Instruments : outcome[p][i] = "NONE"
BeforeInv ==
    /\ BeforeAt("INGEST", {"start", "INGEST"})
    /\ BeforeAt("ANALYZE", BeforeAnalyze) /\ BeforeAt("SCORE", BeforeScore)
    /\ pc \in BeforeAnalyze => \A i \in Instruments : results[i] = "none"
    /\ pc \in BeforeScore => \A i \in Instruments : scored[i] = "none"

\* A phase in progress was asked for and is RUNNING, and the instruments up to
\* the cursor have their outcomes; a phase behind has been decided.
PhaseAt(p, body, close, behind) ==
    /\ pc \in body \cup {p, close} => p \in requested
    /\ pc \in body \cup {close} => phaseRow[p] = "RUNNING"
    /\ pc \in body => cursor <= N /\ \A i \in 1..(cursor - 1) : outcome[p][i] # "NONE"
    /\ pc = close => \A i \in Instruments : outcome[p][i] # "NONE"
    /\ pc \in behind /\ p \in requested => phaseRow[p] \in Decided \cup {"FAILED"}
PhaseInv ==
    /\ PhaseAt("INGEST", {"authenticating", "fetching", "persisting"}, "ingested",
               {"ANALYZE", "analyzing", "analyzed", "SCORE", "scoring", "scoredAll", "finalize"})
    /\ PhaseAt("ANALYZE", {"analyzing"}, "analyzed", {"SCORE", "scoring", "scoredAll", "finalize"})
    /\ PhaseAt("SCORE", {"scoring"}, "scoredAll", {"finalize"})

\* What the row of a phase says agrees with the outcomes of all instruments.
RowInv == \A p \in Phases :
    phaseRow[p] \in Decided =>
        /\ phaseRow[p] = "SUCCEEDED" <=> \A i \in Instruments : outcome[p][i] = "OK"
        /\ \A i \in Instruments : outcome[p][i] # "NONE"

Unfit(p, i) == p \in requested /\ outcome[p][i] \in {"SKIPPED", "ERROR"}

\* Who is eligible is fit, who was analysed was eligible, and nothing has been
\* made of whoever is not fit.
FitInv == \A i \in Instruments :
    /\ i \in eligible /\ pc \in {"ANALYZE", "analyzing", "analyzed", "SCORE", "scoring", "scoredAll"}
         => ~Unfit("INGEST", i)
    /\ i \in eligible /\ pc \in {"SCORE", "scoring", "scoredAll"} => ~Unfit("ANALYZE", i)
    /\ outcome["ANALYZE"][i] \in {"OK", "DEGRADED"} => ~Unfit("INGEST", i)
    /\ Unfit("INGEST", i) => results[i] = "none" /\ scored[i] = "none"
    /\ Unfit("ANALYZE", i) => scored[i] = "none"

\* Nothing is reported before the end.  A transaction that failed in a phase
\* reaches the end by the crash handler only; one that can still commit knows
\* every phase asked for, or none because it crashed before the first.
EndInv ==
    /\ pc \in Open => status = "RUNNING" /\ hooks = <<>> /\ crashed = FALSE
    /\ pc \in Open /\ tx = "aborted" => pc \in InPhase.ANALYZE \cup InPhase.SCORE \cup {"crashing"}
    /\ pc = "crashing" /\ tx = "ok" => \A p \in Phases : phaseRow[p] = "NONE"
    /\ (pc = "leaving" /\ tx = "ok") \/ pc = "committed" =>
         /\ status # "RUNNING" /\ hooks = <<status>>
         /\ crashed => status = "FAILED" /\ \A p \in Phases : phaseRow[p] = "NONE"
         /\ ~crashed => /\ \A p \in requested : phaseRow[p] \in Decided \cup {"FAILED"}
                        /\ \/ status = FinalStatus
                           \/ status = "FAILED" /\ \A p \in requested : phaseRow[p] = "FAILED"

Inv == TypeOK /\ FetchInv /\ WorkInv /\ BeforeInv /\ PhaseInv /\ RowInv /\ FitInv /\ EndInv

-----------------------------------------------------------------------------
\* What a turn of ANALYZE does: it goes on by one instrument, whose outcome is
\* OK only if it was eligible and analysed wholly, and touches no other.
LEMMA AnalyzeTurn ==
  ASSUME Inv, Analyze
  PROVE  /\ cursor \in Instruments /\ pc = "analyzing" /\ cursor' = cursor + 1
         /\ pc' = IF cursor = N THEN "analyzed" ELSE "analyzing"
         /\ tx' \in {"ok", "aborted"}
         /\ results' \in [Instruments -> Parts]
         /\ outcome' \in [Phases -> [Instruments -> Outcomes]]
         /\ \A q \in Phases, i \in Instruments :
              q # "ANALYZE" \/ i # cursor => outcome'[q][i] = outcome[q][i]
         /\ \A i \in Instruments : i # cursor \/ cursor \notin eligible => results'[i] = results[i]
         /\ outcome'["ANALYZE"][cursor] \in {"OK", "SKIPPED", "ERROR"}
         /\ outcome'["ANALYZE"][cursor] = "OK" => cursor \in eligible /\ results'[cursor] = "all"
         /\ UNCHANGED <<requested, token, stored, scored, eligible, phaseRow, fetchVars, endVars>>
<1> USE CycleAssumption DEF Inv, TypeOK, Instruments, Parts, Outcomes, Phases
<1>1. cursor \in Instruments /\ pc = "analyzing"
  BY DEF Analyze, PhaseInv, PhaseAt
<1>2. \A v \in Outcomes : [outcome EXCEPT !["ANALYZE"][cursor] = v] \in [Phases -> [Instruments -> Outcomes]]
  BY <1>1
<1>3. \A v \in Parts : [results EXCEPT ![cursor] = v] \in [Instruments -> Parts]
  BY <1>1
<1>4. CASE Skip("ANALYZE") /\ UNCHANGED <<tx, cause, results>>
  BY <1>1, <1>2, <1>4 DEF Analyze, Skip
<1>5. CASE cursor \in eligible /\ Attempt("ANALYZE", results)
  <2>1. \E w \in {"OK", "ERROR"} :
          /\ outcome' = [outcome EXCEPT !["ANALYZE"][cursor] = w]
          /\ \/ w = "OK" /\ results' = [results EXCEPT ![cursor] = "all"]
             \/ w = "ERROR" /\ results' = results
             \/ w = "ERROR" /\ \E part \in Parts : results' = [results EXCEPT ![cursor] = part]
    BY <1>5 DEF Attempt
  <2>2. tx' \in {"ok", "aborted"}
    BY <1>5 DEF Attempt
  <2>3. PICK w \in {"OK", "ERROR"} :
          /\ outcome' = [outcome EXCEPT !["ANALYZE"][cursor] = w]
          /\ \/ w = "OK" /\ results' = [results EXCEPT ![cursor] = "all"]
             \/ w = "ERROR" /\ results' = results
             \/ w = "ERROR" /\ \E part \in Parts : results' = [results EXCEPT ![cursor] = part]
    BY <2>1
  <2>4. /\ outcome' \in [Phases -> [Instruments -> Outcomes]] /\ outcome'["ANALYZE"][cursor] = w
        /\ \A q \in Phases, i \in Instruments :
             q # "ANALYZE" \/ i # cursor => outcome'[q][i] = outcome[q][i]
    BY <1>1, <1>2, <2>3
  <2>5. /\ results' \in [Instruments -> Parts] /\ \A i \in Instruments : i # cursor => results'[i] = results[i]
        /\ w = "OK" => results'[cursor] = "all"
    <3>1. CASE w = "OK" /\ results' = [results EXCEPT ![cursor] = "all"]
      BY <1>1, <1>3, <3>1
    <3>2. CASE w = "ERROR" /\ results' = results
      BY <3>2
    <3>3. ASSUME w = "ERROR", NEW part \in Parts, results' = [results EXCEPT ![cursor] = part]
          PROVE  <2>5!1 /\ <2>5!2
      BY <1>1, <1>3, <3>3
    <3>. QED
      BY <2>3, <3>1, <3>2, <3>3
  <2>. QED
    BY <1>1, <1>5, <2>2, <2>3, <2>4, <2>5 DEF Analyze
<1>. QED
  BY <1>4, <1>5 DEF Analyze

\* The same for SCORE.
LEMMA ScoreTurn ==
  ASSUME Inv, Score
  PROVE  /\ cursor \in Instruments /\ pc = "scoring" /\ cursor' = cursor + 1
         /\ pc' = IF cursor = N THEN "scoredAll" ELSE "scoring"
         /\ tx' \in {"ok", "aborted"}
         /\ scored' \in [Instruments -> Parts]
         /\ outcome' \in [Phases -> [Instruments -> Outcomes]]
         /\ \A q \in Phases, i \in Instruments :
              q # "SCORE" \/ i # cursor => outcome'[q][i] = outcome[q][i]
         /\ \A i \in Instruments : i # cursor \/ cursor \notin eligible => scored'[i] = scored[i]
         /\ outcome'["SCORE"][cursor] \in {"OK", "SKIPPED", "ERROR"}
         /\ outcome'["SCORE"][cursor] = "OK" => scored'[cursor] = "all"
         /\ UNCHANGED <<requested, token, stored, results, eligible, phaseRow, fetchVars, endVars>>
<1> USE CycleAssumption DEF Inv, TypeOK, Instruments, Parts, Outcomes, Phases
<1>1. cursor \in Instruments /\ pc = "scoring"
  BY DEF Score, PhaseInv, PhaseAt
<1>2. \A v \in Outcomes : [outcome EXCEPT !["SCORE"][cursor] = v] \in [Phases -> [Instruments -> Outcomes]]
  BY <1>1
<1>3. \A v \in Parts : [scored EXCEPT ![cursor] = v] \in [Instruments -> Parts]
  BY <1>1
<1>4. CASE Skip("SCORE") /\ UNCHANGED <<tx, cause, scored>>
  BY <1>1, <1>2, <1>4 DEF Score, Skip
<1>5. CASE cursor \in eligible /\ Attempt("SCORE", scored)
  <2>1. \E w \in {"OK", "ERROR"} :
          /\ outcome' = [outcome EXCEPT !["SCORE"][cursor] = w]
          /\ \/ w = "OK" /\ scored' = [scored EXCEPT ![cursor] = "all"]
             \/ w = "ERROR" /\ scored' = scored
             \/ w = "ERROR" /\ \E part \in Parts : scored' = [scored EXCEPT ![cursor] = part]
    BY <1>5 DEF Attempt
  <2>2. tx' \in {"ok", "aborted"}
    BY <1>5 DEF Attempt
  <2>3. PICK w \in {"OK", "ERROR"} :
          /\ outcome' = [outcome EXCEPT !["SCORE"][cursor] = w]
          /\ \/ w = "OK" /\ scored' = [scored EXCEPT ![cursor] = "all"]
             \/ w = "ERROR" /\ scored' = scored
             \/ w = "ERROR" /\ \E part \in Parts : scored' = [scored EXCEPT ![cursor] = part]
    BY <2>1
  <2>4. /\ outcome' \in [Phases -> [Instruments -> Outcomes]] /\ outcome'["SCORE"][cursor] = w
        /\ \A q \in Phases, i \in Instruments :
             q # "SCORE" \/ i # cursor => outcome'[q][i] = outcome[q][i]
    BY <1>1, <1>2, <2>3
  <2>5. /\ scored' \in [Instruments -> Parts] /\ \A i \in Instruments : i # cursor => scored'[i] = scored[i]
        /\ w = "OK" => scored'[cursor] = "all"
    <3>1. CASE w = "OK" /\ scored' = [scored EXCEPT ![cursor] = "all"]
      BY <1>1, <1>3, <3>1
    <3>2. CASE w = "ERROR" /\ scored' = scored
      BY <3>2
    <3>3. ASSUME w = "ERROR", NEW part \in Parts, scored' = [scored EXCEPT ![cursor] = part]
          PROVE  <2>5!1 /\ <2>5!2
      BY <1>1, <1>3, <3>3
    <3>. QED
      BY <2>3, <3>1, <3>2, <3>3
  <2>. QED
    BY <1>1, <1>5, <2>2, <2>3, <2>4, <2>5 DEF Score
<1>. QED
  BY <1>4, <1>5 DEF Score

\* A body that raised leaves INGEST failed, nobody's outcome, and everything
\* else as it was.
LEMMA IngestRaises ==
  ASSUME Inv, BodyRaises("INGEST"), pc \in InPhase["INGEST"]
  PROVE  /\ pc' = After("INGEST") /\ pc' \in {"ANALYZE", "SCORE", "finalize"}
         /\ pc' \in requested \cup {"finalize"}
         /\ pc' # "ANALYZE" => "ANALYZE" \notin requested
         /\ pc' = "finalize" => "SCORE" \notin requested
         /\ outcome' \in [Phases -> [Instruments -> Outcomes]]
         /\ phaseRow' \in [Phases -> {"NONE", "RUNNING", "FAILED"} \cup Decided]
         /\ phaseRow'["INGEST"] = "FAILED" /\ \A i \in Instruments : outcome'["INGEST"][i] = "NONE"
         /\ \A q \in Phases \ {"INGEST"} : phaseRow'[q] = phaseRow[q] /\ outcome'[q] = outcome[q]
         /\ UNCHANGED <<tx, requested, token, cursor, cause, eligible, workVars, endVars>>
  BY DEF Inv, TypeOK, Instruments, Outcomes, Decided, Phases, BodyRaises, After

\* Where run_cycle goes from the start and from a phase.
LEMMA AfterIs ==
  ASSUME TypeOK
  PROVE  /\ \A p \in Phases \cup {"start"} : After(p) \in requested \cup {"finalize"}
         /\ After("start") # "INGEST" => "INGEST" \notin requested
         /\ \A p \in {"start", "INGEST"} : After(p) \notin {"INGEST", "ANALYZE"} => "ANALYZE" \notin requested
         /\ \A p \in {"start", "INGEST", "ANALYZE"} : After(p) = "finalize" => "SCORE" \notin requested
         /\ After("INGEST") # "INGEST" /\ After("ANALYZE") \in {"SCORE", "finalize"} /\ After("SCORE") = "finalize"
  BY DEF TypeOK, After, Phases

\* The types are preserved.
LEMMA TypeStep == Inv /\ [Next]_vars => TypeOK'
<1> SUFFICES ASSUME Inv, [Next]_vars PROVE TypeOK'
  OBVIOUS
<1>0. TypeOK
  BY DEF Inv
<1> USE CycleAssumption, <1>0 DEF TypeOK, Instruments, Outcomes, Decided, Parts, Fetched, Open,
       InPhase, Ended, Phases, fetchVars, workVars, recordVars, endVars
<1>1. CASE CapabilitiesKnown
  BY <1>1 DEF CapabilitiesKnown, After
<1>2. CASE ProviderInert
  BY <1>2 DEF ProviderInert
<1>3. CASE CapabilitiesRaise
  BY <1>3 DEF CapabilitiesRaise
<1>4. ASSUME NEW p \in Phases, Enter(p) PROVE TypeOK'
  BY <1>4 DEF Enter, Body
<1>5. ASSUME NEW p \in Phases, Record(p) PROVE TypeOK'
  BY <1>5 DEF Record, Close, After, RollUp, Fit
<1>6. CASE StatementFails
  BY <1>6 DEF StatementFails
<1>7. CASE Authenticate
  <2>1. CASE /\ token = "valid" /\ pc' = "fetching"
             /\ UNCHANGED <<tx, requested, token, cursor, cause, fetchVars, workVars, recordVars, endVars>>
    BY <2>1, <1>7 DEF Authenticate
  <2>2. CASE /\ token = "expired" /\ pc' = "ingested"
             /\ outcome' = [outcome EXCEPT !["INGEST"] = [i \in Instruments |-> "SKIPPED"]]
             /\ UNCHANGED <<tx, requested, token, cursor, cause, eligible, phaseRow, fetchVars, workVars, endVars>>
    BY <2>2, <1>7 DEF Authenticate
  <2>3. CASE BodyRaises("INGEST") /\ UNCHANGED fetchVars
    <3>1. pc' \in {"ANALYZE", "SCORE", "finalize"} /\ cursor' \in 1..(N + 1)
      BY <1>7, <2>3, IngestRaises DEF Authenticate
    <3> HIDE DEF Instruments, Outcomes, Decided, Parts, Fetched, Phases
    <3>2. /\ outcome' \in [Phases -> [Instruments -> Outcomes]]
          /\ phaseRow' \in [Phases -> {"NONE", "RUNNING", "FAILED"} \cup Decided]
          /\ UNCHANGED <<tx, requested, token, eligible, workVars, fetchVars, endVars>>
      BY <1>7, <2>3, IngestRaises DEF Authenticate
    <3>3. pc' \in Open
      BY <3>1 DEF Phases
    <3>. QED
      BY <3>2, <3>1, <3>3
  <2>. QED
    BY <1>7, <2>1, <2>2, <2>3 DEF Authenticate
<1>8. ASSUME NEW i \in Instruments, StartFetch(i) PROVE TypeOK'
  BY <1>8 DEF StartFetch
<1>9. ASSUME NEW i \in Instruments, Receive(i) PROVE TypeOK'
  BY <1>9 DEF Receive
<1>10. ASSUME NEW i \in Instruments, FetchFails(i) PROVE TypeOK'
  BY <1>10 DEF FetchFails
<1>11. CASE AllFetched
  BY <1>11 DEF AllFetched
<1>12. CASE FetchRaised
  <2>1. pc' \in {"ANALYZE", "SCORE", "finalize"} /\ cursor' \in 1..(N + 1)
    BY <1>12, IngestRaises DEF FetchRaised
  <2> HIDE DEF Instruments, Outcomes, Decided, Parts, Fetched, Phases
  <2>2. /\ outcome' \in [Phases -> [Instruments -> Outcomes]]
        /\ phaseRow' \in [Phases -> {"NONE", "RUNNING", "FAILED"} \cup Decided]
        /\ UNCHANGED <<tx, requested, token, eligible, workVars, fetchVars, endVars>>
    BY <1>12, IngestRaises DEF FetchRaised
  <2>3. pc' \in Open
    BY <2>1 DEF Phases
  <2>. QED
    BY <2>2, <2>1, <2>3
<1>13. CASE Persist
  BY <1>13 DEF Persist
<1>14. CASE PersistRaises
  <2>1. pc' \in {"ANALYZE", "SCORE", "finalize"} /\ cursor' \in 1..(N + 1)
    BY <1>14, IngestRaises DEF PersistRaises
  <2> HIDE DEF Instruments, Outcomes, Decided, Parts, Fetched, Phases
  <2>2. /\ outcome' \in [Phases -> [Instruments -> Outcomes]]
        /\ phaseRow' \in [Phases -> {"NONE", "RUNNING", "FAILED"} \cup Decided]
        /\ UNCHANGED <<tx, requested, token, eligible, workVars, fetchVars, endVars>>
    BY <1>14, IngestRaises DEF PersistRaises
  <2>3. pc' \in Open
    BY <2>1 DEF Phases
  <2>. QED
    BY <2>2, <2>1, <2>3
<1>15. CASE Analyze
  <2>1. pc' \in {"analyzing", "analyzed"} /\ cursor' \in 1..(N + 1)
    BY <1>15, AnalyzeTurn
  <2> HIDE DEF Instruments, Outcomes, Decided, Parts, Fetched, Phases
  <2>2. /\ tx' \in {"ok", "aborted"} /\ results' \in [Instruments -> Parts]
        /\ outcome' \in [Phases -> [Instruments -> Outcomes]]
        /\ UNCHANGED <<requested, token, stored, scored, eligible, phaseRow, fetchVars, endVars>>
    BY <1>15, AnalyzeTurn
  <2>3. pc' \in Open
    BY <2>1 DEF Phases
  <2>. QED
    BY <2>2, <2>1, <2>3
<1>16. CASE Score
  <2>1. pc' \in {"scoring", "scoredAll"} /\ cursor' \in 1..(N + 1)
    BY <1>16, ScoreTurn
  <2> HIDE DEF Instruments, Outcomes, Decided, Parts, Fetched, Phases
  <2>2. /\ tx' \in {"ok", "aborted"} /\ scored' \in [Instruments -> Parts]
        /\ outcome' \in [Phases -> [Instruments -> Outcomes]]
        /\ UNCHANGED <<requested, token, stored, results, eligible, phaseRow, fetchVars, endVars>>
    BY <1>16, ScoreTurn
  <2>3. pc' \in Open
    BY <2>1 DEF Phases
  <2>. QED
    BY <2>2, <2>1, <2>3
<1>17. CASE Finalize
  BY <1>17 DEF Finalize, FinalStatus
<1>18. CASE Crash
  BY <1>18 DEF Crash
<1>19. CASE Leave
  BY <1>19 DEF Leave
<1>20. CASE Die
  BY <1>20 DEF Die
<1>21. CASE TokenExpires
  BY <1>21 DEF TokenExpires
<1>22. CASE Stream
  <2>1. UNCHANGED <<pc, tx, requested, token, cursor, cause, stored, results, scored, fetchVars, recordVars, endVars>>
    BY ONLY <1>22 DEF Stream, StreamWrites, StreamCommits
  <2>. QED
    BY <2>1
<1>23. CASE UNCHANGED vars
  BY <1>23 DEF vars
<1> HIDE DEF TypeOK, Instruments, Outcomes, Decided, Parts, Fetched, Open, InPhase, Ended, Phases,
       fetchVars, workVars, recordVars, endVars
<1>. QED
  BY <1>1, <1>2, <1>3, <1>4, <1>5, <1>6, <1>7, <1>8, <1>9, <1>10, <1>11, <1>12, <1>13, <1>14,
         <1>15, <1>16, <1>17, <1>18, <1>19, <1>20, <1>21, <1>22, <1>23 DEF Next, Step

\* What fetches have received stays what their places say.
LEMMA FetchStep == Inv /\ [Next]_vars => FetchInv'
<1> SUFFICES ASSUME Inv, [Next]_vars PROVE FetchInv'
  OBVIOUS
<1>0. TypeOK /\ FetchInv
  BY DEF Inv
<1> USE CycleAssumption, <1>0 DEF TypeOK, FetchInv, Instruments, Fetched, fetchVars, workVars,
       recordVars, endVars
<1>1. CASE CapabilitiesKnown
  BY <1>1 DEF CapabilitiesKnown
<1>2. CASE ProviderInert
  BY <1>2 DEF ProviderInert
<1>3. CASE CapabilitiesRaise
  BY <1>3 DEF CapabilitiesRaise
<1>4. ASSUME NEW p \in Phases, Enter(p) PROVE FetchInv'
  BY <1>4 DEF Enter
<1>5. ASSUME NEW p \in Phases, Record(p) PROVE FetchInv'
  BY <1>5 DEF Record
<1>6. CASE StatementFails
  BY <1>6 DEF StatementFails
<1>7. CASE Authenticate
  BY <1>7 DEF Authenticate, BodyRaises
<1>8. ASSUME NEW i \in Instruments, StartFetch(i) PROVE FetchInv'
  BY <1>8 DEF StartFetch
<1>9. ASSUME NEW i \in Instruments, Receive(i) PROVE FetchInv'
  BY <1>9 DEF Receive
<1>10. ASSUME NEW i \in Instruments, FetchFails(i) PROVE FetchInv'
  BY <1>10 DEF FetchFails
<1>11. CASE AllFetched
  BY <1>11 DEF AllFetched
<1>12. CASE FetchRaised
  BY <1>12 DEF FetchRaised, BodyRaises
<1>13. CASE Persist
  BY <1>13 DEF Persist
<1>14. CASE PersistRaises
  BY <1>14 DEF PersistRaises, BodyRaises
<1>15. CASE Analyze
  BY <1>15, AnalyzeTurn
<1>16. CASE Score
  BY <1>16, ScoreTurn
<1>17. CASE Finalize
  BY <1>17 DEF Finalize
<1>18. CASE Crash
  BY <1>18 DEF Crash
<1>19. CASE Leave
  BY <1>19 DEF Leave
<1>20. CASE Die
  BY <1>20 DEF Die
<1>21. CASE TokenExpires
  BY <1>21 DEF TokenExpires
<1>22. CASE Stream
  BY <1>22 DEF Stream, StreamWrites, StreamCommits
<1>23. CASE UNCHANGED vars
  BY <1>23 DEF vars
<1> HIDE DEF TypeOK, FetchInv, Instruments, Fetched, fetchVars, workVars, recordVars, endVars
<1>. QED
  BY <1>1, <1>2, <1>3, <1>4, <1>5, <1>6, <1>7, <1>8, <1>9, <1>10, <1>11, <1>12, <1>13, <1>14,
         <1>15, <1>16, <1>17, <1>18, <1>19, <1>20, <1>21, <1>22, <1>23 DEF Next, Step

\* An outcome OK keeps standing for work that was done.
LEMMA WorkStep == Inv /\ [Next]_vars => WorkInv'
<1> SUFFICES ASSUME Inv, [Next]_vars PROVE WorkInv'
  OBVIOUS
<1>0. TypeOK /\ FetchInv /\ WorkInv
  BY DEF Inv
<1> USE CycleAssumption, <1>0 DEF TypeOK, FetchInv, WorkInv, Instruments, Outcomes, Parts,
       Fetched, Phases, fetchVars, workVars, recordVars, endVars
<1>1. CASE CapabilitiesKnown
  BY <1>1, AfterIs DEF CapabilitiesKnown
<1>2. CASE ProviderInert
  BY <1>2 DEF ProviderInert
<1>3. CASE CapabilitiesRaise
  BY <1>3 DEF CapabilitiesRaise
<1>4. ASSUME NEW p \in Phases, Enter(p) PROVE WorkInv'
  BY <1>4 DEF Enter
<1>5. ASSUME NEW p \in Phases, Record(p) PROVE WorkInv'
  BY <1>5, AfterIs DEF Record
<1>6. CASE StatementFails
  BY <1>6 DEF StatementFails
<1>7. CASE Authenticate
  BY <1>7, IngestRaises DEF Authenticate, InPhase, Phases
<1>8. ASSUME NEW i \in Instruments, StartFetch(i) PROVE WorkInv'
  BY <1>8 DEF StartFetch
<1>9. ASSUME NEW i \in Instruments, Receive(i) PROVE WorkInv'
  BY <1>9 DEF Receive
<1>10. ASSUME NEW i \in Instruments, FetchFails(i) PROVE WorkInv'
  BY <1>10 DEF FetchFails
<1>11. CASE AllFetched
  BY <1>11 DEF AllFetched
<1>12. CASE FetchRaised
  BY <1>12, IngestRaises DEF FetchRaised, InPhase, Phases
<1>13. CASE Persist
  BY <1>13 DEF Persist
<1>14. CASE PersistRaises
  BY <1>14, IngestRaises DEF PersistRaises, InPhase, Phases
<1>15. CASE Analyze
  BY <1>15, AnalyzeTurn
<1>16. CASE Score
  BY <1>16, ScoreTurn
<1>17. CASE Finalize
  BY <1>17 DEF Finalize
<1>18. CASE Crash
  BY <1>18 DEF Crash
<1>19. CASE Leave
  BY <1>19 DEF Leave
<1>20. CASE Die
  BY <1>20 DEF Die
<1>21. CASE TokenExpires
  BY <1>21 DEF TokenExpires
<1>22. CASE Stream
  BY <1>22 DEF Stream, StreamWrites, StreamCommits
<1>23. CASE UNCHANGED vars
  BY <1>23 DEF vars
<1> HIDE DEF TypeOK, FetchInv, WorkInv, Instruments, Outcomes, Parts, Fetched, Phases, fetchVars,
       workVars, recordVars, endVars
<1>. QED
  BY <1>1, <1>2, <1>3, <1>4, <1>5, <1>6, <1>7, <1>8, <1>9, <1>10, <1>11, <1>12, <1>13, <1>14,
         <1>15, <1>16, <1>17, <1>18, <1>19, <1>20, <1>21, <1>22, <1>23 DEF Next, Step

\* Nothing is recorded or computed of a phase before its turn.
LEMMA BeforeStep == Inv /\ [Next]_vars => BeforeInv'
<1> SUFFICES ASSUME Inv, [Next]_vars PROVE BeforeInv'
  OBVIOUS
<1>0. TypeOK /\ BeforeInv /\ PhaseInv
  BY DEF Inv
<1> USE CycleAssumption, <1>0 DEF TypeOK, BeforeInv, BeforeAt, PhaseInv, PhaseAt, Open, InPhase,
       Ended, Phases, BeforeAnalyze, BeforeScore, Body, Close, Instruments, fetchVars, workVars,
       recordVars, endVars
<1>1. CASE CapabilitiesKnown
  BY <1>1, AfterIs DEF CapabilitiesKnown
<1>2. CASE ProviderInert
  BY <1>2 DEF ProviderInert
<1>3. CASE CapabilitiesRaise
  BY <1>3 DEF CapabilitiesRaise
<1>4. ASSUME NEW p \in Phases, Enter(p) PROVE BeforeInv'
  BY <1>4 DEF Enter
<1>5. ASSUME NEW p \in Phases, Record(p) PROVE BeforeInv'
  BY <1>5, AfterIs DEF Record
<1>6. CASE StatementFails
  BY <1>6 DEF StatementFails
<1>7. CASE Authenticate
  BY <1>7, IngestRaises DEF Authenticate, InPhase, Phases
<1>8. ASSUME NEW i \in Instruments, StartFetch(i) PROVE BeforeInv'
  BY <1>8 DEF StartFetch
<1>9. ASSUME NEW i \in Instruments, Receive(i) PROVE BeforeInv'
  BY <1>9 DEF Receive
<1>10. ASSUME NEW i \in Instruments, FetchFails(i) PROVE BeforeInv'
  BY <1>10 DEF FetchFails
<1>11. CASE AllFetched
  BY <1>11 DEF AllFetched
<1>12. CASE FetchRaised
  <2>1. /\ pc' \in {"ANALYZE", "SCORE", "finalize"} /\ (pc' # "ANALYZE" => "ANALYZE" \notin requested)
        /\ phaseRow'["ANALYZE"] = phaseRow["ANALYZE"] /\ outcome'["ANALYZE"] = outcome["ANALYZE"]
        /\ phaseRow'["SCORE"] = phaseRow["SCORE"] /\ outcome'["SCORE"] = outcome["SCORE"]
        /\ "INGEST" \in requested /\ UNCHANGED <<requested, workVars>> /\ pc \in BeforeAnalyze
    BY <1>12, IngestRaises DEF FetchRaised
  <2>2. BeforeAt("INGEST", {"start", "INGEST"})'
    BY <1>12, <2>1
  <2>3. BeforeAt("ANALYZE", BeforeAnalyze)' /\ (pc \in BeforeAnalyze => \A i \in Instruments : results[i] = "none")'
    BY <1>12, <2>1
  <2>4. BeforeAt("SCORE", BeforeScore)' /\ (pc \in BeforeScore => \A i \in Instruments : scored[i] = "none")'
    BY <1>12, <2>1
  <2>. QED
    BY <2>2, <2>3, <2>4 DEF BeforeInv
<1>13. CASE Persist
  BY <1>13 DEF Persist
<1>14. CASE PersistRaises
  <2>1. /\ pc' \in {"ANALYZE", "SCORE", "finalize"} /\ (pc' # "ANALYZE" => "ANALYZE" \notin requested)
        /\ phaseRow'["ANALYZE"] = phaseRow["ANALYZE"] /\ outcome'["ANALYZE"] = outcome["ANALYZE"]
        /\ phaseRow'["SCORE"] = phaseRow["SCORE"] /\ outcome'["SCORE"] = outcome["SCORE"]
        /\ "INGEST" \in requested /\ UNCHANGED <<requested, workVars>> /\ pc \in BeforeAnalyze
    BY <1>14, IngestRaises DEF PersistRaises
  <2>2. BeforeAt("INGEST", {"start", "INGEST"})'
    BY <1>14, <2>1
  <2>3. BeforeAt("ANALYZE", BeforeAnalyze)' /\ (pc \in BeforeAnalyze => \A i \in Instruments : results[i] = "none")'
    BY <1>14, <2>1
  <2>4. BeforeAt("SCORE", BeforeScore)' /\ (pc \in BeforeScore => \A i \in Instruments : scored[i] = "none")'
    BY <1>14, <2>1
  <2>. QED
    BY <2>2, <2>3, <2>4 DEF BeforeInv
<1>15. CASE Analyze
  <2>1. /\ pc' \in {"analyzing", "analyzed"} /\ pc = "analyzing" /\ phaseRow["SCORE"] = "NONE"
        /\ \A i \in Instruments : outcome["SCORE"][i] = "NONE" /\ scored[i] = "none"
        /\ \A i \in Instruments : outcome'["INGEST"][i] = outcome["INGEST"][i]
        /\ \A i \in Instruments : outcome'["SCORE"][i] = outcome["SCORE"][i]
        /\ UNCHANGED <<requested, phaseRow, scored>> /\ "ANALYZE" \in requested
    BY <1>15, AnalyzeTurn
  <2>0. \A p \in Phases : p \notin requested =>
          phaseRow[p] = "NONE" /\ \A i \in Instruments : outcome[p][i] = "NONE"
    BY <2>1
  <2> HIDE CycleAssumption, <1>0 DEF TypeOK, BeforeInv, PhaseInv, PhaseAt, Open, Instruments
  <2>2. BeforeAt("INGEST", {"start", "INGEST"})'
    <3>1. pc' \notin {"start", "INGEST"} /\ UNCHANGED <<requested, phaseRow>>
      BY <2>1
    <3>2. "INGEST" \notin requested =>
            phaseRow["INGEST"] = "NONE" /\ \A i \in Instruments : outcome'["INGEST"][i] = "NONE"
      BY <2>0, <2>1
    <3>. QED
      BY <3>1, <3>2
  <2>3. BeforeAt("ANALYZE", BeforeAnalyze)' /\ (pc \in BeforeAnalyze => \A i \in Instruments : results[i] = "none")'
    <3>1. pc' \notin BeforeAnalyze /\ "ANALYZE" \in requested'
      BY <2>1
    <3>. QED
      BY <3>1
  <2>4. BeforeAt("SCORE", BeforeScore)' /\ (pc \in BeforeScore => \A i \in Instruments : scored[i] = "none")'
    <3>1. phaseRow'["SCORE"] = "NONE"
      BY <2>1
    <3>2. \A i \in Instruments : outcome'["SCORE"][i] = "NONE" /\ scored'[i] = "none"
      BY <2>1
    <3>. QED
      BY <3>1, <3>2
  <2>. QED
    BY <2>2, <2>3, <2>4 DEF BeforeInv
<1>16. CASE Score
  <2>1. /\ pc' \in {"scoring", "scoredAll"} /\ pc = "scoring"
        /\ \A i \in Instruments : outcome'["INGEST"][i] = outcome["INGEST"][i]
        /\ \A i \in Instruments : outcome'["ANALYZE"][i] = outcome["ANALYZE"][i]
        /\ UNCHANGED <<requested, phaseRow, results>> /\ "SCORE" \in requested
    BY <1>16, ScoreTurn
  <2>0. \A p \in Phases : p \notin requested =>
          phaseRow[p] = "NONE" /\ \A i \in Instruments : outcome[p][i] = "NONE"
    BY <2>1
  <2> HIDE CycleAssumption, <1>0 DEF TypeOK, BeforeInv, PhaseInv, PhaseAt, Open, Instruments
  <2>2. BeforeAt("INGEST", {"start", "INGEST"})'
    <3>1. pc' \notin {"start", "INGEST"} /\ UNCHANGED <<requested, phaseRow>>
      BY <2>1
    <3>2. "INGEST" \notin requested =>
            phaseRow["INGEST"] = "NONE" /\ \A i \in Instruments : outcome'["INGEST"][i] = "NONE"
      BY <2>0, <2>1
    <3>. QED
      BY <3>1, <3>2
  <2>3. BeforeAt("ANALYZE", BeforeAnalyze)' /\ (pc \in BeforeAnalyze => \A i \in Instruments : results[i] = "none")'
    <3>1. pc' \notin BeforeAnalyze /\ UNCHANGED <<requested, phaseRow>>
      BY <2>1
    <3>2. "ANALYZE" \notin requested =>
            phaseRow["ANALYZE"] = "NONE" /\ \A i \in Instruments : outcome'["ANALYZE"][i] = "NONE"
      BY <2>0, <2>1
    <3>. QED
      BY <3>1, <3>2
  <2>4. BeforeAt("SCORE", BeforeScore)' /\ (pc \in BeforeScore => \A i \in Instruments : scored[i] = "none")'
    <3>1. pc' \notin BeforeScore /\ "SCORE" \in requested'
      BY <2>1
    <3>. QED
      BY <3>1
  <2>. QED
    BY <2>2, <2>3, <2>4 DEF BeforeInv
<1>17. CASE Finalize
  BY <1>17 DEF Finalize
<1>18. CASE Crash
  BY <1>18 DEF Crash
<1>19. CASE Leave
  BY <1>19 DEF Leave
<1>20. CASE Die
  BY <1>20 DEF Die
<1>21. CASE TokenExpires
  BY <1>21 DEF TokenExpires
<1>22. CASE Stream
  BY <1>22 DEF Stream, StreamWrites, StreamCommits
<1>23. CASE UNCHANGED vars
  BY <1>23 DEF vars
<1> HIDE DEF TypeOK, BeforeInv, BeforeAt, PhaseInv, PhaseAt, Open, InPhase, Ended, Phases,
       BeforeAnalyze, BeforeScore, Body, Close, Instruments, fetchVars, workVars, recordVars,
       endVars
<1>. QED
  BY <1>1, <1>2, <1>3, <1>4, <1>5, <1>6, <1>7, <1>8, <1>9, <1>10, <1>11, <1>12, <1>13, <1>14,
         <1>15, <1>16, <1>17, <1>18, <1>19, <1>20, <1>21, <1>22, <1>23 DEF Next, Step

\* A phase in progress keeps its place, and becomes decided when it is left.
LEMMA PhaseStep == Inv /\ [Next]_vars => PhaseInv'
<1> SUFFICES ASSUME Inv, [Next]_vars PROVE PhaseInv'
  OBVIOUS
<1>0. TypeOK /\ PhaseInv /\ BeforeInv
  BY DEF Inv
<1> USE CycleAssumption, <1>0 DEF TypeOK, PhaseInv, PhaseAt, BeforeInv, BeforeAt, Open, InPhase,
       Ended, Phases, BeforeAnalyze, BeforeScore, Body, Close, Instruments, Decided, Outcomes,
       fetchVars, workVars, recordVars, endVars
<1>1. CASE CapabilitiesKnown
  BY <1>1, AfterIs DEF CapabilitiesKnown
<1>2. CASE ProviderInert
  BY <1>2 DEF ProviderInert
<1>3. CASE CapabilitiesRaise
  BY <1>3 DEF CapabilitiesRaise
<1>4. ASSUME NEW p \in Phases, Enter(p) PROVE PhaseInv'
  BY <1>4 DEF Enter
<1>5. ASSUME NEW p \in Phases, Record(p) PROVE PhaseInv'
  BY <1>5, AfterIs DEF Record, RollUp
<1>6. CASE StatementFails
  BY <1>6 DEF StatementFails
<1>7. CASE Authenticate
  BY <1>7, IngestRaises DEF Authenticate, InPhase, Phases
<1>8. ASSUME NEW i \in Instruments, StartFetch(i) PROVE PhaseInv'
  BY <1>8 DEF StartFetch
<1>9. ASSUME NEW i \in Instruments, Receive(i) PROVE PhaseInv'
  BY <1>9 DEF Receive
<1>10. ASSUME NEW i \in Instruments, FetchFails(i) PROVE PhaseInv'
  BY <1>10 DEF FetchFails
<1>11. CASE AllFetched
  BY <1>11 DEF AllFetched
<1>12. CASE FetchRaised
  BY <1>12, IngestRaises DEF FetchRaised, InPhase, Phases
<1>13. CASE Persist
  BY <1>13 DEF Persist
<1>14. CASE PersistRaises
  BY <1>14, IngestRaises DEF PersistRaises, InPhase, Phases
<1>15. CASE Analyze
  <2>1. /\ pc' \in {"analyzing", "analyzed"} /\ (pc' = "analyzing" => cursor < N) /\ pc = "analyzing"
        /\ cursor' = cursor + 1 /\ cursor \in 1..N
        /\ \A i \in Instruments : i # cursor => outcome'["ANALYZE"][i] = outcome["ANALYZE"][i]
        /\ outcome'["ANALYZE"][cursor] # "NONE" /\ (pc' = "analyzed" => cursor = N)
        /\ UNCHANGED <<requested, phaseRow>>
    BY <1>15, AnalyzeTurn
  <2>2. \A i \in 1..cursor : outcome'["ANALYZE"][i] # "NONE"
    <3>1. \A i \in 1..(cursor - 1) : outcome["ANALYZE"][i] # "NONE"
      BY <2>1
    <3>2. \A i \in 1..cursor : i = cursor \/ (i \in 1..(cursor - 1) /\ i \in Instruments)
      BY <2>1
    <3> HIDE CycleAssumption, <1>0 DEF TypeOK, PhaseInv, PhaseAt, BeforeInv, BeforeAt, Instruments
    <3>. QED
      BY <2>1, <3>1, <3>2
  <2>. QED
    BY <2>1, <2>2
<1>16. CASE Score
  <2>1. /\ pc' \in {"scoring", "scoredAll"} /\ (pc' = "scoring" => cursor < N) /\ pc = "scoring"
        /\ cursor' = cursor + 1 /\ cursor \in 1..N
        /\ \A i \in Instruments : i # cursor => outcome'["SCORE"][i] = outcome["SCORE"][i]
        /\ outcome'["SCORE"][cursor] # "NONE" /\ (pc' = "scoredAll" => cursor = N)
        /\ UNCHANGED <<requested, phaseRow>>
    BY <1>16, ScoreTurn
  <2>2. \A i \in 1..cursor : outcome'["SCORE"][i] # "NONE"
    <3>1. \A i \in 1..(cursor - 1) : outcome["SCORE"][i] # "NONE"
      BY <2>1
    <3>2. \A i \in 1..cursor : i = cursor \/ (i \in 1..(cursor - 1) /\ i \in Instruments)
      BY <2>1
    <3> HIDE CycleAssumption, <1>0 DEF TypeOK, PhaseInv, PhaseAt, BeforeInv, BeforeAt, Instruments
    <3>. QED
      BY <2>1, <3>1, <3>2
  <2>. QED
    BY <2>1, <2>2
<1>17. CASE Finalize
  BY <1>17 DEF Finalize
<1>18. CASE Crash
  BY <1>18 DEF Crash
<1>19. CASE Leave
  BY <1>19 DEF Leave
<1>20. CASE Die
  BY <1>20 DEF Die
<1>21. CASE TokenExpires
  BY <1>21 DEF TokenExpires
<1>22. CASE Stream
  BY <1>22 DEF Stream, StreamWrites, StreamCommits
<1>23. CASE UNCHANGED vars
  BY <1>23 DEF vars
<1> HIDE DEF TypeOK, PhaseInv, PhaseAt, BeforeInv, BeforeAt, Open, InPhase, Ended, Phases,
       BeforeAnalyze, BeforeScore, Body, Close, Instruments, Decided, Outcomes, fetchVars,
       workVars, recordVars, endVars
<1>. QED
  BY <1>1, <1>2, <1>3, <1>4, <1>5, <1>6, <1>7, <1>8, <1>9, <1>10, <1>11, <1>12, <1>13, <1>14,
         <1>15, <1>16, <1>17, <1>18, <1>19, <1>20, <1>21, <1>22, <1>23 DEF Next, Step

\* Rows keep agreeing with the outcomes they were rolled up from.
LEMMA RowStep == Inv /\ [Next]_vars => RowInv'
<1> SUFFICES ASSUME Inv, [Next]_vars PROVE RowInv'
  OBVIOUS
<1>0. TypeOK /\ PhaseInv /\ RowInv /\ BeforeInv
  BY DEF Inv
<1> USE CycleAssumption, <1>0 DEF TypeOK, PhaseInv, PhaseAt, RowInv, BeforeInv, BeforeAt, Open,
       InPhase, Ended, Phases, BeforeAnalyze, BeforeScore, Body, Close, Instruments, Decided,
       Outcomes, fetchVars, workVars, recordVars, endVars
<1>1. CASE CapabilitiesKnown
  BY <1>1, AfterIs DEF CapabilitiesKnown
<1>2. CASE ProviderInert
  BY <1>2 DEF ProviderInert
<1>3. CASE CapabilitiesRaise
  BY <1>3 DEF CapabilitiesRaise
<1>4. ASSUME NEW p \in Phases, Enter(p) PROVE RowInv'
  BY <1>4 DEF Enter
<1>5. ASSUME NEW p \in Phases, Record(p) PROVE RowInv'
  <2>1. \A i \in Instruments : outcome[p][i] \in Outcomes \ {"NONE"}
    BY <1>5 DEF Record
  <2>2. phaseRow'[p] = RollUp(p)
    BY <1>5 DEF Record
  <2>3. RollUp(p) = "SUCCEEDED" <=> \A i \in Instruments : outcome[p][i] = "OK"
    <3>1. 1 \in Instruments
      OBVIOUS
    <3>2. ({outcome[p][i] : i \in Instruments} = {"OK"}) <=> \A i \in Instruments : outcome[p][i] = "OK"
      BY ONLY <3>1
    <3>. QED
      BY <3>2 DEF RollUp
  <2>4. \A q \in Phases \ {p} : phaseRow'[q] = phaseRow[q]
    BY <1>5 DEF Record
  <2>. QED
    BY <1>5, <2>1, <2>2, <2>3, <2>4 DEF Record
<1>6. CASE StatementFails
  BY <1>6 DEF StatementFails
<1>7. CASE Authenticate
  BY <1>7, IngestRaises DEF Authenticate, InPhase, Phases
<1>8. ASSUME NEW i \in Instruments, StartFetch(i) PROVE RowInv'
  BY <1>8 DEF StartFetch
<1>9. ASSUME NEW i \in Instruments, Receive(i) PROVE RowInv'
  BY <1>9 DEF Receive
<1>10. ASSUME NEW i \in Instruments, FetchFails(i) PROVE RowInv'
  BY <1>10 DEF FetchFails
<1>11. CASE AllFetched
  BY <1>11 DEF AllFetched
<1>12. CASE FetchRaised
  BY <1>12, IngestRaises DEF FetchRaised, InPhase, Phases
<1>13. CASE Persist
  BY <1>13 DEF Persist
<1>14. CASE PersistRaises
  BY <1>14, IngestRaises DEF PersistRaises, InPhase, Phases
<1>15. CASE Analyze
  BY <1>15, AnalyzeTurn
<1>16. CASE Score
  BY <1>16, ScoreTurn
<1>17. CASE Finalize
  BY <1>17 DEF Finalize
<1>18. CASE Crash
  BY <1>18 DEF Crash
<1>19. CASE Leave
  BY <1>19 DEF Leave
<1>20. CASE Die
  BY <1>20 DEF Die
<1>21. CASE TokenExpires
  BY <1>21 DEF TokenExpires
<1>22. CASE Stream
  BY <1>22 DEF Stream, StreamWrites, StreamCommits
<1>23. CASE UNCHANGED vars
  BY <1>23 DEF vars
<1> HIDE DEF TypeOK, PhaseInv, PhaseAt, RowInv, BeforeInv, BeforeAt, Open, InPhase, Ended, Phases,
       BeforeAnalyze, BeforeScore, Body, Close, Instruments, Decided, Outcomes, fetchVars,
       workVars, recordVars, endVars
<1>. QED
  BY <1>1, <1>2, <1>3, <1>4, <1>5, <1>6, <1>7, <1>8, <1>9, <1>10, <1>11, <1>12, <1>13, <1>14,
         <1>15, <1>16, <1>17, <1>18, <1>19, <1>20, <1>21, <1>22, <1>23 DEF Next, Step

\* Whoever an earlier phase found unfit stays out of the later ones.
LEMMA FitStep == Inv /\ [Next]_vars => FitInv'
<1> SUFFICES ASSUME Inv, [Next]_vars PROVE FitInv'
  OBVIOUS
<1>0. TypeOK /\ PhaseInv /\ FitInv /\ BeforeInv
  BY DEF Inv
<1> USE CycleAssumption, <1>0 DEF TypeOK, PhaseInv, PhaseAt, FitInv, BeforeInv, BeforeAt, Open,
       InPhase, Ended, Phases, BeforeAnalyze, BeforeScore, Body, Close, Instruments, Outcomes,
       Unfit, fetchVars, workVars, recordVars, endVars
<1>1. CASE CapabilitiesKnown
  BY <1>1, AfterIs DEF CapabilitiesKnown
<1>2. CASE ProviderInert
  BY <1>2 DEF ProviderInert
<1>3. CASE CapabilitiesRaise
  BY <1>3 DEF CapabilitiesRaise
<1>4. ASSUME NEW p \in Phases, Enter(p) PROVE FitInv'
  BY <1>4 DEF Enter
<1>5. ASSUME NEW p \in Phases, Record(p) PROVE FitInv'
  BY <1>5, AfterIs DEF Record, Fit
<1>6. CASE StatementFails
  BY <1>6 DEF StatementFails
<1>7. CASE Authenticate
  BY <1>7, IngestRaises DEF Authenticate, InPhase, Phases
<1>8. ASSUME NEW i \in Instruments, StartFetch(i) PROVE FitInv'
  BY <1>8 DEF StartFetch
<1>9. ASSUME NEW i \in Instruments, Receive(i) PROVE FitInv'
  BY <1>9 DEF Receive
<1>10. ASSUME NEW i \in Instruments, FetchFails(i) PROVE FitInv'
  BY <1>10 DEF FetchFails
<1>11. CASE AllFetched
  BY <1>11 DEF AllFetched
<1>12. CASE FetchRaised
  BY <1>12, IngestRaises DEF FetchRaised, InPhase, Phases
<1>13. CASE Persist
  BY <1>13 DEF Persist
<1>14. CASE PersistRaises
  BY <1>14, IngestRaises DEF PersistRaises, InPhase, Phases
<1>15. CASE Analyze
  BY <1>15, AnalyzeTurn
<1>16. CASE Score
  BY <1>16, ScoreTurn
<1>17. CASE Finalize
  BY <1>17 DEF Finalize
<1>18. CASE Crash
  BY <1>18 DEF Crash
<1>19. CASE Leave
  BY <1>19 DEF Leave
<1>20. CASE Die
  BY <1>20 DEF Die
<1>21. CASE TokenExpires
  BY <1>21 DEF TokenExpires
<1>22. CASE Stream
  BY <1>22 DEF Stream, StreamWrites, StreamCommits
<1>23. CASE UNCHANGED vars
  BY <1>23 DEF vars
<1> HIDE DEF TypeOK, PhaseInv, PhaseAt, FitInv, BeforeInv, BeforeAt, Open, InPhase, Ended, Phases,
       BeforeAnalyze, BeforeScore, Body, Close, Instruments, Outcomes, Unfit, fetchVars, workVars,
       recordVars, endVars
<1>. QED
  BY <1>1, <1>2, <1>3, <1>4, <1>5, <1>6, <1>7, <1>8, <1>9, <1>10, <1>11, <1>12, <1>13, <1>14,
         <1>15, <1>16, <1>17, <1>18, <1>19, <1>20, <1>21, <1>22, <1>23 DEF Next, Step

\* Nothing is reported before the end, and then the status.
LEMMA EndStep == Inv /\ [Next]_vars => EndInv'
<1> SUFFICES ASSUME Inv, [Next]_vars PROVE EndInv'
  OBVIOUS
<1>0. TypeOK /\ PhaseInv /\ BeforeInv /\ EndInv
  BY DEF Inv
<1> USE CycleAssumption, <1>0 DEF TypeOK, PhaseInv, PhaseAt, BeforeInv, BeforeAt, EndInv, Open,
       InPhase, Ended, Phases, BeforeAnalyze, BeforeScore, Body, Close, Decided, fetchVars,
       workVars, recordVars, endVars
<1>1. CASE CapabilitiesKnown
  BY <1>1, AfterIs DEF CapabilitiesKnown
<1>2. CASE ProviderInert
  BY <1>2 DEF ProviderInert
<1>3. CASE CapabilitiesRaise
  BY <1>3 DEF CapabilitiesRaise
<1>4. ASSUME NEW p \in Phases, Enter(p) PROVE EndInv'
  BY <1>4 DEF Enter
<1>5. ASSUME NEW p \in Phases, Record(p) PROVE EndInv'
  BY <1>5, AfterIs DEF Record
<1>6. CASE StatementFails
  BY <1>6 DEF StatementFails
<1>7. CASE Authenticate
  BY <1>7, IngestRaises DEF Authenticate, InPhase, Phases
<1>8. ASSUME NEW i \in Instruments, StartFetch(i) PROVE EndInv'
  BY <1>8 DEF StartFetch
<1>9. ASSUME NEW i \in Instruments, Receive(i) PROVE EndInv'
  BY <1>9 DEF Receive
<1>10. ASSUME NEW i \in Instruments, FetchFails(i) PROVE EndInv'
  BY <1>10 DEF FetchFails
<1>11. CASE AllFetched
  BY <1>11 DEF AllFetched
<1>12. CASE FetchRaised
  BY <1>12, IngestRaises DEF FetchRaised, InPhase, Phases
<1>13. CASE Persist
  BY <1>13 DEF Persist
<1>14. CASE PersistRaises
  BY <1>14, IngestRaises DEF PersistRaises, InPhase, Phases
<1>15. CASE Analyze
  BY <1>15, AnalyzeTurn
<1>16. CASE Score
  BY <1>16, ScoreTurn
<1>17. CASE Finalize
  <2>1. FinalStatus' = FinalStatus
    BY <1>17 DEF Finalize, FinalStatus
  <2>2. FinalStatus \in {"FAILED", "SUCCEEDED", "PARTIAL"}
    BY DEF FinalStatus
  <2>3. \A p \in requested : phaseRow[p] \in Decided \cup {"FAILED"}
    BY <1>17 DEF Finalize
  <2>4. status' = FinalStatus /\ hooks' = <<status'>> /\ crashed' = FALSE /\ pc' = "leaving"
    BY <1>17 DEF Finalize
  <2>. QED
    BY <1>17, <2>1, <2>2, <2>3, <2>4 DEF Finalize
<1>18. CASE Crash
  BY <1>18 DEF Crash
<1>19. CASE Leave
  BY <1>19 DEF Leave, FinalStatus
<1>20. CASE Die
  BY <1>20 DEF Die
<1>21. CASE TokenExpires
  BY <1>21 DEF TokenExpires
<1>22. CASE Stream
  <2>1. UNCHANGED <<pc, tx, requested, outcome, phaseRow, status, crashed, hooks>>
    BY <1>22 DEF Stream, StreamWrites, StreamCommits
  <2>2. FinalStatus' = FinalStatus
    BY <2>1 DEF FinalStatus
  <2>3. EndInv
    BY <1>0
  <2>. QED
    BY ONLY <2>1, <2>2, <2>3 DEF EndInv, Open, InPhase, Phases
<1>23. CASE UNCHANGED vars
  BY <1>23 DEF vars, FinalStatus
<1> HIDE DEF TypeOK, PhaseInv, PhaseAt, BeforeInv, BeforeAt, EndInv, Open, InPhase, Ended, Phases,
       BeforeAnalyze, BeforeScore, Body, Close, Decided, fetchVars, workVars, recordVars, endVars
<1>. QED
  BY <1>1, <1>2, <1>3, <1>4, <1>5, <1>6, <1>7, <1>8, <1>9, <1>10, <1>11, <1>12, <1>13, <1>14,
         <1>15, <1>16, <1>17, <1>18, <1>19, <1>20, <1>21, <1>22, <1>23 DEF Next, Step

\* The initial state satisfies the invariant.
LEMMA InitInv == Init => Inv
<1> SUFFICES ASSUME Init PROVE Inv
  OBVIOUS
<1> USE CycleAssumption DEF Init, Instruments, Phases
<1>1. TypeOK
  <2>1. /\ pc \in Open \cup {"leaving"} \cup Ended /\ tx \in {"ok", "aborted"} /\ requested \subseteq Phases
    BY DEF Open
  <2>4. cursor \in 1..(N + 1) /\ eligible \subseteq Instruments
    OBVIOUS
  <2>5. status \in {"RUNNING", "FAILED", "SUCCEEDED", "PARTIAL"} /\ crashed \in BOOLEAN
    BY Zenon
  <2>2. /\ fetch \in [Instruments -> {"queued", "D1", "M1", "raised"} \cup Fetched]
        /\ got \in [Instruments -> SUBSET {"D1", "M1"}]
        /\ stored \in [Instruments -> SUBSET {"D1", "M1"}]
        /\ results \in [Instruments -> Parts] /\ scored \in [Instruments -> Parts]
    BY DEF Parts
  <2>3. /\ outcome \in [Phases -> [Instruments -> Outcomes]]
        /\ phaseRow \in [Phases -> {"NONE", "RUNNING", "FAILED"} \cup Decided]
    BY DEF Outcomes
  <2>. QED
    BY ONLY <2>1, <2>2, <2>3, <2>4, <2>5 DEF TypeOK
<1>2. FetchInv /\ WorkInv
  BY DEF FetchInv, WorkInv
<1>3. BeforeInv /\ RowInv
  BY DEF BeforeInv, BeforeAt, RowInv, Decided
<1>4. PhaseInv
  BY DEF PhaseInv, PhaseAt
<1>5. FitInv /\ EndInv
  BY DEF FitInv, EndInv, Unfit, Open, InPhase
<1>. QED
  BY <1>1, <1>2, <1>3, <1>4, <1>5 DEF Inv

\* Inv is an invariant of the specification.
LEMMA InvHolds == Spec => []Inv
<1>1. Inv /\ [Next]_vars => Inv'
  BY TypeStep, FetchStep, WorkStep, BeforeStep, PhaseStep, RowStep, FitStep, EndStep DEF Inv
<1>. QED
  BY <1>1, InitInv, PTL DEF Spec

-----------------------------------------------------------------------------
\* A committed run that says SUCCEEDED did all it was asked for, of every
\* instrument: every phase asked for is behind it with every outcome OK, and OK
\* is only said of an instrument whose series are stored, whose plan is analysed
\* wholly, whose timeframes are all scored.
THEOREM SucceededHolds == Spec => []SucceededIsComplete
<1>1. Inv => SucceededIsComplete
  <2> SUFFICES ASSUME Inv, pc = "committed", status = "SUCCEEDED", NEW i \in Instruments
               PROVE  SucceededIsComplete!2!(i)
    BY DEF SucceededIsComplete
  <2>1. status = FinalStatus
    BY DEF Inv, TypeOK, EndInv
  <2>2. \A p \in requested : outcome[p][i] = "OK"
    BY <2>1 DEF FinalStatus
  <2>. QED
    BY <2>2 DEF Inv, WorkInv
<1>. QED
  BY <1>1, InvHolds, PTL

\* Nothing is computed of an instrument that an earlier phase of the run found
\* unfit, whatever the phases in between are.
THEOREM DownstreamHolds == Spec => []DownstreamOnlyFit
<1>1. Inv => DownstreamOnlyFit
  BY DEF Inv, FitInv, Unfit, DownstreamOnlyFit
<1>. QED
  BY <1>1, InvHolds, PTL

\* A committed run explains its status by its phases and their outcomes.
THEOREM StatusHolds == Spec => []StatusExplained
<1>1. Inv => StatusExplained
  <2> SUFFICES ASSUME Inv, pc = "committed" PROVE StatusExplained
    BY DEF StatusExplained
  <2> USE CycleAssumption DEF Inv, TypeOK, Phases, Decided
  <2>1. \A p \in Phases \ requested : phaseRow[p] = "NONE"
    BY DEF BeforeInv, BeforeAt
  <2>2. CASE crashed
    BY <2>2 DEF StatusExplained, EndInv
  <2>3. CASE ~crashed /\ status = "FAILED" /\ \A p \in requested : phaseRow[p] = "FAILED"
    BY <2>1, <2>3, ZenonT(20) DEF StatusExplained
  <2>4. CASE ~crashed /\ status = FinalStatus
    <3>1. \A p \in requested : phaseRow[p] \in Decided \cup {"FAILED"}
      BY <2>4 DEF EndInv
    <3>2. status = "FAILED" <=> \E p \in Phases : phaseRow[p] = "FAILED"
      BY <2>1, <2>4 DEF FinalStatus
    <3>3. ASSUME status = "PARTIAL" PROVE \E p \in requested, i \in Instruments : outcome[p][i] \notin {"NONE", "OK"}
      <4>1. PICK p \in requested : ~(phaseRow[p] = "SUCCEEDED" /\ \A i \in Instruments : outcome[p][i] = "OK")
        BY <2>4, <3>3 DEF FinalStatus
      <4>2. phaseRow[p] \in Decided
        BY <2>4, <3>1, <3>3, <4>1 DEF FinalStatus
      <4>. QED
        BY <4>1, <4>2 DEF RowInv
    <3>4. status # "RUNNING" /\ \A p \in Phases : phaseRow[p] # "RUNNING"
      BY <2>1, <3>1 DEF EndInv
    <3>5. \A p \in requested : phaseRow[p] # "NONE"
      BY <3>1
    <3>. QED
      BY <2>4, <3>2, <3>3, <3>4, <3>5 DEF StatusExplained
  <2>. QED
    BY <2>2, <2>3, <2>4 DEF EndInv
<1>. QED
  BY <1>1, InvHolds, PTL

\* Subscribers hear of a committed run once, and hear the status it has.
THEOREM HooksHold == Spec => []HooksReportStatus
<1>1. Inv => HooksReportStatus
  BY DEF Inv, EndInv, HooksReportStatus
<1>. QED
  BY <1>1, InvHolds, PTL
=============================================================================
