---------------------------- MODULE RunLifecycle ----------------------------
(***************************************************************************)
(* How execution cycles are started, numbered, run and recorded by the     *)
(* processes of the platform: scheduler ticks and CLI cycles               *)
(* (worker/scheduler.py, worker/cli.py), asynchronous POST /runs requests  *)
(* (api/routers/runs.py) and readiness probes (api/routers/health.py).     *)
(* They meet in PostgreSQL: the session-level advisory lock of             *)
(* worker_context (worker/deps.py) and the analysis_runs table             *)
(* (worker/cycle.py, db/repositories/sqlalchemy.py).                       *)
(*                                                                         *)
(* The lock belongs to a pooled connection, may be taken again by the      *)
(* connection that holds it, survives a rollback and the return of the     *)
(* connection to its pool, and ends only with an unlock or with the        *)
(* connection.  worker_context releases it inside session_scope, that is   *)
(* before the commit.                                                      *)
(***************************************************************************)
EXTENDS Integers, FiniteSets

CONSTANTS
    Ticks,       \* run_scheduled_cycle calls and analytical-worker run-cycle
    Posts,       \* POST /runs requests, each with its background task
    Probes,      \* GET /health/ready requests
    Procs,       \* operating-system processes (API server, worker, CLI)
    Conns,       \* database connections, each in the pool of one process
    ProcOf,      \* [Flows -> Procs]
    NoConn,
    PoolOf,      \* [Conns -> Procs]
    KeyOf,       \* [Posts -> Keys \cup {NoKey}]: the Idempotency-Key header
    NoKey,
    Configs,     \* contents of app_settings
    MaxFaults    \* bound: database errors and process crashes in a behaviour

Flows == Ticks \cup Posts \cup Probes

Running == "RUNNING"
Final == {"SUCCEEDED", "PARTIAL", "FAILED"}

ASSUME FlowAssumption ==
    /\ Ticks \cap Posts = {} /\ Ticks \cap Probes = {} /\ Posts \cap Probes = {}
    /\ ProcOf \in [Flows -> Procs]
    /\ PoolOf \in [Conns -> Procs]
    /\ NoConn \notin Conns
    /\ DOMAIN KeyOf = Posts
    /\ MaxFaults \in Nat

VARIABLES
    pc,         \* where each flow is
    conn,       \* the connection of the flow's open session, or NoConn
    held,       \* how many times each connection holds the advisory lock
    runs,       \* committed analysis_runs rows, by id
    tx,         \* the row a flow has written and not committed: {} or {row}
    seq,        \* the cycle_seq a flow has computed
    rid,        \* the id a flow has drawn from the sequence
    cfg,        \* the app_settings a flow has loaded
    nextId,     \* analysis_runs_id_seq
    settings,   \* committed app_settings
    faults

flowVars == <<pc, conn, tx, seq, rid, cfg>>
vars == <<pc, conn, held, runs, tx, seq, rid, cfg, nextId, settings, faults>>

(* "locked" .. "leaving" are inside worker_context; "aborted" is inside it *)
(* too, with an exception on its way through the finally clauses.          *)
Inside == {"locked", "numbered", "drawn", "executing", "leaving", "aborted"}

PCs == Inside \cup {"idle", "looking", "committing", "scheduled", "unstarted",
                    "probing", "busy", "replayed", "done", "error", "killed"}

Ended == {"busy", "replayed", "done", "error", "killed"}

Row == [id : Nat, seq : Nat, status : Final \cup {Running}, key : {NoKey} \cup {KeyOf[f] : f \in Posts},
        cfg : Configs, by : Flows]

Init ==
    /\ pc = [f \in Flows |-> "idle"]
    /\ conn = [f \in Flows |-> NoConn]
    /\ held = [c \in Conns |-> 0]
    /\ runs = [i \in {} |-> {}]
    /\ tx = [f \in Flows |-> {}]
    /\ seq = [f \in Flows |-> 0]
    /\ rid = [f \in Flows |-> 0]
    /\ settings \in Configs
    /\ cfg = [f \in Flows |-> settings]
    /\ nextId = 1
    /\ faults = 0

-----------------------------------------------------------------------------
(* Connections and the advisory lock *)

Free(c) == \A f \in Flows : conn[f] # c

\* Slip: the result of pg_try_advisory_lock is ignored.
LockableIgnored(c) == TRUE

\* pg_try_advisory_lock succeeds unless another connection has the key.
Lockable(c) == \A d \in Conns \ {c} : held[d] = 0

\* MAX(cycle_seq) over the committed rows, 0 when there is none.
Nums == {runs[i].seq : i \in DOMAIN runs}
LargestOf(S) == IF S = {} THEN 0 ELSE CHOOSE n \in S : \A m \in S : m <= n
MaxSeq == LargestOf(Nums)

\* The first session of a POST creates the row, the second executes it.
RowCommitted(f) == rid[f] \in DOMAIN runs

KeyOfFlow(f) == IF f \in Posts THEN KeyOf[f] ELSE NoKey

-----------------------------------------------------------------------------
(* worker_context *)

\* Where a flow stands before it enters worker_context.
AtEntry(f) == \/ f \in Ticks /\ pc[f] = "idle"
              \/ f \in Posts /\ pc[f] \in {"looking", "scheduled"}

\* The lock is granted: load_app_settings, and the body starts.
EnterContext(f) ==
    /\ AtEntry(f)
    /\ \E c \in Conns :
          /\ Free(c) /\ PoolOf[c] = ProcOf[f] /\ Lockable(c)
          /\ conn' = [conn EXCEPT ![f] = c]
          /\ held' = [held EXCEPT ![c] = @ + 1]
    /\ cfg' = [cfg EXCEPT ![f] = settings]
    /\ pc' = [pc EXCEPT ![f] = IF pc[f] = "scheduled" THEN "executing" ELSE "locked"]
    /\ UNCHANGED <<runs, tx, seq, rid, nextId, settings, faults>>

\* Slip: the background task drops SingleFlightBusy like a tick does.
FindBusyForgets(f) ==
    /\ AtEntry(f)
    /\ \E c \in Conns : Free(c) /\ PoolOf[c] = ProcOf[f] /\ ~Lockable(c)
    /\ pc' = [pc EXCEPT ![f] = "busy"]
    /\ UNCHANGED <<conn, held, runs, tx, seq, rid, cfg, nextId, settings, faults>>

\* SingleFlightBusy: a tick is skipped, a request answered 409, and a
\* background task goes to _fail_pending.
FindBusy(f) ==
    /\ AtEntry(f)
    /\ \E c \in Conns : Free(c) /\ PoolOf[c] = ProcOf[f] /\ ~Lockable(c)
    /\ pc' = [pc EXCEPT ![f] = IF pc[f] = "scheduled" THEN "unstarted" ELSE "busy"]
    /\ UNCHANGED <<conn, held, runs, tx, seq, rid, cfg, nextId, settings, faults>>

\* The finally clause unlocks while the transaction is still open.
LeaveContext(f) ==
    /\ pc[f] = "leaving"
    /\ held' = [held EXCEPT ![conn[f]] = @ - 1]
    /\ pc' = [pc EXCEPT ![f] = "committing"]
    /\ UNCHANGED <<conn, runs, tx, seq, rid, cfg, nextId, settings, faults>>

\* Where a flow goes when worker_context raises: run_scheduled_cycle logs,
\* POST answers 500, the background task fails its row.
AfterRaise(f) == IF RowCommitted(f) THEN "unstarted" ELSE "error"

\* Slip: the session is not closed when the unlock raises.
AbortContextKeepsConn(f) ==
    /\ pc[f] = "aborted"
    /\ tx' = [tx EXCEPT ![f] = {}]
    /\ pc' = [pc EXCEPT ![f] = AfterRaise(f)]
    /\ UNCHANGED <<conn, held, runs, seq, rid, cfg, nextId, settings, faults>>

\* In an aborted transaction pg_advisory_unlock is itself refused: the
\* session rolls back, and its connection goes back to the pool still
\* holding the lock.
AbortContext(f) ==
    /\ pc[f] = "aborted"
    /\ tx' = [tx EXCEPT ![f] = {}]
    /\ conn' = [conn EXCEPT ![f] = NoConn]
    /\ pc' = [pc EXCEPT ![f] = AfterRaise(f)]
    /\ UNCHANGED <<held, runs, seq, rid, cfg, nextId, settings, faults>>

\* session_scope commits and closes; a POST then queues its background task.
CommitSession(f) ==
    /\ pc[f] = "committing"
    /\ runs' = [i \in DOMAIN runs \cup {r.id : r \in tx[f]} |->
                   IF \E r \in tx[f] : r.id = i
                   THEN CHOOSE r \in tx[f] : r.id = i ELSE runs[i]]
    /\ tx' = [tx EXCEPT ![f] = {}]
    /\ conn' = [conn EXCEPT ![f] = NoConn]
    /\ pc' = [pc EXCEPT ![f] = IF f \in Posts /\ ~RowCommitted(f) THEN "scheduled" ELSE "done"]
    /\ UNCHANGED <<held, seq, rid, cfg, nextId, settings, faults>>

\* Slip: a failed commit is not rolled back.
CommitFailsKeepsTx(f) ==
    /\ pc[f] = "committing"
    /\ faults < MaxFaults /\ faults' = faults + 1
    /\ conn' = [conn EXCEPT ![f] = NoConn]
    /\ pc' = [pc EXCEPT ![f] = AfterRaise(f)]
    /\ UNCHANGED <<held, tx, runs, seq, rid, cfg, nextId, settings>>

\* The commit fails and session_scope rolls back.
CommitFails(f) ==
    /\ pc[f] = "committing"
    /\ faults < MaxFaults /\ faults' = faults + 1
    /\ tx' = [tx EXCEPT ![f] = {}]
    /\ conn' = [conn EXCEPT ![f] = NoConn]
    /\ pc' = [pc EXCEPT ![f] = AfterRaise(f)]
    /\ UNCHANGED <<held, runs, seq, rid, cfg, nextId, settings>>

-----------------------------------------------------------------------------
(* create_pending_run and run_cycle *)

NextCycleSeq(f) ==
    /\ pc[f] = "locked"
    /\ seq' = [seq EXCEPT ![f] = MaxSeq + 1]
    /\ pc' = [pc EXCEPT ![f] = "numbered"]
    /\ UNCHANGED <<conn, held, runs, tx, rid, cfg, nextId, settings, faults>>

\* The INSERT draws its id first; the draw is never rolled back.
DrawId(f) ==
    /\ pc[f] = "numbered"
    /\ rid' = [rid EXCEPT ![f] = nextId]
    /\ nextId' = nextId + 1
    /\ pc' = [pc EXCEPT ![f] = "drawn"]
    /\ UNCHANGED <<conn, held, runs, tx, seq, cfg, settings, faults>>

NewRow(f) == [id |-> rid[f], seq |-> seq[f], status |-> Running,
              key |-> KeyOfFlow(f), cfg |-> cfg[f], by |-> f]

\* The UNIQUE index on cycle_seq: an insert waits for the transaction that
\* has written the same value, and fails when a committed row has it.
Waits(f) == \E g \in Flows \ {f} : \E r \in tx[g] : r.seq = seq[f]
\* Slip: no unique index.
CollidesNever(f) == FALSE
Collides(f) == \E i \in DOMAIN runs : runs[i].seq = seq[f]

CreateRun(f) ==
    /\ pc[f] = "drawn"
    /\ ~Waits(f) /\ ~Collides(f)
    /\ tx' = [tx EXCEPT ![f] = {NewRow(f)}]
    /\ pc' = [pc EXCEPT ![f] = IF f \in Posts THEN "leaving" ELSE "executing"]
    /\ UNCHANGED <<conn, held, runs, seq, rid, cfg, nextId, settings, faults>>

CreateRunFails(f) ==
    /\ pc[f] = "drawn"
    /\ ~Waits(f) /\ Collides(f)
    /\ pc' = [pc EXCEPT ![f] = "aborted"]
    /\ UNCHANGED <<conn, held, runs, tx, seq, rid, cfg, nextId, settings, faults>>

\* The row run_cycle finalises: its own uncommitted one, or the committed
\* row of its POST.
OwnRow(f) == IF f \in Posts THEN runs[rid[f]] ELSE CHOOSE r \in tx[f] : TRUE

\* The phases ran (or raised, which finalises FAILED); finalize_run.
RunCycle(f) ==
    /\ pc[f] = "executing"
    /\ \E s \in Final : tx' = [tx EXCEPT ![f] = {[OwnRow(f) EXCEPT !.status = s]}]
    /\ pc' = [pc EXCEPT ![f] = "leaving"]
    /\ UNCHANGED <<conn, held, runs, seq, rid, cfg, nextId, settings, faults>>

\* A statement fails, and the server refuses every later one of this
\* transaction.  run_cycle absorbs the exception; the finalised row is lost.
StatementFails(f) ==
    /\ pc[f] \in {"locked", "numbered", "executing"}
    /\ faults < MaxFaults /\ faults' = faults + 1
    /\ pc' = [pc EXCEPT ![f] = "aborted"]
    /\ UNCHANGED <<conn, held, runs, tx, seq, rid, cfg, nextId, settings>>

-----------------------------------------------------------------------------
(* run_scheduled_cycle, trigger_run, _fail_pending, ready, PATCH /config *)

\* Outside the session window a tick is a no-op.
GateClosed(f) ==
    /\ f \in Ticks /\ pc[f] = "idle"
    /\ pc' = [pc EXCEPT ![f] = "done"]
    /\ UNCHANGED <<conn, held, runs, tx, seq, rid, cfg, nextId, settings, faults>>

\* find_run_by_idempotency_key, inside the idempotency window.
Prior(f) == {i \in DOMAIN runs : KeyOf[f] # NoKey /\ runs[i].key = KeyOf[f]}

TriggerRun(f) ==
    /\ f \in Posts /\ pc[f] = "idle"
    /\ pc' = [pc EXCEPT ![f] = IF Prior(f) = {} THEN "looking" ELSE "replayed"]
    /\ UNCHANGED <<conn, held, runs, tx, seq, rid, cfg, nextId, settings, faults>>

\* _fail_pending: one short transaction of its own, without the lock.
FailPending(f) ==
    /\ pc[f] = "unstarted"
    /\ runs' = [runs EXCEPT ![rid[f]].status = "FAILED"]
    /\ pc' = [pc EXCEPT ![f] = "done"]
    /\ UNCHANGED <<conn, held, tx, seq, rid, cfg, nextId, settings, faults>>

\* It logs and gives up when that transaction fails too.
FailPendingFails(f) ==
    /\ pc[f] = "unstarted"
    /\ faults < MaxFaults /\ faults' = faults + 1
    /\ pc' = [pc EXCEPT ![f] = "error"]
    /\ UNCHANGED <<conn, held, runs, tx, seq, rid, cfg, nextId, settings>>

\* ready() takes the cycle's lock to learn whether a cycle runs ...
ProbeLock(f) ==
    /\ f \in Probes /\ pc[f] = "idle"
    /\ \E c \in Conns :
          /\ Free(c) /\ PoolOf[c] = ProcOf[f]
          /\ IF Lockable(c)
             THEN /\ conn' = [conn EXCEPT ![f] = c]
                  /\ held' = [held EXCEPT ![c] = @ + 1]
                  /\ pc' = [pc EXCEPT ![f] = "probing"]
             ELSE /\ pc' = [pc EXCEPT ![f] = "done"]
                  /\ UNCHANGED <<conn, held>>
    /\ UNCHANGED <<runs, tx, seq, rid, cfg, nextId, settings, faults>>

\* ... and gives it back.
ProbeUnlock(f) ==
    /\ pc[f] = "probing"
    /\ held' = [held EXCEPT ![conn[f]] = @ - 1]
    /\ conn' = [conn EXCEPT ![f] = NoConn]
    /\ pc' = [pc EXCEPT ![f] = "done"]
    /\ UNCHANGED <<runs, tx, seq, rid, cfg, nextId, settings, faults>>

PatchConfig ==
    /\ \E s \in Configs \ {settings} : settings' = s
    /\ UNCHANGED <<flowVars, held, runs, nextId, faults>>

\* A process dies: the server ends its connections, rolls their
\* transactions back and frees their locks.  It restarts with a fresh pool.
Crash(p) ==
    /\ faults < MaxFaults /\ faults' = faults + 1
    /\ LET dead(f) == ProcOf[f] = p /\ pc[f] \notin Ended \cup {"idle"}
       IN  /\ pc' = [f \in Flows |-> IF dead(f) THEN "killed" ELSE pc[f]]
           /\ conn' = [f \in Flows |-> IF dead(f) THEN NoConn ELSE conn[f]]
           /\ tx' = [f \in Flows |-> IF dead(f) THEN {} ELSE tx[f]]
    /\ held' = [c \in Conns |-> IF PoolOf[c] = p THEN 0 ELSE held[c]]
    /\ UNCHANGED <<runs, seq, rid, cfg, nextId, settings>>

-----------------------------------------------------------------------------
\* What the code does of its own accord, once a flow has begun.
Step(f) ==
    \/ EnterContext(f) \/ FindBusy(f) \/ LeaveContext(f) \/ AbortContext(f)
    \/ CommitSession(f) \/ NextCycleSeq(f) \/ DrawId(f) \/ CreateRun(f)
    \/ CreateRunFails(f) \/ RunCycle(f) \/ TriggerRun(f) \/ FailPending(f)
    \/ ProbeLock(f) \/ ProbeUnlock(f)

Fault(f) == StatementFails(f) \/ CommitFails(f) \/ FailPendingFails(f)

Next == \/ \E f \in Flows : Step(f) \/ Fault(f) \/ GateClosed(f)
        \/ PatchConfig
        \/ \E p \in Procs : Crash(p)

Spec == Init /\ [][Next]_vars

\* Threads are scheduled and statements return: every flow that can take a
\* step of its own keeps doing so.  RunCycle is one of them: that the cycle
\* itself comes to an end, which the stream's uncommitted rows may prevent,
\* is Cycle!CycleEnds and its condition.
FairSpec == Spec /\ \A f \in Flows : WF_vars(pc[f] # "idle" /\ Step(f))

-----------------------------------------------------------------------------
\* The variables keep their types, and a flow has a connection exactly
\* while its session is open.
TypeOK ==
    /\ pc \in [Flows -> PCs]
    /\ conn \in [Flows -> Conns \cup {NoConn}]
    /\ held \in [Conns -> Nat]
    /\ DOMAIN runs \subseteq Nat /\ \A i \in DOMAIN runs : runs[i] \in Row /\ runs[i].id = i
    /\ tx \in [Flows -> SUBSET Row] /\ \A f \in Flows : \A r, s \in tx[f] : r = s
    /\ seq \in [Flows -> Nat]
    /\ rid \in [Flows -> Nat]
    /\ cfg \in [Flows -> Configs]
    /\ nextId \in Nat \ {0}
    /\ settings \in Configs
    /\ faults \in 0..MaxFaults
    /\ \A f \in Flows : pc[f] \in Inside \cup {"committing", "probing"} <=> conn[f] # NoConn

\* Single flight (docs/02 3.7, "at most one cycle at a time"): no two flows
\* are inside worker_context, or between a probe's two statements, at once,
\* whatever connections have leaked the lock and whoever has crashed.
HasLock(f) == pc[f] \in Inside \cup {"probing"}
MutualExclusion == \A f, g \in Flows : HasLock(f) /\ HasLock(g) => f = g

\* A committed row that says RUNNING still has somebody who will close it,
\* unless its process was killed or _fail_pending itself failed.
OpenRowsAreOwned ==
    \A i \in DOMAIN runs :
        runs[i].status = Running =>
            LET f == runs[i].by
            IN  /\ f \in Posts /\ rid[f] = i
                /\ \/ pc[f] \in {"scheduled", "executing", "leaving", "aborted",
                                 "committing", "unstarted"}
                   \/ pc[f] \in {"killed", "error"} /\ faults > 0

\* Readers of analysis_runs see the RunLedger: dense numbering in id order,
\* no row lost, renumbered or reopened.
committed == [i \in DOMAIN runs |-> [seq |-> runs[i].seq, status |-> runs[i].status]]
Ledger == INSTANCE RunLedger WITH Statuses <- Final \cup {Running}, ledger <- committed
ImplementsLedger == Ledger!Spec

\* Whoever begins also ends: nobody waits for ever on the unique index or on
\* the lock, even after the lock has leaked or a process died.
EveryFlowEnds == \A f \in Flows : pc[f] # "idle" ~> pc[f] \in Ended

\* Without crashes and database errors, a run that POST has answered 202 for
\* gets a final status.
AcceptedRunsEnd ==
    \A f \in Posts : pc[f] = "scheduled" ~>
        (faults > 0 \/ (RowCommitted(f) /\ runs[rid[f]].status \in Final))

-----------------------------------------------------------------------------
(* The inductive invariant behind MutualExclusion and ImplementsLedger. *)

\* Which flows can be where.
KindInv ==
    \A f \in Flows :
        /\ pc[f] \in {"looking", "scheduled", "unstarted"} => f \in Posts
        /\ pc[f] = "probing" => f \in Probes
        /\ pc[f] \in Inside \cup {"committing"} => f \in Ticks \cup Posts

\* A session has its connection to itself, a flow with the lock holds it
\* through its connection, and all holds of the lock are on one connection.
LockInv ==
    /\ \A f, g \in Flows : conn[f] = conn[g] /\ conn[f] # NoConn => f = g
    /\ \A f \in Flows : conn[f] # NoConn => PoolOf[conn[f]] = ProcOf[f]
    /\ \A f \in Flows : HasLock(f) => held[conn[f]] > 0
    /\ \A c, d \in Conns : held[c] > 0 /\ held[d] > 0 => c = d

\* Ids are drawn once and belong to the flow that drew them.
IdInv ==
    /\ \A i \in DOMAIN runs : 0 < i /\ i < nextId
    /\ \A f \in Flows : /\ rid[f] < nextId
                        /\ pc[f] \in {"idle", "looking", "locked", "numbered"} => rid[f] = 0
                        /\ \A g \in Flows : rid[f] = rid[g] /\ rid[f] # 0 => f = g

\* What a flow has written, and what of it is committed, at each place.
TxOK(f) ==
    /\ tx[f] # {} => pc[f] \in {"executing", "leaving", "committing", "aborted"}
    /\ pc[f] \in {"leaving", "committing"} => tx[f] # {}
    /\ \A r \in tx[f] : r.id = rid[f] /\ rid[f] # 0
    /\ pc[f] = "drawn" => ~RowCommitted(f) /\ rid[f] # 0
    /\ pc[f] \in {"scheduled", "unstarted"} => RowCommitted(f)
    /\ pc[f] = "executing" => IF f \in Posts THEN RowCommitted(f) /\ tx[f] = {}
                                            ELSE ~RowCommitted(f) /\ tx[f] # {}
    /\ RowCommitted(f) /\ pc[f] \in (Inside \cup {"committing", "scheduled", "unstarted"})
          => f \in Posts /\ runs[rid[f]].status = Running
    /\ \A r \in tx[f] : IF RowCommitted(f)
                      THEN r.seq = runs[rid[f]].seq /\ r.status \in Final
                      ELSE f \in Posts => r.status = Running
TxInv == \A f \in Flows : TxOK(f)

\* n is no committed number, or the next one.
NextOrTaken(n) == n > 0 /\ \A m \in 1..(n - 1) : m \in Nums

\* Committed numbers are dense; a computed number is the next one or has
\* been taken meanwhile, and then rows with later ids are not below it; at
\* most one uncommitted row is new, and it is the next one in every respect.
NumOK(f) ==
    /\ pc[f] \in {"numbered", "drawn"} => NextOrTaken(seq[f])
    /\ pc[f] = "drawn" => \A i \in DOMAIN runs : i > rid[f] => runs[i].seq >= seq[f]
    /\ \A r \in tx[f] : ~RowCommitted(f) =>
          /\ NextOrTaken(r.seq) /\ r.seq \notin Nums
          /\ \A i \in DOMAIN runs : i < rid[f]
          /\ \A g \in Flows : tx[g] # {} /\ ~RowCommitted(g) => f = g

NumInv == /\ MaxSeq \in Nat /\ Nums = 1..MaxSeq
          /\ \A f \in Flows : NumOK(f)

Inv == TypeOK /\ KindInv /\ LockInv /\ IdInv /\ TxInv /\ NumInv

-----------------------------------------------------------------------------
(* What the documents and comments say, and the code does not do. *)

\* worker/deps.py:35 and docs/07-API-SPEC.md:108: a flow is turned away only
\* because a cycle (or the creation of one) is holding the lock.
BusyMeansCycle ==
    [][\A f \in Flows : pc[f] # "busy" /\ pc'[f] = "busy" =>
           \E g \in Ticks \cup Posts : g # f /\ pc[g] \in Inside]_vars

\* api/routers/runs.py:5-7: a repeated Idempotency-Key replays the existing
\* run instead of starting another cycle.
OneRunPerKey ==
    \A i, j \in DOMAIN runs : runs[i].key # NoKey /\ runs[i].key = runs[j].key => i = j

\* worker/cycle.py:101-103: the app_settings folded into a cycle's effective
\* configuration are the ones its row's config_snapshot records.
SnapshotIsEffective == \A f \in Flows : pc[f] = "executing" => OwnRow(f).cfg = cfg[f]
=============================================================================
