------------------------- MODULE RunLifecycleProofs -------------------------
(***************************************************************************)
(* Proofs about RunLifecycle, for any number of flows, processes and       *)
(* connections and any number of faults: the types, single flight, that    *)
(* the committed analysis_runs table implements RunLedger, and that an     *)
(* open row has an owner.                                                  *)
(*                                                                         *)
(* The inductive invariant Inv is proved one conjunct at a time; each      *)
(* preservation lemma has one step per action.                             *)
(***************************************************************************)
EXTENDS RunLifecycle, TLAPS

\* The types are preserved.
LEMMA TypeStep == Inv /\ [Next]_vars => TypeOK'
<1> SUFFICES ASSUME Inv, [Next]_vars PROVE TypeOK'
  OBVIOUS
<1> USE FlowAssumption DEF Inv, TypeOK
<1>1. ASSUME NEW f \in Flows, EnterContext(f) PROVE TypeOK'
  BY <1>1 DEF EnterContext, AtEntry, Inside, PCs, KindInv
<1>2. ASSUME NEW f \in Flows, FindBusy(f) PROVE TypeOK'
  BY <1>2 DEF FindBusy, AtEntry, Inside, PCs
<1>3. ASSUME NEW f \in Flows, LeaveContext(f) PROVE TypeOK'
  BY <1>3 DEF LeaveContext, Inside, PCs, LockInv, HasLock
<1>4. ASSUME NEW f \in Flows, AbortContext(f) PROVE TypeOK'
  BY <1>4 DEF AbortContext, Inside, PCs, AfterRaise
<1>5. ASSUME NEW f \in Flows, CommitSession(f) PROVE TypeOK'
  <2> USE <1>5 DEF CommitSession
  <2>1. \A r \in tx[f] : r \in Row /\ r.id \in Nat
    BY DEF Row
  <2>2. DOMAIN runs' \subseteq Nat /\ \A i \in DOMAIN runs' : runs'[i] \in Row /\ runs'[i].id = i
    <3>1. DOMAIN runs' = DOMAIN runs \cup {r.id : r \in tx[f]}
      OBVIOUS
    <3>2. SUFFICES ASSUME NEW i \in DOMAIN runs' PROVE runs'[i] \in Row /\ runs'[i].id = i
      BY <2>1, <3>1
    <3>3. CASE \E r \in tx[f] : r.id = i
      BY <2>1, <3>3
    <3>4. CASE ~ \E r \in tx[f] : r.id = i
      BY <3>1, <3>4
    <3>. QED
      BY <3>3, <3>4
  <2>3. pc' \in [Flows -> PCs] /\ tx' \in [Flows -> SUBSET Row] /\ conn' \in [Flows -> Conns \cup {NoConn}]
    BY DEF PCs, Inside
  <2>4. \A g \in Flows : pc'[g] \in Inside \cup {"committing", "probing"} <=> conn'[g] # NoConn
    BY DEF PCs, Inside
  <2>5. \A g \in Flows : \A r, s \in tx'[g] : r = s
    OBVIOUS
  <2>. QED
    BY <2>2, <2>3, <2>4, <2>5
<1>6. ASSUME NEW f \in Flows, NextCycleSeq(f) PROVE TypeOK'
  BY <1>6 DEF NextCycleSeq, Inside, PCs, NumInv
<1>7. ASSUME NEW f \in Flows, DrawId(f) PROVE TypeOK'
  BY <1>7 DEF DrawId, Inside, PCs
<1>8. ASSUME NEW f \in Flows, CreateRun(f) PROVE TypeOK'
  <2>1. NewRow(f) \in Row
    BY <1>8 DEF NewRow, Row, KeyOfFlow
  <2>. QED
    BY <1>8, <2>1 DEF CreateRun, Inside, PCs
<1>9. ASSUME NEW f \in Flows, CreateRunFails(f) PROVE TypeOK'
  BY <1>9 DEF CreateRunFails, Inside, PCs
<1>10. ASSUME NEW f \in Flows, RunCycle(f) PROVE TypeOK'
  <2>1. OwnRow(f) \in Row
    BY <1>10 DEF RunCycle, OwnRow, TxInv, TxOK, RowCommitted
  <2>2. \A s \in Final : [OwnRow(f) EXCEPT !.status = s] \in Row
    BY <2>1 DEF Row
  <2>. QED
    BY <1>10, <2>2 DEF RunCycle, Inside, PCs
<1>11. ASSUME NEW f \in Flows, TriggerRun(f) PROVE TypeOK'
  BY <1>11 DEF TriggerRun, Inside, PCs
<1>12. ASSUME NEW f \in Flows, FailPending(f) PROVE TypeOK'
  <2>1. rid[f] \in DOMAIN runs
    BY <1>12 DEF FailPending, TxInv, TxOK, RowCommitted
  <2>2. [runs[rid[f]] EXCEPT !.status = "FAILED"] \in Row /\ [runs[rid[f]] EXCEPT !.status = "FAILED"].id = rid[f]
    BY <2>1 DEF Row, Final
  <2>3. DOMAIN runs' = DOMAIN runs /\ \A i \in DOMAIN runs : runs'[i] \in Row /\ runs'[i].id = i
    BY <1>12, <2>1, <2>2 DEF FailPending
  <2>4. /\ pc' \in [Flows -> PCs]
        /\ \A g \in Flows : pc'[g] \in Inside \cup {"committing", "probing"} <=> conn'[g] # NoConn
    BY <1>12 DEF FailPending, PCs, Inside
  <2>. QED
    BY <1>12, <2>3, <2>4 DEF FailPending
<1>13. ASSUME NEW f \in Flows, ProbeLock(f) PROVE TypeOK'
  BY <1>13 DEF ProbeLock, Inside, PCs
<1>14. ASSUME NEW f \in Flows, ProbeUnlock(f) PROVE TypeOK'
  BY <1>14 DEF ProbeUnlock, Inside, PCs, LockInv, HasLock
<1>15. ASSUME NEW f \in Flows, StatementFails(f) PROVE TypeOK'
  BY <1>15 DEF StatementFails, Inside, PCs
<1>16. ASSUME NEW f \in Flows, CommitFails(f) PROVE TypeOK'
  BY <1>16 DEF CommitFails, Inside, PCs, AfterRaise
<1>17. ASSUME NEW f \in Flows, FailPendingFails(f) PROVE TypeOK'
  BY <1>17 DEF FailPendingFails, Inside, PCs
<1>18. ASSUME NEW f \in Flows, GateClosed(f) PROVE TypeOK'
  BY <1>18 DEF GateClosed, Inside, PCs
<1>19. CASE PatchConfig
  BY <1>19 DEF PatchConfig, flowVars
<1>20. ASSUME NEW p \in Procs, Crash(p) PROVE TypeOK'
  <2> DEFINE dead(f) == ProcOf[f] = p /\ pc[f] \notin Ended \cup {"idle"}
  <2> USE <1>20 DEF Crash
  <2>1. \A f \in Flows : dead(f) => pc'[f] = "killed" /\ conn'[f] = NoConn /\ tx'[f] = {}
    OBVIOUS
  <2>2. \A f \in Flows : ~dead(f) => pc'[f] = pc[f] /\ conn'[f] = conn[f] /\ tx'[f] = tx[f]
    OBVIOUS
  <2>3. pc' \in [Flows -> PCs] /\ tx' \in [Flows -> SUBSET Row] /\ conn' \in [Flows -> Conns \cup {NoConn}]
    BY DEF PCs
  <2>4. \A f \in Flows : pc'[f] \in Inside \cup {"committing", "probing"} <=> conn'[f] # NoConn
    BY <2>1, <2>2 DEF Inside
  <2>5. held' \in [Conns -> Nat] /\ faults' \in 0..MaxFaults
    OBVIOUS
  <2>6. \A f \in Flows : \A r, s \in tx'[f] : r = s
    BY <2>1, <2>2
  <2>. QED
    BY <2>3, <2>4, <2>5, <2>6
<1>21. CASE UNCHANGED vars
  BY <1>21 DEF vars
<1>. QED
  BY <1>1, <1>2, <1>3, <1>4, <1>5, <1>6, <1>7, <1>8, <1>9, <1>10, <1>11, <1>12, <1>13, <1>14, <1>15, <1>16, <1>17, <1>18, <1>19, <1>20, <1>21 DEF Next, Step, Fault

\* Flows stay on the path of their kind.
LEMMA KindStep == Inv /\ [Next]_vars => KindInv'
<1> SUFFICES ASSUME Inv, [Next]_vars PROVE KindInv'
  OBVIOUS
<1> USE FlowAssumption DEF Inv, TypeOK, KindInv, Inside
<1>1. ASSUME NEW f \in Flows, EnterContext(f) PROVE KindInv'
  BY <1>1 DEF EnterContext, AtEntry, TxInv, TxOK, RowCommitted
<1>2. ASSUME NEW f \in Flows, FindBusy(f) PROVE KindInv'
  BY <1>2 DEF FindBusy, AtEntry, TxInv, TxOK, RowCommitted
<1>3. ASSUME NEW f \in Flows, LeaveContext(f) PROVE KindInv'
  BY <1>3 DEF LeaveContext, TxInv, TxOK, RowCommitted
<1>4. ASSUME NEW f \in Flows, AbortContext(f) PROVE KindInv'
  BY <1>4 DEF AbortContext, AfterRaise, TxInv, TxOK, RowCommitted
<1>5. ASSUME NEW f \in Flows, CommitSession(f) PROVE KindInv'
  BY <1>5 DEF CommitSession, TxInv, TxOK, RowCommitted
<1>6. ASSUME NEW f \in Flows, NextCycleSeq(f) PROVE KindInv'
  BY <1>6 DEF NextCycleSeq, TxInv, TxOK, RowCommitted
<1>7. ASSUME NEW f \in Flows, DrawId(f) PROVE KindInv'
  BY <1>7 DEF DrawId, TxInv, TxOK, RowCommitted
<1>8. ASSUME NEW f \in Flows, CreateRun(f) PROVE KindInv'
  BY <1>8 DEF CreateRun, TxInv, TxOK, RowCommitted
<1>9. ASSUME NEW f \in Flows, CreateRunFails(f) PROVE KindInv'
  BY <1>9 DEF CreateRunFails, TxInv, TxOK, RowCommitted
<1>10. ASSUME NEW f \in Flows, RunCycle(f) PROVE KindInv'
  BY <1>10 DEF RunCycle, TxInv, TxOK, RowCommitted
<1>11. ASSUME NEW f \in Flows, TriggerRun(f) PROVE KindInv'
  BY <1>11 DEF TriggerRun, TxInv, TxOK, RowCommitted
<1>12. ASSUME NEW f \in Flows, FailPending(f) PROVE KindInv'
  BY <1>12 DEF FailPending, TxInv, TxOK, RowCommitted
<1>13. ASSUME NEW f \in Flows, ProbeLock(f) PROVE KindInv'
  BY <1>13 DEF ProbeLock, TxInv, TxOK, RowCommitted
<1>14. ASSUME NEW f \in Flows, ProbeUnlock(f) PROVE KindInv'
  BY <1>14 DEF ProbeUnlock, TxInv, TxOK, RowCommitted
<1>15. ASSUME NEW f \in Flows, StatementFails(f) PROVE KindInv'
  BY <1>15 DEF StatementFails, TxInv, TxOK, RowCommitted
<1>16. ASSUME NEW f \in Flows, CommitFails(f) PROVE KindInv'
  BY <1>16 DEF CommitFails, AfterRaise, TxInv, TxOK, RowCommitted
<1>17. ASSUME NEW f \in Flows, FailPendingFails(f) PROVE KindInv'
  BY <1>17 DEF FailPendingFails, TxInv, TxOK, RowCommitted
<1>18. ASSUME NEW f \in Flows, GateClosed(f) PROVE KindInv'
  BY <1>18 DEF GateClosed, TxInv, TxOK, RowCommitted
<1>19. CASE PatchConfig
  BY <1>19 DEF PatchConfig, flowVars
<1>20. ASSUME NEW p \in Procs, Crash(p) PROVE KindInv'
  BY <1>20 DEF Crash, Ended
<1>21. CASE UNCHANGED vars
  BY <1>21 DEF vars
<1>. QED
  BY <1>1, <1>2, <1>3, <1>4, <1>5, <1>6, <1>7, <1>8, <1>9, <1>10, <1>11, <1>12, <1>13, <1>14, <1>15, <1>16, <1>17, <1>18, <1>19, <1>20, <1>21 DEF Next, Step, Fault

\* The lock stays with one connection, and a connection with one session.
LEMMA LockStep == Inv /\ [Next]_vars => LockInv'
<1> SUFFICES ASSUME Inv, [Next]_vars PROVE LockInv'
  OBVIOUS
<1> USE FlowAssumption DEF Inv, TypeOK, LockInv, HasLock, Inside
<1>1. ASSUME NEW f \in Flows, EnterContext(f) PROVE LockInv'
  BY <1>1 DEF EnterContext, AtEntry, Lockable, Free, KindInv
<1>2. ASSUME NEW f \in Flows, FindBusy(f) PROVE LockInv'
  BY <1>2 DEF FindBusy, AtEntry, Lockable, Free, KindInv
<1>3. ASSUME NEW f \in Flows, LeaveContext(f) PROVE LockInv'
  BY <1>3 DEF LeaveContext, Lockable, Free, KindInv
<1>4. ASSUME NEW f \in Flows, AbortContext(f) PROVE LockInv'
  BY <1>4 DEF AbortContext, Lockable, Free, AfterRaise, KindInv
<1>5. ASSUME NEW f \in Flows, CommitSession(f) PROVE LockInv'
  BY <1>5 DEF CommitSession, Lockable, Free, KindInv
<1>6. ASSUME NEW f \in Flows, NextCycleSeq(f) PROVE LockInv'
  BY <1>6 DEF NextCycleSeq, Lockable, Free, KindInv
<1>7. ASSUME NEW f \in Flows, DrawId(f) PROVE LockInv'
  BY <1>7 DEF DrawId, Lockable, Free, KindInv
<1>8. ASSUME NEW f \in Flows, CreateRun(f) PROVE LockInv'
  BY <1>8 DEF CreateRun, Lockable, Free, KindInv
<1>9. ASSUME NEW f \in Flows, CreateRunFails(f) PROVE LockInv'
  BY <1>9 DEF CreateRunFails, Lockable, Free, KindInv
<1>10. ASSUME NEW f \in Flows, RunCycle(f) PROVE LockInv'
  BY <1>10 DEF RunCycle, Lockable, Free, KindInv
<1>11. ASSUME NEW f \in Flows, TriggerRun(f) PROVE LockInv'
  BY <1>11 DEF TriggerRun, Lockable, Free, KindInv
<1>12. ASSUME NEW f \in Flows, FailPending(f) PROVE LockInv'
  BY <1>12 DEF FailPending, Lockable, Free, KindInv
<1>13. ASSUME NEW f \in Flows, ProbeLock(f) PROVE LockInv'
  BY <1>13 DEF ProbeLock, Lockable, Free, KindInv
<1>14. ASSUME NEW f \in Flows, ProbeUnlock(f) PROVE LockInv'
  BY <1>14 DEF ProbeUnlock, Lockable, Free, KindInv
<1>15. ASSUME NEW f \in Flows, StatementFails(f) PROVE LockInv'
  BY <1>15 DEF StatementFails, Lockable, Free, KindInv
<1>16. ASSUME NEW f \in Flows, CommitFails(f) PROVE LockInv'
  BY <1>16 DEF CommitFails, Lockable, Free, AfterRaise, KindInv
<1>17. ASSUME NEW f \in Flows, FailPendingFails(f) PROVE LockInv'
  BY <1>17 DEF FailPendingFails, Lockable, Free, KindInv
<1>18. ASSUME NEW f \in Flows, GateClosed(f) PROVE LockInv'
  BY <1>18 DEF GateClosed, Lockable, Free, KindInv
<1>19. CASE PatchConfig
  BY <1>19 DEF PatchConfig, flowVars
<1>20. ASSUME NEW p \in Procs, Crash(p) PROVE LockInv'
  BY <1>20 DEF Crash, Ended, KindInv
<1>21. CASE UNCHANGED vars
  BY <1>21 DEF vars
<1>. QED
  BY <1>1, <1>2, <1>3, <1>4, <1>5, <1>6, <1>7, <1>8, <1>9, <1>10, <1>11, <1>12, <1>13, <1>14, <1>15, <1>16, <1>17, <1>18, <1>19, <1>20, <1>21 DEF Next, Step, Fault

\* Ids are drawn once.
LEMMA IdStep == Inv /\ [Next]_vars => IdInv'
<1> SUFFICES ASSUME Inv, [Next]_vars PROVE IdInv'
  OBVIOUS
<1> USE FlowAssumption DEF Inv, TypeOK, IdInv
<1>1. ASSUME NEW f \in Flows, EnterContext(f) PROVE IdInv'
  BY <1>1 DEF EnterContext, AtEntry, KindInv, Inside
<1>2. ASSUME NEW f \in Flows, FindBusy(f) PROVE IdInv'
  BY <1>2 DEF FindBusy, AtEntry, KindInv, Inside
<1>3. ASSUME NEW f \in Flows, LeaveContext(f) PROVE IdInv'
  BY <1>3 DEF LeaveContext, KindInv, Inside
<1>4. ASSUME NEW f \in Flows, AbortContext(f) PROVE IdInv'
  BY <1>4 DEF AbortContext, AfterRaise, KindInv, Inside
<1>5. ASSUME NEW f \in Flows, CommitSession(f) PROVE IdInv'
  BY <1>5 DEF CommitSession, TxInv, TxOK, RowCommitted
<1>6. ASSUME NEW f \in Flows, NextCycleSeq(f) PROVE IdInv'
  BY <1>6 DEF NextCycleSeq, KindInv, Inside
<1>7. ASSUME NEW f \in Flows, DrawId(f) PROVE IdInv'
  BY <1>7 DEF DrawId, KindInv, Inside
<1>8. ASSUME NEW f \in Flows, CreateRun(f) PROVE IdInv'
  BY <1>8 DEF CreateRun, KindInv, Inside
<1>9. ASSUME NEW f \in Flows, CreateRunFails(f) PROVE IdInv'
  BY <1>9 DEF CreateRunFails, KindInv, Inside
<1>10. ASSUME NEW f \in Flows, RunCycle(f) PROVE IdInv'
  BY <1>10 DEF RunCycle, KindInv, Inside
<1>11. ASSUME NEW f \in Flows, TriggerRun(f) PROVE IdInv'
  BY <1>11 DEF TriggerRun, KindInv, Inside
<1>12. ASSUME NEW f \in Flows, FailPending(f) PROVE IdInv'
  BY <1>12 DEF FailPending, KindInv, Inside
<1>13. ASSUME NEW f \in Flows, ProbeLock(f) PROVE IdInv'
  BY <1>13 DEF ProbeLock, KindInv, Inside
<1>14. ASSUME NEW f \in Flows, ProbeUnlock(f) PROVE IdInv'
  BY <1>14 DEF ProbeUnlock, KindInv, Inside
<1>15. ASSUME NEW f \in Flows, StatementFails(f) PROVE IdInv'
  BY <1>15 DEF StatementFails, KindInv, Inside
<1>16. ASSUME NEW f \in Flows, CommitFails(f) PROVE IdInv'
  BY <1>16 DEF CommitFails, AfterRaise, KindInv, Inside
<1>17. ASSUME NEW f \in Flows, FailPendingFails(f) PROVE IdInv'
  BY <1>17 DEF FailPendingFails, KindInv, Inside
<1>18. ASSUME NEW f \in Flows, GateClosed(f) PROVE IdInv'
  BY <1>18 DEF GateClosed, KindInv, Inside
<1>19. CASE PatchConfig
  BY <1>19 DEF PatchConfig, flowVars
<1>20. ASSUME NEW p \in Procs, Crash(p) PROVE IdInv'
  BY <1>20 DEF Crash, Ended
<1>21. CASE UNCHANGED vars
  BY <1>21 DEF vars
<1>. QED
  BY <1>1, <1>2, <1>3, <1>4, <1>5, <1>6, <1>7, <1>8, <1>9, <1>10, <1>11, <1>12, <1>13, <1>14, <1>15, <1>16, <1>17, <1>18, <1>19, <1>20, <1>21 DEF Next, Step, Fault

\* What each flow has written and committed.
LEMMA TxStep == Inv /\ [Next]_vars => TxInv'
<1> SUFFICES ASSUME Inv, [Next]_vars PROVE TxInv'
  OBVIOUS
<1> USE FlowAssumption DEF Inv, TypeOK, TxInv, TxOK, RowCommitted, Inside
<1>1. ASSUME NEW f \in Flows, EnterContext(f) PROVE TxInv'
  BY <1>1 DEF EnterContext, AtEntry, KindInv, IdInv
<1>2. ASSUME NEW f \in Flows, FindBusy(f) PROVE TxInv'
  BY <1>2 DEF FindBusy, AtEntry, KindInv
<1>3. ASSUME NEW f \in Flows, LeaveContext(f) PROVE TxInv'
  BY <1>3 DEF LeaveContext, KindInv
<1>4. ASSUME NEW f \in Flows, AbortContext(f) PROVE TxInv'
  BY <1>4 DEF AbortContext, AfterRaise, KindInv
<1>5. ASSUME NEW f \in Flows, CommitSession(f) PROVE TxInv'
  <2>1. PICK r : tx[f] = {r} /\ r \in Row /\ r.id = rid[f]
    BY <1>5 DEF CommitSession
  <2>2. runs' = [i \in DOMAIN runs \cup {rid[f]} |-> IF i = rid[f] THEN r ELSE runs[i]]
    BY <1>5, <2>1 DEF CommitSession
  <2>3. \A g \in Flows \ {f} : /\ RowCommitted(g)' <=> RowCommitted(g)
                               /\ RowCommitted(g) => runs'[rid[g]] = runs[rid[g]]
    BY <1>5, <2>1, <2>2 DEF CommitSession, IdInv
  <2>4. /\ rid' = rid /\ tx' = [tx EXCEPT ![f] = {}]
        /\ pc' = [pc EXCEPT ![f] = IF f \in Posts /\ ~RowCommitted(f) THEN "scheduled" ELSE "done"]
    BY <1>5 DEF CommitSession
  <2>5. rid'[f] \in DOMAIN runs' /\ runs'[rid'[f]] = r /\ tx'[f] = {}
    BY <2>2, <2>4
  <2>6. TxOK(f)'
    <3>1. pc'[f] = "scheduled" => f \in Posts /\ r.status = Running
      BY <2>1, <2>4
    <3>2. pc'[f] \in {"scheduled", "done"}
      BY <2>4
    <3>. QED
      BY <2>4, <2>5, <3>1, <3>2
  <2>7. \A g \in Flows \ {f} : TxOK(g)'
    <3> SUFFICES ASSUME NEW g \in Flows, g # f PROVE TxOK(g)'
      OBVIOUS
    <3>1. TxOK(g) /\ pc'[g] = pc[g] /\ tx'[g] = tx[g] /\ rid'[g] = rid[g]
      BY <2>4
    <3>2. (rid'[g] \in DOMAIN runs' <=> rid[g] \in DOMAIN runs) /\ (rid[g] \in DOMAIN runs => runs'[rid'[g]] = runs[rid[g]])
      BY <2>3, <2>4
    <3>. QED
      BY <3>1, <3>2
  <2>. QED
    BY <2>6, <2>7
<1>6. ASSUME NEW f \in Flows, NextCycleSeq(f) PROVE TxInv'
  BY <1>6 DEF NextCycleSeq, KindInv
<1>7. ASSUME NEW f \in Flows, DrawId(f) PROVE TxInv'
  BY <1>7 DEF DrawId, KindInv, IdInv
<1>8. ASSUME NEW f \in Flows, CreateRun(f) PROVE TxInv'
  <2>1. NewRow(f).id = rid[f] /\ NewRow(f).status = Running
    BY DEF NewRow
  <2>. QED
    BY <1>8, <2>1 DEF CreateRun, KindInv
<1>9. ASSUME NEW f \in Flows, CreateRunFails(f) PROVE TxInv'
  BY <1>9 DEF CreateRunFails, KindInv
<1>10. ASSUME NEW f \in Flows, RunCycle(f) PROVE TxInv'
  <2>1. PICK s \in Final : tx' = [tx EXCEPT ![f] = {[OwnRow(f) EXCEPT !.status = s]}]
    BY <1>10 DEF RunCycle
  <2>2. OwnRow(f) \in Row /\ OwnRow(f).id = rid[f]
    BY <1>10 DEF RunCycle, OwnRow, KindInv
  <2>3. f \in Posts => OwnRow(f).seq = runs[rid[f]].seq
    BY DEF OwnRow
  <2> DEFINE r == [OwnRow(f) EXCEPT !.status = s]
  <2>4. r.id = rid[f] /\ r.status \in Final /\ r.seq = OwnRow(f).seq
    BY <2>2 DEF Row
  <2> HIDE DEF r
  <2>5. /\ tx' = [tx EXCEPT ![f] = {r}]
        /\ pc[f] = "executing" /\ pc' = [pc EXCEPT ![f] = "leaving"]
        /\ rid' = rid /\ runs' = runs
    BY <1>10, <2>1 DEF RunCycle, r
  <2>6. TxOK(f)'
    <3>1. TxOK(f) /\ pc[f] = "executing"
      BY <2>5
    <3>2. tx'[f] = {r} /\ pc'[f] = "leaving"
      BY <2>5
    <3>3. rid[f] # 0
      BY <3>1 DEF IdInv
    <3>. QED
      BY <2>3, <2>4, <2>5, <3>1, <3>2, <3>3
  <2>7. \A g \in Flows \ {f} : TxOK(g)'
    BY <2>5
  <2>. QED
    BY <2>6, <2>7
<1>11. ASSUME NEW f \in Flows, TriggerRun(f) PROVE TxInv'
  BY <1>11 DEF TriggerRun, KindInv
<1>12. ASSUME NEW f \in Flows, FailPending(f) PROVE TxInv'
  BY <1>12 DEF FailPending, KindInv, IdInv
<1>13. ASSUME NEW f \in Flows, ProbeLock(f) PROVE TxInv'
  BY <1>13 DEF ProbeLock, KindInv
<1>14. ASSUME NEW f \in Flows, ProbeUnlock(f) PROVE TxInv'
  BY <1>14 DEF ProbeUnlock, KindInv
<1>15. ASSUME NEW f \in Flows, StatementFails(f) PROVE TxInv'
  BY <1>15 DEF StatementFails, KindInv
<1>16. ASSUME NEW f \in Flows, CommitFails(f) PROVE TxInv'
  BY <1>16 DEF CommitFails, AfterRaise, KindInv
<1>17. ASSUME NEW f \in Flows, FailPendingFails(f) PROVE TxInv'
  BY <1>17 DEF FailPendingFails, KindInv
<1>18. ASSUME NEW f \in Flows, GateClosed(f) PROVE TxInv'
  BY <1>18 DEF GateClosed, KindInv
<1>19. CASE PatchConfig
  BY <1>19 DEF PatchConfig, flowVars
<1>20. ASSUME NEW p \in Procs, Crash(p) PROVE TxInv'
  BY <1>20 DEF Crash, Ended, KindInv
<1>21. CASE UNCHANGED vars
  BY <1>21 DEF vars
<1>. QED
  BY <1>1, <1>2, <1>3, <1>4, <1>5, <1>6, <1>7, <1>8, <1>9, <1>10, <1>11, <1>12, <1>13, <1>14, <1>15, <1>16, <1>17, <1>18, <1>19, <1>20, <1>21 DEF Next, Step, Fault

\* MAX over a dense range is its end.
LEMMA MaxOfRange ==
    ASSUME NEW S, NEW n \in Nat, S = 1..n
    PROVE  LargestOf(S) = n
<1>1. CASE n = 0
  BY <1>1 DEF LargestOf
<1>2. CASE n # 0
  <2>1. n \in S /\ (\A m \in S : m <= n) /\ S # {}
    BY <1>2
  <2>2. \A k \in S : (\A m \in S : m <= k) => k = n
    BY <2>1
  <2>. QED
    BY <2>1, <2>2 DEF LargestOf
<1>. QED
  BY <1>1, <1>2

\* As long as the committed rows stay, so do the numbers.
LEMMA SameRows ==
    ASSUME runs' = runs
    PROVE  MaxSeq' = MaxSeq /\ Nums' = Nums /\ (\A n : NextOrTaken(n)' <=> NextOrTaken(n))
BY DEF MaxSeq, Nums, NextOrTaken
\* Over dense numbers, "the next or taken" means at most one above the last,
\* and what is not taken is the next.
LEMMA NextIsMax ==
    ASSUME NumInv, NEW n \in Nat, NextOrTaken(n)
    PROVE  n <= MaxSeq + 1 /\ (n \notin Nums => n = MaxSeq + 1)
<1>1. SUFFICES ASSUME n > MaxSeq + 1 PROVE FALSE
  BY DEF NumInv, NextOrTaken
<1>2. MaxSeq + 1 \in 1..(n - 1)
  BY <1>1 DEF NumInv
<1>3. MaxSeq + 1 \in 1..MaxSeq
  BY <1>2 DEF NumInv, NextOrTaken
<1>. QED
  BY <1>3 DEF NumInv

\* The numbering is preserved.
LEMMA NumStep == Inv /\ [Next]_vars => NumInv'
<1> SUFFICES ASSUME Inv, [Next]_vars PROVE NumInv'
  OBVIOUS
<1> USE FlowAssumption DEF Inv, TypeOK, NumInv, NumOK, RowCommitted
<1>1. ASSUME NEW f \in Flows, EnterContext(f) PROVE NumInv'
  BY <1>1, SameRows DEF EnterContext, AtEntry
<1>2. ASSUME NEW f \in Flows, FindBusy(f) PROVE NumInv'
  BY <1>2, SameRows DEF FindBusy, AtEntry
<1>3. ASSUME NEW f \in Flows, LeaveContext(f) PROVE NumInv'
  BY <1>3, SameRows DEF LeaveContext
<1>4. ASSUME NEW f \in Flows, AbortContext(f) PROVE NumInv'
  BY <1>4, SameRows DEF AbortContext, AfterRaise
<1>5. ASSUME NEW f \in Flows, CommitSession(f) PROVE NumInv'
  <2>0. TxOK(f) /\ pc[f] = "committing" /\ tx[f] # {} /\ rid[f] # 0
    BY <1>5 DEF CommitSession, TxInv, TxOK
  <2>1. PICK r : tx[f] = {r} /\ r \in Row /\ r.id = rid[f]
    <3>1. PICK r \in tx[f] : TRUE
      BY <2>0
    <3>2. tx[f] = {r} /\ r \in Row /\ r.id = rid[f]
      BY <2>0, <3>1 DEF TxOK
    <3>. QED
      BY <3>2
  <2>2. runs' = [i \in DOMAIN runs \cup {rid[f]} |-> IF i = rid[f] THEN r ELSE runs[i]]
    BY <1>5, <2>1 DEF CommitSession
  <2>3. /\ rid' = rid /\ tx' = [tx EXCEPT ![f] = {}] /\ seq' = seq
        /\ pc' = [pc EXCEPT ![f] = IF f \in Posts /\ ~RowCommitted(f) THEN "scheduled" ELSE "done"]
    BY <1>5 DEF CommitSession
  <2>4. pc'[f] \notin {"numbered", "drawn"} /\ tx'[f] = {}
    BY <2>3
  <2>5. \A g \in Flows \ {f} : /\ pc'[g] = pc[g] /\ tx'[g] = tx[g]
                               /\ RowCommitted(g)' <=> RowCommitted(g)
    BY <2>0, <2>2, <2>3 DEF IdInv
  <2>6. CASE RowCommitted(f)
    <3>1. DOMAIN runs' = DOMAIN runs /\ \A i \in DOMAIN runs : runs'[i].seq = runs[i].seq
      <4>1. r.seq = runs[rid[f]].seq
        BY <2>0, <2>1, <2>6 DEF TxOK
      <4>0. rid[f] \in DOMAIN runs
        BY <2>6 DEF RowCommitted
      <4>2. DOMAIN runs' = DOMAIN runs
        <5> HIDE FlowAssumption DEF Inv, TypeOK, NumInv, NumOK, RowCommitted
        <5>. QED
          BY <2>2, <4>0
      <4>3. \A i \in DOMAIN runs : runs'[i] = IF i = rid[f] THEN r ELSE runs[i]
        BY <2>2, <2>6
      <4>. QED
        BY <4>1, <4>2, <4>3
    <3>2. Nums' = Nums
      BY <3>1 DEF Nums
    <3>3. MaxSeq' = MaxSeq /\ \A n : NextOrTaken(n)' <=> NextOrTaken(n)
      BY <3>2 DEF MaxSeq, NextOrTaken
    <3>4. \A g \in Flows : NumOK(g)'
      BY <2>3, <2>4, <2>5, <3>1, <3>2, <3>3, SMTT(30)
    <3>. QED
      BY <3>2, <3>3, <3>4
  <2>7. CASE ~RowCommitted(f)
    <3>1. r.seq = MaxSeq + 1 /\ \A i \in DOMAIN runs : i < rid[f]
      BY <2>1, <2>7, NextIsMax DEF Row
    <3>2. Nums' = Nums \cup {MaxSeq + 1}
      <4>1. \A i \in DOMAIN runs : i # rid[f] /\ runs'[i] = runs[i]
        BY <2>2, <2>7
      <4>2. rid[f] \in DOMAIN runs' /\ runs'[rid[f]].seq = MaxSeq + 1
        BY <2>2, <3>1
      <4>3. DOMAIN runs' = DOMAIN runs \cup {rid[f]}
        BY <2>2
      <4>. QED
        BY <4>1, <4>2, <4>3 DEF Nums
    <3>3. Nums' = 1..(MaxSeq + 1)
      BY <3>2
    <3>4. MaxSeq' = MaxSeq + 1
      BY <3>3, MaxOfRange DEF MaxSeq
    <3>5. \A g \in Flows \ {f} : tx'[g] # {} => RowCommitted(g)'
      BY <2>1, <2>5, <2>7
    <3>6. \A n : NextOrTaken(n) => NextOrTaken(n)'
      BY <3>2 DEF NextOrTaken
    <3>7. \A g \in Flows \ {f} : pc[g] = "drawn" => \A i \in DOMAIN runs' : i > rid[g] => runs'[i].seq >= seq[g]
      <4> SUFFICES ASSUME NEW g \in Flows \ {f}, pc[g] = "drawn", NEW i \in DOMAIN runs', i > rid[g]
                   PROVE  runs'[i].seq >= seq[g]
        OBVIOUS
      <4>1. CASE i = rid[f]
        <5>1. NextOrTaken(seq[g])
          OBVIOUS
        <5>2. seq[g] <= MaxSeq + 1
          BY <5>1, NextIsMax
        <5>. QED
          BY <2>2, <3>1, <4>1, <5>2
      <4>2. CASE i # rid[f]
        BY <2>2, <4>2
      <4>. QED
        BY <4>1, <4>2
    <3>8. \A g \in Flows : NumOK(g)'
      BY <2>3, <2>4, <2>5, <3>5, <3>6, <3>7
    <3>. QED
      BY <3>3, <3>4, <3>8
  <2>. QED
    BY <2>6, <2>7
<1>6. ASSUME NEW f \in Flows, NextCycleSeq(f) PROVE NumInv'
  <2>1. NextOrTaken(MaxSeq + 1)
    BY DEF NextOrTaken
  <2>. QED
    BY <1>6, <2>1, SameRows DEF NextCycleSeq
<1>7. ASSUME NEW f \in Flows, DrawId(f) PROVE NumInv'
  <2>1. tx[f] = {} /\ pc[f] = "numbered"
    BY <1>7 DEF DrawId, TxInv, TxOK
  <2>2. \A i \in DOMAIN runs : ~(i > nextId)
    BY DEF IdInv
  <2>3. NumOK(f)'
    BY <1>7, <2>1, <2>2, SameRows DEF DrawId
  <2>4. \A g \in Flows \ {f} : NumOK(g)'
    BY <1>7, <2>1, SameRows DEF DrawId
  <2>. QED
    BY <1>7, <2>3, <2>4, SameRows DEF DrawId
<1>8. ASSUME NEW f \in Flows, CreateRun(f) PROVE NumInv'
  <2> USE SameRows
  <2>1. /\ pc[f] = "drawn" /\ tx[f] = {} /\ ~RowCommitted(f) /\ rid[f] # 0
        /\ NextOrTaken(seq[f]) /\ seq[f] \notin Nums
    BY <1>8 DEF CreateRun, TxInv, TxOK, Collides, Nums
  <2>2. seq[f] = MaxSeq + 1
    BY <2>1, NextIsMax
  <2>3. \A i \in DOMAIN runs : i < rid[f]
    <3> SUFFICES ASSUME NEW i \in DOMAIN runs, i >= rid[f] PROVE FALSE
      OBVIOUS
    <3>1. runs[i].seq >= seq[f]
      BY <2>1
    <3>2. runs[i].seq \in 1..MaxSeq
      BY DEF Nums
    <3>. QED
      BY <2>2, <3>1, <3>2
  <2>4. \A g \in Flows : tx[g] # {} => RowCommitted(g)
    <3> SUFFICES ASSUME NEW g \in Flows, NEW r \in tx[g], ~RowCommitted(g) PROVE FALSE
      OBVIOUS
    <3>1. r.seq = MaxSeq + 1
      <4>1. NextOrTaken(r.seq) /\ r.seq \notin Nums /\ r.seq \in Nat
        BY DEF Row
      <4>. QED
        BY <4>1, NextIsMax
    <3>2. g # f
      BY <2>1
    <3>. QED
      BY <1>8, <2>2, <3>1, <3>2 DEF CreateRun, Waits
  <2>5. /\ tx' = [tx EXCEPT ![f] = {NewRow(f)}] /\ runs' = runs /\ rid' = rid /\ seq' = seq
        /\ pc' = [pc EXCEPT ![f] = IF f \in Posts THEN "leaving" ELSE "executing"]
    BY <1>8 DEF CreateRun
  <2>6. NewRow(f).seq = seq[f]
    BY DEF NewRow
  <2>7. NumOK(f)'
    BY <2>1, <2>3, <2>4, <2>5, <2>6
  <2>8. \A g \in Flows \ {f} : NumOK(g)'
    BY <2>4, <2>5
  <2>. QED
    BY <2>5, <2>7, <2>8
<1>9. ASSUME NEW f \in Flows, CreateRunFails(f) PROVE NumInv'
  BY <1>9, SameRows DEF CreateRunFails
<1>10. ASSUME NEW f \in Flows, RunCycle(f) PROVE NumInv'
  <2> USE SameRows
  <2>1. PICK s \in Final : tx' = [tx EXCEPT ![f] = {[OwnRow(f) EXCEPT !.status = s]}]
    BY <1>10 DEF RunCycle
  <2>2. /\ pc[f] = "executing" /\ pc' = [pc EXCEPT ![f] = "leaving"]
        /\ runs' = runs /\ rid' = rid /\ seq' = seq
    BY <1>10 DEF RunCycle
  <2>3. tx'[f] # {} /\ \A g \in Flows \ {f} : tx'[g] = tx[g]
    BY <2>1, ZenonT(20)
  <2>4. ~RowCommitted(f) => tx[f] # {} /\ f \notin Posts
    BY <2>2 DEF TxInv, TxOK
  <2>5. ~RowCommitted(f) => \A r \in tx'[f] : \E q \in tx[f] : r.seq = q.seq
    <3> SUFFICES ASSUME ~RowCommitted(f) PROVE \A r \in tx'[f] : \E q \in tx[f] : r.seq = q.seq
      OBVIOUS
    <3>1. OwnRow(f) \in tx[f] /\ OwnRow(f) \in Row
      BY <2>4 DEF OwnRow
    <3>2. \A q \in Row : [q EXCEPT !.status = s].seq = q.seq
      BY DEF Row
    <3>3. tx'[f] = {[OwnRow(f) EXCEPT !.status = s]}
      BY <2>1
    <3> HIDE FlowAssumption DEF Inv, TypeOK, NumInv, NumOK, RowCommitted, SameRows
    <3>. QED
      BY <3>1, <3>2, <3>3
  <2>6. NumOK(f)'
    <3>1. pc'[f] = "leaving"
      BY <2>2
    <3>2. NumOK(f) /\ \A h \in Flows : tx'[h] # {} /\ ~RowCommitted(h) => tx[h] # {}
      BY <2>3, <2>4
    <3>3. ASSUME NEW r \in tx'[f], ~RowCommitted(f)
          PROVE  /\ NextOrTaken(r.seq) /\ r.seq \notin Nums
                 /\ \A i \in DOMAIN runs : i < rid[f]
                 /\ \A g \in Flows : tx'[g] # {} /\ ~RowCommitted(g) => f = g
      <4>1. PICK q \in tx[f] : r.seq = q.seq
        BY <2>5, <3>3
      <4>. QED
        BY <3>2, <3>3, <4>1
    <3>. QED
      BY <2>2, <3>1, <3>3
  <2>7. \A g \in Flows \ {f} : NumOK(g)'
    <3> SUFFICES ASSUME NEW g \in Flows, g # f PROVE NumOK(g)'
      OBVIOUS
    <3>1. pc'[g] = pc[g] /\ tx'[g] = tx[g]
      BY <2>2, <2>3
    <3>2. \A h \in Flows : tx'[h] # {} /\ ~RowCommitted(h) => tx[h] # {}
      BY <2>3, <2>4
    <3>3. NumOK(g)
      OBVIOUS
    <3>. QED
      BY <2>2, <3>1, <3>2, <3>3
  <2>. QED
    BY <2>2, <2>6, <2>7
<1>11. ASSUME NEW f \in Flows, TriggerRun(f) PROVE NumInv'
  BY <1>11, SameRows DEF TriggerRun
<1>12. ASSUME NEW f \in Flows, FailPending(f) PROVE NumInv'
  <2>1. /\ rid[f] \in DOMAIN runs /\ tx' = tx /\ rid' = rid /\ seq' = seq
        /\ runs' = [runs EXCEPT ![rid[f]].status = "FAILED"]
        /\ pc' = [pc EXCEPT ![f] = "done"]
    BY <1>12 DEF FailPending, TxInv, TxOK
  <2>2. DOMAIN runs' = DOMAIN runs /\ \A i \in DOMAIN runs : runs'[i].seq = runs[i].seq
    <3>1. [runs[rid[f]] EXCEPT !.status = "FAILED"].seq = runs[rid[f]].seq
      BY <2>1 DEF Row
    <3>. QED
      BY <2>1, <3>1
  <2>3. Nums' = Nums
    BY <2>2 DEF Nums
  <2>4. MaxSeq' = MaxSeq /\ \A n : NextOrTaken(n)' <=> NextOrTaken(n)
    BY <2>3 DEF MaxSeq, NextOrTaken
  <2>5. \A g \in Flows : NumOK(g)'
    <3> SUFFICES ASSUME NEW g \in Flows PROVE NumOK(g)'
      OBVIOUS
    <3>1. NumOK(g) /\ (pc'[g] = pc[g] \/ pc'[g] = "done")
      BY <2>1
    <3>. QED
      BY <2>1, <2>2, <2>3, <2>4, <3>1
  <2>. QED
    BY <2>3, <2>4, <2>5
<1>13. ASSUME NEW f \in Flows, ProbeLock(f) PROVE NumInv'
  BY <1>13, SameRows DEF ProbeLock
<1>14. ASSUME NEW f \in Flows, ProbeUnlock(f) PROVE NumInv'
  BY <1>14, SameRows DEF ProbeUnlock
<1>15. ASSUME NEW f \in Flows, StatementFails(f) PROVE NumInv'
  BY <1>15, SameRows DEF StatementFails
<1>16. ASSUME NEW f \in Flows, CommitFails(f) PROVE NumInv'
  BY <1>16, SameRows DEF CommitFails, AfterRaise
<1>17. ASSUME NEW f \in Flows, FailPendingFails(f) PROVE NumInv'
  BY <1>17, SameRows DEF FailPendingFails
<1>18. ASSUME NEW f \in Flows, GateClosed(f) PROVE NumInv'
  BY <1>18, SameRows DEF GateClosed
<1>19. CASE PatchConfig
  BY <1>19, SameRows DEF PatchConfig, flowVars
<1>20. ASSUME NEW p \in Procs, Crash(p) PROVE NumInv'
  BY <1>20, SameRows DEF Crash
<1>21. CASE UNCHANGED vars
  BY <1>21, SameRows DEF vars
<1>. QED
  BY <1>1, <1>2, <1>3, <1>4, <1>5, <1>6, <1>7, <1>8, <1>9, <1>10, <1>11, <1>12, <1>13, <1>14, <1>15, <1>16, <1>17, <1>18, <1>19, <1>20, <1>21 DEF Next, Step, Fault


LEMMA InitInv == Init => Inv
<1> SUFFICES ASSUME Init PROVE Inv
  OBVIOUS
<1> USE FlowAssumption DEF Init
<1>1. TypeOK
  <2>1. \A f \in Flows : pc[f] = "idle" /\ conn[f] = NoConn /\ tx[f] = {}
    OBVIOUS
  <2>. QED
    BY <2>1 DEF TypeOK, PCs, Inside
<1>2. KindInv
  BY DEF KindInv, Inside
<1>3. LockInv
  BY DEF LockInv, HasLock, Inside
<1>4. IdInv
  BY DEF IdInv
<1>5. TxInv
  BY DEF TxInv, TxOK, RowCommitted, Inside
<1>6. NumInv
  <2>1. Nums = {}
    BY DEF Nums
  <2>2. MaxSeq = 0
    BY <2>1 DEF MaxSeq, LargestOf
  <2>. QED
    BY <2>1, <2>2 DEF NumInv, NumOK
<1>. QED
  BY <1>1, <1>2, <1>3, <1>4, <1>5, <1>6 DEF Inv

\* The inductive invariant holds in every reachable state.
LEMMA InvCorrect == Spec => []Inv
<1>1. Inv /\ [Next]_vars => Inv'
  BY TypeStep, KindStep, LockStep, IdStep, TxStep, NumStep DEF Inv
<1>. QED
  BY InitInv, <1>1, PTL DEF Spec

\* Types, and a connection exactly while a session is open, for any number
\* of calls, processes, connections and faults (session_scope always closes).
THEOREM TypeCorrect == Spec => []TypeOK
<1>1. Inv => TypeOK
  BY DEF Inv
<1>. QED
  BY InvCorrect, <1>1, PTL

\* Single flight for any number of flows and connections: the try-lock of
\* worker_context admits one flow at a time, although the lock leaks with
\* aborted transactions and is re-entered by pooled connections.
THEOREM SingleFlight == Spec => []MutualExclusion
<1>1. Inv => MutualExclusion
  <2> SUFFICES ASSUME Inv, NEW f \in Flows, NEW g \in Flows, HasLock(f), HasLock(g)
               PROVE  f = g
    BY DEF MutualExclusion
  <2>1. conn[f] \in Conns /\ conn[g] \in Conns
    BY DEF Inv, TypeOK, HasLock
  <2>2. held[conn[f]] > 0 /\ held[conn[g]] > 0
    BY DEF Inv, LockInv
  <2>3. conn[f] = conn[g]
    BY <2>1, <2>2 DEF Inv, LockInv
  <2>. QED
    BY <2>1, <2>3, FlowAssumption DEF Inv, LockInv
<1>. QED
  BY InvCorrect, <1>1, PTL

\* Whoever writes a row is its owner, and a tick commits only a final one.
WrittenByOwner ==
    \A f \in Flows : \A r \in tx[f] :
        /\ r.by = f
        /\ f \in Ticks /\ pc[f] \in {"leaving", "committing"} => r.status \in Final

OwnInv == Inv /\ WrittenByOwner /\ OpenRowsAreOwned

\* Only CreateRun and RunCycle write a row, both in the flow's own name.
LEMMA WriterStep == OwnInv /\ [Next]_vars => WrittenByOwner'
<1> SUFFICES ASSUME OwnInv, [Next]_vars PROVE WrittenByOwner'
  OBVIOUS
<1> USE FlowAssumption DEF OwnInv, Inv, TypeOK, WrittenByOwner
<1>1. ASSUME NEW f \in Flows, CreateRun(f) PROVE WrittenByOwner'
  <2>1. NewRow(f).by = f
    BY DEF NewRow
  <2>. QED
    BY <1>1, <2>1 DEF CreateRun
<1>2. ASSUME NEW f \in Flows, RunCycle(f) PROVE WrittenByOwner'
  <2>1. PICK s \in Final : tx' = [tx EXCEPT ![f] = {[OwnRow(f) EXCEPT !.status = s]}]
    BY <1>2 DEF RunCycle
  <2>2. OwnRow(f) \in Row /\ OwnRow(f).by = f
    <3>1. CASE f \in Posts
      <4>1. rid[f] \in DOMAIN runs /\ runs[rid[f]].status = Running
        BY <1>2, <3>1 DEF RunCycle, TxInv, TxOK, RowCommitted, Inside
      <4>2. runs[rid[f]].by \in Flows /\ rid[runs[rid[f]].by] = rid[f] /\ rid[f] # 0
        BY <4>1 DEF OpenRowsAreOwned, Row, IdInv
      <4>. QED
        BY <3>1, <4>1, <4>2 DEF OwnRow, IdInv
    <3>2. CASE f \notin Posts
      BY <1>2, <3>2 DEF RunCycle, OwnRow, TxInv, TxOK
    <3>. QED
      BY <3>1, <3>2
  <2>3. [OwnRow(f) EXCEPT !.status = s].by = f /\ [OwnRow(f) EXCEPT !.status = s].status = s
    BY <2>2 DEF Row
  <2>4. pc' = [pc EXCEPT ![f] = "leaving"]
    BY <1>2 DEF RunCycle
  <2> SUFFICES ASSUME NEW g \in Flows, NEW r \in tx'[g]
               PROVE  r.by = g /\ (g \in Ticks /\ pc'[g] \in {"leaving", "committing"} => r.status \in Final)
    OBVIOUS
  <2>5. CASE g = f
    <3>1. r = [OwnRow(f) EXCEPT !.status = s]
      BY <2>1, <2>5
    <3>. QED
      BY <2>3, <2>5, <3>1
  <2>6. CASE g # f
    BY <2>1, <2>4, <2>6
  <2>. QED
    BY <2>5, <2>6
<1>3. ASSUME NEW f \in Flows, LeaveContext(f) PROVE WrittenByOwner'
  BY <1>3 DEF LeaveContext
<1>4. ASSUME NEW f \in Flows, CommitSession(f) PROVE WrittenByOwner'
  BY <1>4 DEF CommitSession
<1>5. ASSUME NEW f \in Flows, EnterContext(f) \/ FindBusy(f) PROVE WrittenByOwner'
  BY <1>5 DEF EnterContext, FindBusy, AtEntry
<1>6. ASSUME NEW f \in Flows, AbortContext(f) \/ CommitFails(f) PROVE WrittenByOwner'
  BY <1>6 DEF AbortContext, CommitFails, AfterRaise
<1>7. ASSUME NEW f \in Flows, NextCycleSeq(f) \/ DrawId(f) \/ CreateRunFails(f) \/ StatementFails(f)
      PROVE WrittenByOwner'
  BY <1>7 DEF NextCycleSeq, DrawId, CreateRunFails, StatementFails
<1>8. ASSUME NEW f \in Flows,
             TriggerRun(f) \/ FailPending(f) \/ FailPendingFails(f) \/ GateClosed(f)
      PROVE WrittenByOwner'
  BY <1>8 DEF TriggerRun, FailPending, FailPendingFails, GateClosed
<1>9. ASSUME NEW f \in Flows, ProbeLock(f) \/ ProbeUnlock(f) PROVE WrittenByOwner'
  BY <1>9 DEF ProbeLock, ProbeUnlock
<1>10. CASE PatchConfig \/ UNCHANGED vars
  BY <1>10 DEF PatchConfig, flowVars, vars
<1>11. ASSUME NEW p \in Procs, Crash(p) PROVE WrittenByOwner'
  BY <1>11 DEF Crash
<1>. QED
  BY <1>1, <1>2, <1>3, <1>4, <1>5, <1>6, <1>7, <1>8, <1>9, <1>10, <1>11 DEF Next, Step, Fault

\* An open row keeps its owner while that flow is on its way, and every way
\* out of the flow closes the row or is a fault.
LEMMA OwnerStep == OwnInv /\ [Next]_vars => OpenRowsAreOwned'
<1> SUFFICES ASSUME OwnInv, [Next]_vars PROVE OpenRowsAreOwned'
  OBVIOUS
<1> USE FlowAssumption DEF OwnInv, Inv, TypeOK, OpenRowsAreOwned
<1>1. ASSUME NEW f \in Flows, CommitSession(f) PROVE OpenRowsAreOwned'
  <2>1. PICK r : tx[f] = {r} /\ r \in Row /\ r.id = rid[f] /\ r.by = f
    BY <1>1 DEF CommitSession, TxInv, TxOK, WrittenByOwner
  <2>2. runs' = [i \in DOMAIN runs \cup {rid[f]} |-> IF i = rid[f] THEN r ELSE runs[i]]
    BY <1>1, <2>1 DEF CommitSession
  <2>3. r.status = Running => f \in Posts /\ ~RowCommitted(f)
    BY <1>1, <2>1 DEF CommitSession, TxInv, TxOK, WrittenByOwner, KindInv, Final, Running
  <2>4. /\ pc' = [pc EXCEPT ![f] = IF f \in Posts /\ ~RowCommitted(f) THEN "scheduled" ELSE "done"]
        /\ rid' = rid /\ faults' = faults
    BY <1>1 DEF CommitSession
  <2> SUFFICES ASSUME NEW i \in DOMAIN runs', runs'[i].status = Running
               PROVE  LET g == runs'[i].by
                      IN  /\ g \in Posts /\ rid'[g] = i
                          /\ \/ pc'[g] \in {"scheduled", "executing", "leaving", "aborted",
                                            "committing", "unstarted"}
                             \/ pc'[g] \in {"killed", "error"} /\ faults' > 0
    OBVIOUS
  <2>5. CASE i = rid[f]
    BY <2>1, <2>2, <2>3, <2>4, <2>5
  <2>6. CASE i # rid[f]
    <3>1. i \in DOMAIN runs /\ runs'[i] = runs[i]
      BY <2>2, <2>6
    <3>2. runs[i].by # f
      BY <2>6, <3>1
    <3>. QED
      BY <2>4, <3>1, <3>2
  <2>. QED
    BY <2>5, <2>6
<1>2. ASSUME NEW f \in Flows, FailPending(f) PROVE OpenRowsAreOwned'
  <2>1. rid[f] \in DOMAIN runs
    BY <1>2 DEF FailPending, TxInv, TxOK, RowCommitted
  <2>2. runs[rid[f]] \in Row
    BY <2>1
  <2>3. /\ runs' = [runs EXCEPT ![rid[f]].status = "FAILED"]
        /\ pc' = [pc EXCEPT ![f] = "done"]
        /\ rid' = rid /\ faults' = faults
    BY <1>2 DEF FailPending
  <2>4. runs'[rid[f]].status # Running
    BY <2>1, <2>2, <2>3 DEF Row, Running
  <2>5. \A i \in DOMAIN runs : i # rid[f] => runs'[i] = runs[i] /\ (runs[i].status = Running => runs[i].by # f)
    BY <2>3
  <2>. QED
    BY <2>3, <2>4, <2>5
<1> DEFINE Alive(g) == \/ pc[g] \in {"scheduled", "executing", "leaving", "aborted", "committing", "unstarted"}
                       \/ pc[g] \in {"killed", "error"} /\ faults > 0
           Kept == /\ runs' = runs
                   /\ \A g \in Flows : Alive(g) /\ RowCommitted(g) => Alive(g)' /\ rid'[g] = rid[g]
<1>3. ASSUME Kept PROVE OpenRowsAreOwned'
  <2> SUFFICES ASSUME NEW i \in DOMAIN runs, runs[i].status = Running
               PROVE  LET g == runs[i].by IN g \in Posts /\ rid'[g] = i /\ Alive(g)'
    BY <1>3
  <2>. QED
    BY <1>3 DEF RowCommitted, Flows
<1>4. ASSUME NEW f \in Flows, AbortContext(f) \/ CommitFails(f) PROVE Kept
  BY <1>4 DEF AbortContext, CommitFails, AfterRaise, RowCommitted
<1>5. ASSUME NEW f \in Flows, EnterContext(f) \/ FindBusy(f) PROVE Kept
  BY <1>5 DEF EnterContext, FindBusy, AtEntry
<1>6. ASSUME NEW f \in Flows, DrawId(f) PROVE Kept
  BY <1>6 DEF DrawId
<1>7. ASSUME NEW f \in Flows, NextCycleSeq(f) \/ CreateRun(f) \/ CreateRunFails(f) \/ RunCycle(f) PROVE Kept
  BY <1>7 DEF NextCycleSeq, CreateRun, CreateRunFails, RunCycle
<1>8. ASSUME NEW f \in Flows, LeaveContext(f) \/ StatementFails(f) \/ FailPendingFails(f) PROVE Kept
  BY <1>8 DEF LeaveContext, StatementFails, FailPendingFails
<1>9. ASSUME NEW f \in Flows, TriggerRun(f) \/ GateClosed(f) \/ ProbeLock(f) \/ ProbeUnlock(f) PROVE Kept
  BY <1>9 DEF TriggerRun, GateClosed, ProbeLock, ProbeUnlock
<1>10. CASE PatchConfig \/ UNCHANGED vars
  <2>1. Kept
    BY <1>10 DEF PatchConfig, flowVars, vars
  <2>. QED
    BY <1>3, <2>1
<1>11. ASSUME NEW p \in Procs, Crash(p) PROVE Kept
  BY <1>11 DEF Crash
<1>. QED
  BY <1>1, <1>2, <1>3, <1>4, <1>5, <1>6, <1>7, <1>8, <1>9, <1>10, <1>11 DEF Next, Step, Fault

\* A run that says RUNNING is somebody's to close, for any number of requests,
\* processes, crashes and errors: only a killed process, or an error while the
\* row was being failed, leaves one behind.
THEOREM OpenRowsOwned == Spec => []OpenRowsAreOwned
<1>1. Init => OwnInv
  BY InitInv DEF Init, OwnInv, WrittenByOwner, OpenRowsAreOwned
<1>2. OwnInv /\ [Next]_vars => OwnInv'
  <2>1. Inv /\ [Next]_vars => Inv'
    BY TypeStep, KindStep, LockStep, IdStep, TxStep, NumStep DEF Inv
  <2>. QED
    BY <2>1, WriterStep, OwnerStep DEF OwnInv
<1>3. OwnInv => OpenRowsAreOwned
  BY DEF OwnInv
<1>. QED
  BY <1>1, <1>2, <1>3, PTL DEF Spec

\* What a commit does to the ledger: it closes the committed row of its POST,
\* or appends the one new row.
LEMMA CommitStep ==
    ASSUME Inv, NEW f \in Flows, CommitSession(f)
    PROVE  Ledger!Next
<1> USE FlowAssumption
<1>1. pc[f] = "committing" /\ TxOK(f) /\ NumOK(f)
  BY DEF CommitSession, Inv, TxInv, NumInv
<1>2. PICK r \in tx[f] : TRUE
  BY <1>1 DEF TxOK
<1>3. tx[f] = {r} /\ r \in Row /\ r.id = rid[f]
  BY <1>1, <1>2 DEF TxOK, Inv, TypeOK
<1>4. runs' = [i \in DOMAIN runs \cup {rid[f]} |-> IF i = rid[f] THEN r ELSE runs[i]]
  BY <1>3 DEF CommitSession
<1>5. CASE RowCommitted(f)
  <2>1. rid[f] \in DOMAIN runs /\ r.seq = runs[rid[f]].seq /\ r.status \in Final /\ runs[rid[f]].status = Running
    BY <1>1, <1>2, <1>5 DEF TxOK, RowCommitted
  <2>2. DOMAIN runs' = DOMAIN runs
    BY <1>4, <2>1
  <2>3. committed' = [committed EXCEPT ![rid[f]].status = r.status]
    BY <1>4, <2>1, <2>2 DEF committed
  <2>4. Ledger!Close(rid[f], r.status)
    BY <2>1, <2>3 DEF Ledger!Close, committed, Final, Running
  <2>. QED
    BY <2>1, <2>4 DEF Ledger!Next, committed
<1>6. CASE ~RowCommitted(f)
  <2>1. rid[f] \notin DOMAIN runs /\ NextOrTaken(r.seq) /\ r.seq \notin Nums /\ \A i \in DOMAIN runs : i < rid[f]
    BY <1>1, <1>2, <1>6 DEF NumOK, RowCommitted
  <2>2. Ledger!Seqs(committed) = Nums
    BY DEF Ledger!Seqs, committed, Nums
  <2>3. r.seq \in Nat /\ r.status \in Final \cup {Running}
    BY <1>3 DEF Row
  <2>4. Ledger!IsNextSeq(r.seq, committed)
    BY <2>1, <2>2, <2>3 DEF Ledger!IsNextSeq, NextOrTaken
  <2>5. DOMAIN runs' = DOMAIN runs \cup {rid[f]}
    BY <1>4
  <2>6. committed' = [j \in DOMAIN committed \cup {rid[f]} |->
                        IF j = rid[f] THEN [seq |-> r.seq, status |-> r.status] ELSE committed[j]]
    BY <1>4, <2>1, <2>5 DEF committed
  <2>7. Ledger!Append(rid[f], r.seq, r.status)
    BY <2>1, <2>4, <2>6 DEF Ledger!Append, committed
  <2>8. rid[f] \in DOMAIN committed' /\ committed'[rid[f]] = [seq |-> r.seq, status |-> r.status]
    BY <2>6
  <2>. QED
    BY <2>3, <2>7, <2>8 DEF Ledger!Next
<1>. QED
  BY <1>5, <1>6

\* _fail_pending closes a row that is still open.
LEMMA FailStep ==
    ASSUME Inv, NEW f \in Flows, FailPending(f)
    PROVE  Ledger!Next
<1> USE FlowAssumption
<1>1. pc[f] = "unstarted" /\ TxOK(f)
  BY DEF FailPending, Inv, TxInv
<1>2. rid[f] \in DOMAIN runs /\ runs[rid[f]].status = Running /\ runs[rid[f]] \in Row
  BY <1>1 DEF TxOK, RowCommitted, Inv, TypeOK
<1>3. runs' = [runs EXCEPT ![rid[f]].status = "FAILED"]
  BY DEF FailPending
<1>4. [runs[rid[f]] EXCEPT !.status = "FAILED"].seq = runs[rid[f]].seq /\ [runs[rid[f]] EXCEPT !.status = "FAILED"].status = "FAILED"
  BY <1>2 DEF Row
<1>5. committed' = [committed EXCEPT ![rid[f]].status = "FAILED"]
  BY <1>2, <1>3, <1>4 DEF committed
<1>6. Ledger!Close(rid[f], "FAILED")
  BY <1>2, <1>5 DEF Ledger!Close, committed, Running
<1>. QED
  BY <1>2, <1>6 DEF Ledger!Next, committed, Final

\* The committed analysis_runs table implements RunLedger, whatever the
\* interleaving, crashes and errors: rows are numbered densely in id order,
\* never lost, never renumbered and never reopened.
THEOREM LedgerImplemented == Spec => ImplementsLedger
<1>1. Init => Ledger!Init
  BY DEF Init, Ledger!Init, committed
<1>2. Inv /\ [Next]_vars => [Ledger!Next]_committed
  <2> SUFFICES ASSUME Inv, [Next]_vars PROVE Ledger!Next \/ committed' = committed
    OBVIOUS
  <2>1. CASE \E f \in Flows : CommitSession(f)
    BY <2>1, CommitStep
  <2>2. CASE \E f \in Flows : FailPending(f)
    BY <2>2, FailStep
  <2>3. CASE runs' = runs
    BY <2>3 DEF committed
  <2>. QED
    BY <2>1, <2>2, <2>3
       DEF Next, Step, Fault, vars, PatchConfig, Crash, EnterContext, FindBusy, LeaveContext, AbortContext,
           NextCycleSeq, DrawId, CreateRun, CreateRunFails, RunCycle, TriggerRun, ProbeLock, ProbeUnlock,
           StatementFails, CommitFails, FailPendingFails, GateClosed
<1>. QED
  BY InvCorrect, <1>1, <1>2, PTL DEF Spec, ImplementsLedger, Ledger!Spec
=============================================================================
