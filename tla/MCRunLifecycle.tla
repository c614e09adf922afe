--------------------------- MODULE MCRunLifecycle ---------------------------
(***************************************************************************)
(* Instances of RunLifecycle: an API process with two pooled connections,  *)
(* a worker process with one, and a few calls in flight.                   *)
(***************************************************************************)
EXTENDS RunLifecycle, TLC

CONSTANTS t1, t2, p1, p2, h1, api, worker, a1, a2, w1, k1

MCProcOf == [f \in Flows |-> IF f \in {t1, t2} THEN worker ELSE api]
MCPoolOf == [c \in Conns |-> IF c = w1 THEN worker ELSE api]

\* Both requests carry the same Idempotency-Key, or only the first has one.
SameKey == [f \in Posts |-> k1]
OneKey == [f \in Posts |-> IF f = p1 THEN k1 ELSE NoKey]
=============================================================================
