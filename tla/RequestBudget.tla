---------------------------- MODULE RequestBudget ----------------------------
(***************************************************************************)
(* The provider request budget (ingestion/budget.py): the threads that     *)
(* fetch for one worker_context share a minimum spacing between requests   *)
(* and a rolling quota.  acquire() decides under a lock, and sleeps        *)
(* outside it before it tries again, so a sleeper may find its slot taken. *)
(*                                                                         *)
(* The deque _hits of grant times is the tail of stamps from head on;      *)
(* popleft moves head.  _granted is Len(stamps), _last its last element.   *)
(* Time is counted in whole units.                                         *)
(***************************************************************************)
EXTENDS Integers, Sequences

CONSTANTS
    Threads,
    Interval,     \* minimum spacing, 1 / max_rps; 0 switches it off
    Quota,        \* per_30min; 0 switches it off
    Window,       \* window_seconds
    Requests,     \* how many requests each thread makes
    MaxLag,       \* bound: time that passes, in all, while a thread could run
    MaxTime       \* bound: where the clock stops

ASSUME BudgetAssumption ==
    Interval \in Nat /\ Quota \in Nat /\ Window \in Nat /\ Requests \in Nat

VARIABLES
    now,          \* the monotonic clock
    stamps,       \* the times of all granted requests
    head,         \* where _hits begins in stamps
    wake,         \* the time until which a thread sleeps
    left,         \* requests a thread has still to make
    lag           \* time spent while some thread could run

vars == <<now, stamps, head, wake, left, lag>>

Init == /\ now = 0
        /\ stamps = <<>>
        /\ head = 1
        /\ wake = [t \in Threads |-> 0]
        /\ left = [t \in Threads |-> Requests]
        /\ lag = 0

Runnable(t) == left[t] > 0 /\ now >= wake[t]

\* Slip: a grant leaves the deque one time unit too early.
PrunedEarly(h) == /\ h \in head..(Len(stamps) + 1)
                  /\ \A k \in head..(h - 1) : stamps[k] <= now + 1 - Window
                  /\ h <= Len(stamps) => stamps[h] > now + 1 - Window

\* _prune: everything at least one window old leaves the deque.
Pruned(h) == /\ h \in head..(Len(stamps) + 1)
             /\ \A k \in head..(h - 1) : stamps[k] <= now - Window
             /\ h <= Len(stamps) => stamps[h] > now - Window

\* Slip: spaced from the oldest grant of the window.
SpacedFromOldest == IF Interval > 0 /\ head <= Len(stamps)
                    THEN Interval - (now - stamps[head]) ELSE 0

\* Time units until the spacing is kept; negative when it is.
SpacingWait == IF Interval > 0 /\ stamps # <<>>
               THEN Interval - (now - stamps[Len(stamps)]) ELSE 0

\* Slip: the quota counts every grant, whatever has left the window.
QuotaWaitOfAll(h) == IF Quota > 0 /\ Len(stamps) >= Quota THEN Window ELSE 0

\* Time units until the oldest grant of a full window leaves it.
QuotaWait(h) == IF Quota > 0 /\ Len(stamps) - h + 1 >= Quota
                THEN stamps[h] + Window - now ELSE 0

Grant(t, h) ==
    /\ SpacingWait <= 0 /\ QuotaWait(h) <= 0
    /\ stamps' = Append(stamps, now)
    /\ left' = [left EXCEPT ![t] = @ - 1]
    /\ UNCHANGED wake

Sleep(t, h) ==
    /\ SpacingWait > 0 \/ QuotaWait(h) > 0
    /\ wake' = [wake EXCEPT ![t] = now + (IF SpacingWait > QuotaWait(h) THEN SpacingWait ELSE QuotaWait(h))]
    /\ UNCHANGED <<stamps, left>>

\* One round of acquire()'s loop: prune, then take the slot or sleep.
Acquire(t) ==
    /\ Runnable(t)
    /\ \E h \in head..(Len(stamps) + 1) :
          /\ Pruned(h)
          /\ head' = h
          /\ Grant(t, h) \/ Sleep(t, h)
    /\ UNCHANGED <<now, lag>>

\* snapshot() prunes too.
Snapshot ==
    /\ \E h \in head..(Len(stamps) + 1) : Pruned(h) /\ head' = h
    /\ UNCHANGED <<now, stamps, wake, left, lag>>

\* Slip: the wall clock instead of the monotonic one, set back at times.
AdvanceWallClock ==
    /\ now' \in {now - 1, now + 1} \cap 0..MaxTime
    /\ UNCHANGED <<stamps, head, wake, left, lag>>

\* Time passes; while threads could run, by at most MaxLag in all.
Advance ==
    /\ now < MaxTime
    /\ \E t \in Threads : left[t] > 0
    /\ now' = now + 1
    /\ IF \E t \in Threads : Runnable(t)
       THEN lag < MaxLag /\ lag' = lag + 1
       ELSE lag' = lag
    /\ UNCHANGED <<stamps, head, wake, left>>

Next == (\E t \in Threads : Acquire(t)) \/ Snapshot \/ Advance

Spec == Init /\ [][Next]_vars

-----------------------------------------------------------------------------
\* The variables keep their types; grants lie in the past, in order.
TypeOK ==
    /\ now \in Nat /\ lag \in Nat
    /\ stamps \in Seq(Nat)
    /\ head \in 1..(Len(stamps) + 1)
    /\ wake \in [Threads -> Nat]
    /\ left \in [Threads -> Nat]
    /\ \A i \in 1..Len(stamps) : stamps[i] <= now

\* Two grants, to whichever threads, are at least Interval apart
\* (PROVIDER_MAX_RPS).
SpacingKept == \A i \in 2..Len(stamps) : stamps[i] - stamps[i - 1] >= Interval

\* No window of Window time units holds more than Quota grants
\* (PROVIDER_30MIN_BUDGET): any Quota + 1 of them span at least a window.
QuotaKept ==
    Quota > 0 => \A i \in 1..Len(stamps) :
                     i > Quota => stamps[i] - stamps[i - Quota] >= Window

\* What has left the deque is a window old: nothing that still counts is
\* ever forgotten.
PruneInv == \A k \in 1..(head - 1) : stamps[k] <= now - Window
=============================================================================
