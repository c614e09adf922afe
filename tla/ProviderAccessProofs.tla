------------------------ MODULE ProviderAccessProofs ------------------------
(***************************************************************************)
(* Proofs about RequestBudget and about ProviderAccess on top of it, for   *)
(* any threads, spacing, quota, window, pages, retries, status files and   *)
(* tokens.  One budget never grants two requests too close, nor more than  *)
(* its quota in a window; the retries, failures and new contexts above it  *)
(* leave its spacing and its quota; nothing is asked for before the gate   *)
(* is clear; and a fetch that is done has its pages in order.              *)
(***************************************************************************)
EXTENDS ProviderAccess, FiniteSetTheorems, SequenceTheorems, WellFoundedInduction, TLAPS

-----------------------------------------------------------------------------
(* The budget *)

Inv == TypeOK /\ PruneInv /\ SpacingKept /\ QuotaKept

\* What appending a grant does to the stamps.
LEMMA AppendStamp ==
    ASSUME NEW s \in Seq(Nat), NEW n \in Nat
    PROVE  /\ Append(s, n) \in Seq(Nat)
           /\ Len(Append(s, n)) = Len(s) + 1
           /\ \A i \in 1..Len(s) : Append(s, n)[i] = s[i]
           /\ Append(s, n)[Len(s) + 1] = n
OBVIOUS

LEMMA InitInv == Init => Inv
BY BudgetAssumption DEF Init, Inv, TypeOK, PruneInv, SpacingKept, QuotaKept

\* After pruning to h, everything before h is a window old.
LEMMA PrunedInv ==
    ASSUME Inv, NEW h \in head..(Len(stamps) + 1), Pruned(h)
    PROVE  h \in 1..(Len(stamps) + 1) /\ \A k \in 1..(h - 1) : stamps[k] <= now - Window
<1>1. h \in 1..(Len(stamps) + 1)
  BY DEF Inv, TypeOK
<1>2. SUFFICES ASSUME NEW k \in 1..(h - 1) PROVE stamps[k] <= now - Window
  BY <1>1
<1>3. CASE k < head
  BY <1>3 DEF Inv, TypeOK, PruneInv
<1>4. CASE k >= head
  BY <1>1, <1>4 DEF Inv, TypeOK, Pruned
<1>. QED
  BY <1>1, <1>3, <1>4 DEF Inv, TypeOK

\* A grant keeps the spacing and the quota: a full deque delays it until the
\* oldest counted grant has left the window.
LEMMA GrantKeeps ==
    ASSUME Inv, NEW t \in Threads, Runnable(t), NEW h \in head..(Len(stamps) + 1),
           Pruned(h), Grant(t, h), now' = now
    PROVE  SpacingKept' /\ QuotaKept'
<1> USE BudgetAssumption
<1>1. stamps \in Seq(Nat) /\ now \in Nat /\ stamps' = Append(stamps, now)
  BY DEF Inv, TypeOK, Grant
<1>0. Len(stamps) \in Nat
  BY <1>1
<1>2. /\ Len(stamps') = Len(stamps) + 1
      /\ \A i \in 1..Len(stamps) : stamps'[i] = stamps[i]
      /\ stamps'[Len(stamps) + 1] = now
  BY <1>1, AppendStamp
<1>3. \A i \in 1..Len(stamps) : stamps[i] \in Nat /\ stamps[i] <= now
  BY <1>1 DEF Inv, TypeOK
<1>4. SpacingKept'
  <2> SUFFICES ASSUME NEW i \in 2..(Len(stamps) + 1) PROVE stamps'[i] - stamps'[i - 1] >= Interval
    BY <1>2 DEF SpacingKept
  <2>1. CASE i <= Len(stamps)
    BY <1>1, <1>2, <2>1 DEF Inv, SpacingKept
  <2>2. CASE i = Len(stamps) + 1
    <3>1. Len(stamps) \in Nat /\ Len(stamps) >= 1 /\ stamps # <<>>
      BY <1>1, <2>2
    <3>2. SpacingWait <= 0
      BY DEF Grant
    <3>3. now - stamps[Len(stamps)] >= Interval
      BY <1>1, <1>3, <3>1, <3>2 DEF SpacingWait
    <3>. QED
      BY <1>2, <2>2, <3>1, <3>3
  <2>. QED
    BY <1>0, <2>1, <2>2
<1>5. QuotaKept'
  <2> SUFFICES ASSUME Quota > 0, NEW i \in 1..(Len(stamps) + 1), i > Quota
               PROVE  stamps'[i] - stamps'[i - Quota] >= Window
    BY <1>2 DEF QuotaKept
  <2>1. CASE i <= Len(stamps)
    BY <1>1, <1>2, <2>1 DEF Inv, QuotaKept
  <2>2. CASE i = Len(stamps) + 1
    <3> DEFINE j == i - Quota
    <3>1. j \in 1..Len(stamps) /\ Len(stamps) \in Nat
      BY <1>1, <2>2
    <3>2. j < h
      <4> SUFFICES ASSUME j >= h PROVE FALSE
        BY <3>1 DEF Inv, TypeOK
      <4>1. h <= Len(stamps) /\ h \in Nat /\ Len(stamps) - h + 1 >= Quota
        BY <2>2, <3>1, PrunedInv
      <4>2. stamps[h] > now - Window /\ stamps[h] \in Nat
        BY <1>1, <1>3, <4>1, PrunedInv DEF Pruned
      <4>3. QuotaWait(h) > 0
        BY <1>1, <4>1, <4>2 DEF QuotaWait
      <4>. QED
        BY <1>1, <4>1, <4>2, <4>3 DEF Grant, QuotaWait
    <3>3. stamps[j] <= now - Window
      BY <3>1, <3>2, PrunedInv DEF Inv, TypeOK
    <3>. QED
      BY <1>1, <1>2, <1>3, <2>2, <3>1, <3>3
  <2>. QED
    BY <1>0, <2>1, <2>2
<1>. QED
  BY <1>4, <1>5

LEMMA InvStep == Inv /\ [Next]_vars => Inv'
<1> SUFFICES ASSUME Inv, [Next]_vars PROVE Inv'
  OBVIOUS
<1> USE BudgetAssumption
<1>1. ASSUME NEW t \in Threads, Acquire(t) PROVE Inv'
  <2>1. PICK h \in head..(Len(stamps) + 1) : Pruned(h) /\ head' = h /\ (Grant(t, h) \/ Sleep(t, h))
    BY <1>1 DEF Acquire
  <2>2. Runnable(t) /\ now' = now /\ lag' = lag
    BY <1>1 DEF Acquire
  <2>3. h \in 1..(Len(stamps) + 1) /\ \A k \in 1..(h - 1) : stamps[k] <= now - Window
    BY <2>1, PrunedInv
  <2>4. CASE Grant(t, h)
    <3>1. SpacingKept' /\ QuotaKept'
      BY <2>1, <2>2, <2>4, GrantKeeps
    <3>2. /\ stamps' \in Seq(Nat) /\ Len(stamps') = Len(stamps) + 1
          /\ \A i \in 1..Len(stamps) : stamps'[i] = stamps[i]
          /\ stamps'[Len(stamps) + 1] = now
      BY <2>4, AppendStamp DEF Inv, TypeOK, Grant
    <3>3. PruneInv'
      <4> SUFFICES ASSUME NEW k \in 1..(h - 1) PROVE stamps'[k] <= now - Window
        BY <2>1, <2>2 DEF PruneInv
      <4>1. k \in 1..Len(stamps)
        BY <2>3 DEF Inv, TypeOK
      <4>. QED
        BY <2>3, <3>2, <4>1
    <3>4. left' \in [Threads -> Nat] /\ wake' \in [Threads -> Nat]
      BY <2>2, <2>4 DEF Grant, Runnable, Inv, TypeOK
    <3>5. \A i \in 1..Len(stamps') : stamps'[i] <= now'
      <4> SUFFICES ASSUME NEW i \in 1..(Len(stamps) + 1) PROVE stamps'[i] <= now
        BY <2>2, <3>2
      <4>1. Len(stamps) \in Nat /\ now \in Nat
        BY DEF Inv, TypeOK
      <4>2. CASE i \in 1..Len(stamps)
        BY <3>2, <4>2 DEF Inv, TypeOK
      <4>3. CASE i = Len(stamps) + 1
        BY <3>2, <4>1, <4>3
      <4>. QED
        BY <4>1, <4>2, <4>3
    <3>. QED
      BY <2>1, <2>2, <2>3, <3>1, <3>2, <3>3, <3>4, <3>5 DEF Inv, TypeOK
  <2>5. CASE Sleep(t, h)
    <3>1. stamps' = stamps /\ left' = left
      BY <2>5 DEF Sleep
    <3>2. wake' \in [Threads -> Nat]
      <4>1. SpacingWait \in Int
        BY DEF SpacingWait, Inv, TypeOK
      <4>2. QuotaWait(h) \in Int
        BY <2>3 DEF QuotaWait, Inv, TypeOK
      <4> DEFINE w == IF SpacingWait > QuotaWait(h) THEN SpacingWait ELSE QuotaWait(h)
      <4>3. w > 0 /\ w \in Int
        BY <2>5, <4>1, <4>2 DEF Sleep
      <4>4. now + w \in Nat
        BY <4>3 DEF Inv, TypeOK
      <4>. QED
        BY <2>5, <4>4 DEF Sleep, Inv, TypeOK
    <3>. QED
      BY <2>1, <2>2, <2>3, <3>1, <3>2 DEF Inv, TypeOK, PruneInv, SpacingKept, QuotaKept
  <2>. QED
    BY <2>1, <2>4, <2>5
<1>2. CASE Snapshot
  <2>1. PICK h \in head..(Len(stamps) + 1) : Pruned(h) /\ head' = h
    BY <1>2 DEF Snapshot
  <2>2. h \in 1..(Len(stamps) + 1) /\ \A k \in 1..(h - 1) : stamps[k] <= now - Window
    BY <2>1, PrunedInv
  <2>3. UNCHANGED <<now, stamps, wake, left, lag>>
    BY <1>2 DEF Snapshot
  <2>. QED
    BY <2>1, <2>2, <2>3 DEF Inv, TypeOK, PruneInv, SpacingKept, QuotaKept
<1>3. CASE Advance
  <2>1. now' = now + 1 /\ lag' \in {lag, lag + 1} /\ UNCHANGED <<stamps, head, wake, left>>
    BY <1>3 DEF Advance
  <2>2. TypeOK'
    BY <2>1 DEF Inv, TypeOK
  <2>3. PruneInv'
    BY <2>1 DEF Inv, TypeOK, PruneInv
  <2>. QED
    BY <2>1, <2>2, <2>3 DEF Inv, SpacingKept, QuotaKept
<1>4. CASE UNCHANGED vars
  BY <1>4 DEF vars, Inv, TypeOK, PruneInv, SpacingKept, QuotaKept
<1>. QED
  BY <1>1, <1>2, <1>3, <1>4 DEF Next

LEMMA InvCorrect == Spec => []Inv
BY InitInv, InvStep, PTL DEF Spec

\* Whatever the number of threads and however they are scheduled, requests
\* of one budget keep the minimum spacing of PROVIDER_MAX_RPS.
THEOREM SpacingHolds == Spec => []SpacingKept
<1>1. Inv => SpacingKept
  BY DEF Inv
<1>. QED
  BY InvCorrect, <1>1, PTL

\* And no window of theirs ever holds more than the quota.
THEOREM QuotaHolds == Spec => []QuotaKept
<1>1. Inv => QuotaKept
  BY DEF Inv
<1>. QED
  BY InvCorrect, <1>1, PTL

-----------------------------------------------------------------------------
(* The access to the provider *)

States == {"idle", "ask", "granted", "sent", "done", "failed"}
WantedPages == {Wanted[k] : k \in 1..Len(Wanted)}

FetchTyped ==
    /\ state \in [Threads -> States]
    /\ attempt \in [Threads -> 0..MaxRetries]
    /\ got \in [Threads -> Seq(WantedPages)]

\* Whoever has been granted a request, or may still be, has passed the gate.
GateInv ==
    (stamps # <<>> \/ \E t \in Threads : state[t] # "failed") => GateClear(file)

\* What a fetch has, what it has still to ask for and what is on its way are
\* the pages it wants; what it has are the first of them.
InFlight(t) == IF state[t] \in {"granted", "sent"} THEN 1 ELSE 0
PagesInv ==
    \A t \in Threads :
        /\ state[t] # "failed" => Len(got[t]) + left[t] + InFlight(t) = Requests
        /\ state[t] = "done" => left[t] = 0
        /\ \A k \in 1..Len(got[t]) : got[t][k] = Wanted[k]

AccessInv == Inv /\ FetchTyped /\ GateInv /\ PagesInv

\* A fetch that is done has all its pages, in their order.
DoneHasPages ==
    \A t \in Threads : state[t] = "done" =>
        Len(got[t]) = Len(Wanted) /\ \A k \in 1..Len(Wanted) : got[t][k] = Wanted[k]

LEMMA AccessInit == InitAccess => AccessInv
<1> SUFFICES ASSUME InitAccess PROVE AccessInv
  OBVIOUS
<1> USE BudgetAssumption, AccessAssumption
<1>1. Inv
  BY InitInv DEF InitAccess
<1>2. FetchTyped
  BY DEF InitAccess, FetchTyped, States
<1>3. GateInv
  BY DEF InitAccess, Init, GateInv
<1>4. PagesInv
  <2> SUFFICES ASSUME NEW t \in Threads
               PROVE  /\ state[t] # "done" /\ Len(got[t]) + left[t] + InFlight(t) = Requests
                      /\ \A k \in 1..Len(got[t]) : got[t][k] = Wanted[k]
    BY DEF PagesInv
  <2>1. got[t] = <<>> /\ left[t] = Requests /\ state[t] \in {"idle", "failed"}
    BY DEF InitAccess, Init
  <2>2. Len(got[t]) = 0 /\ InFlight(t) = 0 /\ state[t] # "done"
    BY <2>1 DEF InFlight
  <2>3. 1..Len(got[t]) = {}
    BY <2>2
  <2>. QED
    BY <2>1, <2>2, <2>3
<1>. QED
  BY <1>1, <1>2, <1>3, <1>4 DEF AccessInv

\* The budget's invariant does not depend on what a thread has still to ask for,
\* nor on how long it sleeps.
LEMMA BudgetStands ==
    ASSUME Inv, UNCHANGED <<now, stamps, head, lag>>,
           wake' \in [Threads -> Nat], left' \in [Threads -> Nat]
    PROVE  Inv'
BY DEF Inv, TypeOK, PruneInv, SpacingKept, QuotaKept

\* A fetch that raises keeps nothing and asks for nothing more.
LEMMA RaiseKeeps ==
    ASSUME AccessInv, NEW t \in Threads, Raise(t), state[t] # "failed", UNCHANGED file
    PROVE  AccessInv'
<1> USE BudgetAssumption, AccessAssumption
<1>1. Inv'
  <2>1. left' \in [Threads -> Nat] /\ UNCHANGED <<now, stamps, head, wake, lag>>
    BY DEF Raise, AccessInv, Inv, TypeOK
  <2>2. wake' \in [Threads -> Nat]
    BY <2>1 DEF AccessInv, Inv, TypeOK
  <2>. QED
    BY <2>1, <2>2, BudgetStands DEF AccessInv
<1>2. FetchTyped'
  BY DEF Raise, AccessInv, FetchTyped, States
<1>3. GateInv'
  BY DEF Raise, AccessInv, FetchTyped, GateInv, GateClear, WellFormed
<1>4. PagesInv'
  <2> SUFFICES ASSUME NEW u \in Threads
               PROVE  /\ state'[u] # "failed" => Len(got'[u]) + left'[u] + InFlight(u)' = Requests
                      /\ state'[u] = "done" => left'[u] = 0
                      /\ \A k \in 1..Len(got'[u]) : got'[u][k] = Wanted[k]
    BY DEF PagesInv
  <2>1. CASE u = t
    BY <2>1 DEF Raise, AccessInv, FetchTyped, Inv, TypeOK
  <2>2. CASE u # t
    <3>1. state'[u] = state[u] /\ left'[u] = left[u] /\ got'[u] = got[u]
      BY <2>2 DEF Raise, AccessInv, FetchTyped, Inv, TypeOK
    <3>. QED
      BY <3>1 DEF AccessInv, PagesInv, InFlight
  <2>. QED
    BY <2>1, <2>2
<1>. QED
  BY <1>1, <1>2, <1>3, <1>4 DEF AccessInv

LEMMA SlotKeeps ==
    ASSUME AccessInv, NEW t \in Threads, Slot(t)
    PROVE  AccessInv'
<1> USE BudgetAssumption, AccessAssumption
<1>1. Inv'
  <2>1. Next
    BY DEF Slot, Next
  <2>. QED
    BY <2>1, InvStep DEF AccessInv
<1>2. PICK h \in head..(Len(stamps) + 1) : Grant(t, h) \/ Sleep(t, h)
  BY DEF Slot, Acquire
<1>3. left \in [Threads -> Nat] /\ left[t] > 0
  BY DEF Slot, Acquire, Runnable, AccessInv, Inv, TypeOK
<1>4. state \in [Threads -> States] /\ state[t] = "ask"
  BY DEF Slot, AccessInv, FetchTyped
<1>5. \/ left' = [left EXCEPT ![t] = @ - 1] /\ state' = [state EXCEPT ![t] = "granted"]
      \/ left' = left /\ state' = state
  <2>1. CASE Grant(t, h)
    <3>1. left' = [left EXCEPT ![t] = @ - 1]
      BY <2>1 DEF Grant
    <3>2. left'[t] < left[t]
      BY <1>3, <3>1
    <3>. QED
      BY <3>1, <3>2 DEF Slot
  <2>2. CASE Sleep(t, h)
    <3>1. left' = left
      BY <2>2 DEF Sleep
    <3>2. ~(left'[t] < left[t])
      BY <1>3, <3>1
    <3>. QED
      BY <3>1, <3>2 DEF Slot
  <2>. QED
    BY <1>2, <2>1, <2>2
<1>6. UNCHANGED <<file, attempt, got>>
  BY DEF Slot
<1>7. FetchTyped'
  BY <1>4, <1>5, <1>6 DEF AccessInv, FetchTyped, States
<1>8. GateInv'
  BY <1>4, <1>6 DEF AccessInv, GateInv, GateClear, WellFormed
<1>9. PagesInv'
  <2> SUFFICES ASSUME NEW u \in Threads
               PROVE  /\ state'[u] # "failed" => Len(got'[u]) + left'[u] + InFlight(u)' = Requests
                      /\ state'[u] = "done" => left'[u] = 0
                      /\ \A k \in 1..Len(got'[u]) : got'[u][k] = Wanted[k]
    BY DEF PagesInv
  <2>1. got[u] \in Seq(WantedPages) /\ Len(got[u]) \in Nat
    BY DEF AccessInv, FetchTyped
  <2>2. CASE u = t
    <3>0. InFlight(t) = 0 /\ state[t] # "failed"
      BY <1>4 DEF InFlight
    <3>1. Len(got[t]) + left[t] = Requests /\ got' = got /\ \A k \in 1..Len(got[t]) : got[t][k] = Wanted[k]
      BY <1>3, <1>6, <2>1, <2>2, <3>0 DEF AccessInv, PagesInv
    <3>2. \/ left'[t] = left[t] - 1 /\ state'[t] = "granted"
          \/ left'[t] = left[t] /\ state'[t] = "ask"
      BY <1>3, <1>4, <1>5
    <3>. QED
      BY <1>3, <2>1, <2>2, <3>1, <3>2 DEF InFlight
  <2>3. CASE u # t
    <3>1. state'[u] = state[u] /\ left'[u] = left[u] /\ got'[u] = got[u]
      BY <1>3, <1>4, <1>5, <1>6, <2>3
    <3>. QED
      BY <3>1 DEF AccessInv, PagesInv, InFlight
  <2>. QED
    BY <2>2, <2>3
<1>. QED
  BY <1>1, <1>7, <1>8, <1>9 DEF AccessInv

LEMMA BeginKeeps ==
    ASSUME AccessInv, NEW t \in Threads, Begin(t)
    PROVE  AccessInv'
<1> USE BudgetAssumption, AccessAssumption
<1>1. CASE AuthOK(token)
  <2>1. state[t] = "idle" /\ state' = [state EXCEPT ![t] = "ask"] /\ UNCHANGED <<vars, attempt, got, file>>
    BY <1>1 DEF Begin
  <2>2. Inv'
    BY <2>1, InvStep DEF AccessInv
  <2>3. FetchTyped' /\ GateInv'
    BY <2>1 DEF AccessInv, FetchTyped, States, GateInv, GateClear, WellFormed, vars
  <2>4. PagesInv'
    BY <2>1 DEF AccessInv, FetchTyped, PagesInv, InFlight, vars
  <2>. QED
    BY <2>2, <2>3, <2>4 DEF AccessInv
<1>2. CASE ~AuthOK(token)
  BY <1>2, RaiseKeeps DEF Begin
<1>. QED
  BY <1>1, <1>2

LEMMA SendKeeps ==
    ASSUME AccessInv, NEW t \in Threads, Send(t)
    PROVE  AccessInv'
<1> USE BudgetAssumption, AccessAssumption
<1>1. CASE AuthOK(token)
  <2>1. state[t] = "granted" /\ state' = [state EXCEPT ![t] = "sent"] /\ UNCHANGED <<vars, attempt, got, file>>
    BY <1>1 DEF Send
  <2>2. Inv'
    BY <2>1, InvStep DEF AccessInv
  <2>3. FetchTyped' /\ GateInv'
    BY <2>1 DEF AccessInv, FetchTyped, States, GateInv, GateClear, WellFormed, vars
  <2>4. PagesInv'
    BY <2>1 DEF AccessInv, FetchTyped, PagesInv, InFlight, vars
  <2>. QED
    BY <2>2, <2>3, <2>4 DEF AccessInv
<1>2. CASE ~AuthOK(token)
  BY <1>2, RaiseKeeps DEF Send
<1>. QED
  BY <1>1, <1>2

\* The page that arrives is the one the fetch wants next.
LEMMA PageKeeps ==
    ASSUME AccessInv, NEW t \in Threads, state[t] = "sent", Page(t), UNCHANGED file
    PROVE  AccessInv'
<1> USE BudgetAssumption, AccessAssumption
<1>1. Inv' /\ UNCHANGED vars
  BY InvStep DEF AccessInv, Page
<1> DEFINE n == Len(got[t]) + 1
<1>2. /\ got[t] \in Seq(WantedPages) /\ left[t] \in Nat /\ Len(got[t]) \in Nat
      /\ n + left[t] = Requests
  <2>1. got[t] \in Seq(WantedPages) /\ left[t] \in Nat
    BY DEF AccessInv, FetchTyped, Inv, TypeOK
  <2>2. Len(got[t]) + left[t] + 1 = Requests
    BY DEF AccessInv, PagesInv, InFlight
  <2>3. Len(got[t]) \in Nat
    BY <2>1, LenProperties
  <2>. QED
    BY <2>1, <2>2, <2>3, SMTT(30)
<1>3. n \in 1..Len(Wanted) /\ Requests - left[t] = n
  BY <1>2
<1>4. got' = [got EXCEPT ![t] = Append(@, Wanted[n])]
  BY <1>3 DEF Page
<1>5. /\ Append(got[t], Wanted[n]) \in Seq(WantedPages) /\ Len(Append(got[t], Wanted[n])) = n
      /\ \A k \in 1..n : Append(got[t], Wanted[n])[k] = Wanted[k]
  <2>1. Wanted[n] \in WantedPages
    BY <1>3 DEF WantedPages
  <2>2. \A k \in 1..Len(got[t]) : got[t][k] = Wanted[k]
    BY DEF AccessInv, PagesInv
  <2> DEFINE new == Append(got[t], Wanted[n])
  <2>3. /\ new \in Seq(WantedPages) /\ Len(new) = n /\ new[n] = Wanted[n]
        /\ \A k \in 1..Len(got[t]) : new[k] = got[t][k]
    BY <1>2, <2>1, AppendProperties
  <2>4. \A k \in 1..n : k = n \/ k \in 1..Len(got[t])
    BY <1>2
  <2> HIDE DEF n, new
  <2>5. \A k \in 1..n : new[k] = Wanted[k]
    BY <2>2, <2>3, <2>4
  <2>. QED
    BY <2>3, <2>5 DEF new
<1>6. FetchTyped'
  BY <1>4, <1>5 DEF AccessInv, FetchTyped, States, Page
<1>7. GateInv'
  BY <1>1 DEF AccessInv, GateInv, GateClear, WellFormed, vars
<1>8. PagesInv'
  <2> SUFFICES ASSUME NEW u \in Threads
               PROVE  /\ state'[u] # "failed" => Len(got'[u]) + left'[u] + InFlight(u)' = Requests
                      /\ state'[u] = "done" => left'[u] = 0
                      /\ \A k \in 1..Len(got'[u]) : got'[u][k] = Wanted[k]
    BY DEF PagesInv
  <2>1. CASE u = t
    <3>1. got'[t] = Append(got[t], Wanted[n]) /\ left'[t] = left[t]
      BY <1>1, <1>4 DEF AccessInv, FetchTyped, vars
    <3>2. state'[t] = IF left[t] = 0 THEN "done" ELSE "ask"
      BY DEF Page, AccessInv, FetchTyped
    <3>3. InFlight(t)' = 0
      BY <3>2 DEF InFlight
    <3>. QED
      BY <1>2, <1>5, <2>1, <3>1, <3>2, <3>3
  <2>2. CASE u # t
    <3>1. state'[u] = state[u] /\ left'[u] = left[u] /\ got'[u] = got[u]
      BY <1>1, <1>4, <2>2 DEF Page, AccessInv, FetchTyped, vars
    <3>. QED
      BY <3>1 DEF AccessInv, PagesInv, InFlight
  <2>. QED
    BY <2>1, <2>2
<1>. QED
  BY <1>1, <1>6, <1>7, <1>8 DEF AccessInv

\* A throttled page is wanted again.
LEMMA ThrottledKeeps ==
    ASSUME AccessInv, NEW t \in Threads, state[t] = "sent", Throttled(t), UNCHANGED file
    PROVE  AccessInv'
<1> USE BudgetAssumption, AccessAssumption
<1>1. CASE ~(attempt[t] < MaxRetries)
  BY <1>1, RaiseKeeps DEF Throttled
<1>2. CASE attempt[t] < MaxRetries
  <2>1. PICK d \in Hints \union {BackoffBase * 2^attempt[t]} : wake' = [wake EXCEPT ![t] = now + d]
    BY <1>2 DEF Throttled
  <2>2. /\ attempt' = [attempt EXCEPT ![t] = @ + 1]
        /\ left' = [left EXCEPT ![t] = @ + 1]
        /\ state' = [state EXCEPT ![t] = "ask"]
        /\ UNCHANGED <<now, stamps, head, lag, got>>
    BY <1>2 DEF Throttled
  <2>3. attempt[t] \in 0..MaxRetries /\ d \in Nat
    <3>1. attempt[t] \in 0..MaxRetries
      BY DEF AccessInv, FetchTyped
    <3>2. Hints \union {BackoffBase * 2^attempt[t]} \subseteq Nat
      BY <3>1
    <3>. QED
      BY <2>1, <3>1, <3>2
  <2>4. wake' \in [Threads -> Nat] /\ left' \in [Threads -> Nat]
    <3>1. wake \in [Threads -> Nat] /\ left \in [Threads -> Nat] /\ now \in Nat
      BY DEF AccessInv, Inv, TypeOK
    <3>2. now + d \in Nat /\ left[t] + 1 \in Nat
      BY <2>3, <3>1
    <3>. QED
      BY <2>1, <2>2, <3>1, <3>2
  <2>5. Inv'
    BY <2>2, <2>4, BudgetStands DEF AccessInv
  <2>6. FetchTyped'
    BY <1>2, <2>2, <2>3 DEF AccessInv, FetchTyped, States
  <2>7. GateInv'
    BY <2>2 DEF AccessInv, GateInv, GateClear, WellFormed
  <2>8. PagesInv'
    <3> SUFFICES ASSUME NEW u \in Threads
                 PROVE  /\ state'[u] # "failed" => Len(got'[u]) + left'[u] + InFlight(u)' = Requests
                        /\ state'[u] = "done" => left'[u] = 0
                        /\ \A k \in 1..Len(got'[u]) : got'[u][k] = Wanted[k]
      BY DEF PagesInv
    <3>1. CASE u = t
      <4>1. left'[t] = left[t] + 1 /\ state'[t] = "ask" /\ got'[t] = got[t]
        BY <2>2 DEF AccessInv, FetchTyped, Inv, TypeOK
      <4>2. Len(got[t]) + left[t] + 1 = Requests /\ \A k \in 1..Len(got[t]) : got[t][k] = Wanted[k]
        BY DEF AccessInv, PagesInv, InFlight
      <4>3. left[t] \in Nat /\ Len(got[t]) \in Nat
        BY DEF AccessInv, FetchTyped, Inv, TypeOK
      <4>. QED
        BY <3>1, <4>1, <4>2, <4>3 DEF InFlight
    <3>2. CASE u # t
      <4>1. state'[u] = state[u] /\ left'[u] = left[u] /\ got'[u] = got[u]
        BY <2>2, <3>2 DEF AccessInv, FetchTyped, Inv, TypeOK
      <4>. QED
        BY <4>1 DEF AccessInv, PagesInv, InFlight
    <3>. QED
      BY <3>1, <3>2
  <2>. QED
    BY <2>5, <2>6, <2>7, <2>8 DEF AccessInv
<1>. QED
  BY <1>1, <1>2

\* A new context begins with an empty budget and nothing asked for.
LEMMA NewContextKeeps ==
    ASSUME AccessInv, NewContext
    PROVE  AccessInv'
<1> USE BudgetAssumption, AccessAssumption
<1>1. PICK n \in now..(now + CycleInterval + Grace) : now' = n /\ wake' = [t \in Threads |-> n]
  BY DEF NewContext
<1>2. n \in Nat
  BY <1>1 DEF AccessInv, Inv, TypeOK
<1>3. /\ stamps' = <<>> /\ head' = 1 /\ lag' = lag /\ file' = file
      /\ left' = [t \in Threads |-> Requests]
      /\ state' = [t \in Threads |-> "idle"]
      /\ attempt' = [t \in Threads |-> 0]
      /\ got' = [t \in Threads |-> <<>>]
  BY DEF NewContext
<1>4. Inv'
  <2>1. TypeOK'
    BY <1>1, <1>2, <1>3 DEF AccessInv, Inv, TypeOK
  <2>2. PruneInv' /\ SpacingKept' /\ QuotaKept'
    BY <1>3 DEF PruneInv, SpacingKept, QuotaKept
  <2>. QED
    BY <2>1, <2>2 DEF Inv
<1>5. FetchTyped'
  BY <1>3 DEF FetchTyped, States
<1>6. GateInv'
  BY <1>3 DEF NewContext, GateInv, GateClear, WellFormed
<1>7. PagesInv'
  BY <1>3 DEF PagesInv, InFlight
<1>. QED
  BY <1>4, <1>5, <1>6, <1>7 DEF AccessInv

LEMMA AccessStep == AccessInv /\ [NextAccess]_accessVars => AccessInv'
<1> SUFFICES ASSUME AccessInv, [NextAccess]_accessVars PROVE AccessInv'
  OBVIOUS
<1>1. ASSUME NEW t \in Threads, Begin(t) PROVE AccessInv'
  BY <1>1, BeginKeeps
<1>2. ASSUME NEW t \in Threads, Slot(t) PROVE AccessInv'
  BY <1>2, SlotKeeps
<1>3. ASSUME NEW t \in Threads, Send(t) PROVE AccessInv'
  BY <1>3, SendKeeps
<1>4. ASSUME NEW t \in Threads, Answer(t) PROVE AccessInv'
  <2>1. state[t] = "sent" /\ UNCHANGED file /\ (Page(t) \/ Throttled(t) \/ Raise(t))
    BY <1>4 DEF Answer
  <2>. QED
    BY <2>1, PageKeeps, ThrottledKeeps, RaiseKeeps
<1>5. CASE ChangeToken \/ UNCHANGED accessVars
  <2>1. UNCHANGED <<vars, file, state, attempt, got>>
    BY <1>5 DEF ChangeToken, accessVars, own
  <2>2. Inv'
    BY <2>1, InvStep DEF AccessInv
  <2>. QED
    BY <2>1, <2>2 DEF AccessInv, FetchTyped, GateInv, GateClear, WellFormed, PagesInv, InFlight, vars
<1>6. CASE Pass
  <2>1. Inv'
    BY <1>6, InvStep DEF Pass, Next, AccessInv
  <2>2. UNCHANGED <<stamps, left, file, state, attempt, got>>
    BY <1>6 DEF Pass, Advance, own
  <2>. QED
    BY <2>1, <2>2 DEF AccessInv, FetchTyped, GateInv, GateClear, WellFormed, PagesInv, InFlight
<1>7. CASE NewContext
  BY <1>7, NewContextKeeps
<1>. QED
  BY <1>1, <1>2, <1>3, <1>4, <1>5, <1>6, <1>7 DEF NextAccess

LEMMA AccessCorrect == SpecAccess => []AccessInv
BY AccessInit, AccessStep, PTL DEF SpecAccess

\* The fetches of a context, their retries and what they raise keep the minimum
\* spacing of its budget.
THEOREM AccessSpacing == SpecAccess => []SpacingKept
<1>1. AccessInv => SpacingKept
  BY DEF AccessInv, Inv
<1>. QED
  BY AccessCorrect, <1>1, PTL

\* No window of a context's requests, retried ones included, exceeds the quota.
THEOREM AccessQuota == SpecAccess => []QuotaKept
<1>1. AccessInv => QuotaKept
  BY DEF AccessInv, Inv
<1>. QED
  BY AccessCorrect, <1>1, PTL

\* Whatever the status file says or leaves out, nothing is asked of the provider
\* before every item that blocks the phase is resolved.
THEOREM GateHolds == SpecAccess => []AskedOnlyWhenValidated
<1>1. AccessInv => AskedOnlyWhenValidated
  BY AccessAssumption DEF AccessInv, GateInv, GateClear, AskedOnlyWhenValidated
<1>. QED
  BY AccessCorrect, <1>1, PTL

\* However often it was throttled, a fetch that is done has its pages in order.
THEOREM FetchComplete == SpecAccess => []DoneHasPages
<1>1. AccessInv => DoneHasPages
  <2> SUFFICES ASSUME AccessInv, NEW t \in Threads, state[t] = "done"
               PROVE  Len(got[t]) = Len(Wanted) /\ \A k \in 1..Len(Wanted) : got[t][k] = Wanted[k]
    BY DEF DoneHasPages
  <2>1. Len(got[t]) \in Nat /\ left[t] = 0 /\ Len(got[t]) + left[t] + 0 = Requests
    BY DEF AccessInv, FetchTyped, PagesInv, InFlight
  <2>2. Len(got[t]) = Len(Wanted)
    BY <2>1, AccessAssumption
  <2>. QED
    BY <2>2 DEF AccessInv, PagesInv
<1>. QED
  BY AccessCorrect, <1>1, PTL

-----------------------------------------------------------------------------
(* Pages, and the days they cover.                                          *)

\* A set of naturals has a least member.
LEMMA Least ==
    ASSUME NEW T \in SUBSET Nat, T # {}
    PROVE  \E x \in T : \A y \in T : x <= y
<1> DEFINE R == {s \in Nat \X Nat : s[1] < s[2]}
<1>1. IsWellFoundedOn(R, Nat)
  BY NatLessThanWellFounded DEF OpToRel
<1>2. PICK x \in T : \A y \in T : <<y, x>> \notin R
  BY <1>1, WFMin
<1>3. \A y \in T : ~(y < x)
  <2>1. TAKE y \in T
  <2>2. <<y, x>> \in Nat \X Nat /\ <<y, x>>[1] = y /\ <<y, x>>[2] = x
    OBVIOUS
  <2>3. QED BY <1>2, <2>2
<1>4. QED BY <1>3

\* The days from a to b.
DaysOf(a, b) == [d \in 1..(b - a + 1) |-> a + d - 1]

\* Runs of days that touch join without a gap or a day twice.
LEMMA DaysJoin ==
    ASSUME NEW a \in Int, NEW b \in Int, NEW c \in Int, a <= b + 1, b <= c
    PROVE  DaysOf(a, b) \o DaysOf(b + 1, c) = DaysOf(a, c)
<1> DEFINE s == DaysOf(a, b)
           t == DaysOf(b + 1, c)
<1>1. s \in Seq(Int) /\ Len(s) = b - a + 1 /\ \A d \in 1..(b - a + 1) : s[d] = a + d - 1
  BY DEF DaysOf
<1>2. t \in Seq(Int) /\ Len(t) = c - b /\ \A d \in 1..(c - b) : t[d] = b + d
  BY DEF DaysOf
<1> HIDE DEF s, t
<1>3. s \o t \in Seq(Int) /\ Len(s \o t) = c - a + 1
      /\ \A d \in 1..(c - a + 1) : (s \o t)[d] = a + d - 1
  <2>1. s \o t \in Seq(Int) /\ Len(s \o t) = Len(s) + Len(t)
        /\ \A i \in 1..(Len(s) + Len(t)) : (s \o t)[i] = IF i <= Len(s) THEN s[i] ELSE t[i - Len(s)]
    BY <1>1, <1>2, ConcatProperties
  <2>2. Len(s) + Len(t) = c - a + 1
    BY <1>1, <1>2
  <2>3. ASSUME NEW d \in 1..(c - a + 1) PROVE (s \o t)[d] = a + d - 1
    <3>1. (s \o t)[d] = IF d <= Len(s) THEN s[d] ELSE t[d - Len(s)]
      BY <2>1, <2>2
    <3>2. CASE d <= Len(s)
      BY <3>1, <3>2, <1>1
    <3>3. CASE ~(d <= Len(s))
      <4>1. d - Len(s) \in 1..(c - b) /\ b + (d - Len(s)) = a + d - 1
        BY <3>3, <1>1
      <4> QED BY <3>1, <3>3, <4>1, <1>2
    <3> QED BY <3>2, <3>3
  <2> QED BY <2>1, <2>2, <2>3
<1>4. DaysOf(a, c) \in Seq(Int) /\ Len(DaysOf(a, c)) = c - a + 1
      /\ \A d \in 1..(c - a + 1) : DaysOf(a, c)[d] = a + d - 1
  BY DEF DaysOf
<1>5. s \o t = DaysOf(a, c)
  BY <1>3, <1>4, SeqEqual
<1> QED BY <1>5 DEF s, t

\* Flattened, runs that each begin where the last one ended are one run: a least
\* counterexample on the prefixes that FlattenSeq joins.
LEMMA FlattenDays ==
    ASSUME NEW n \in Nat \ {0}, NEW s, Len(s) = n, NEW e \in [0..n -> Int],
           \A i \in 1..n : e[0] <= e[i - 1] /\ e[i - 1] <= e[i] /\ s[i] = DaysOf(e[i - 1] + 1, e[i])
    PROVE  FlattenSeq(s) = DaysOf(e[0] + 1, e[n])
<1> DEFINE g == [i \in 1..n |-> DaysOf(e[0] + 1, e[i])]
           IsFlat(f) == f = [i \in 1..n |-> IF i = 1 THEN s[i] ELSE f[i - 1] \o s[i]]
           flat == CHOOSE f : IsFlat(f)
<1>0. e[0] \in Int
  OBVIOUS
<1>1. \A i \in 1..n : e[i - 1] \in Int /\ e[i] \in Int
  OBVIOUS
<1>2. IsFlat(g)
  <2>1. ASSUME NEW i \in 1..n PROVE g[i] = IF i = 1 THEN s[i] ELSE g[i - 1] \o s[i]
    <3>1. CASE i = 1
      BY <3>1
    <3>2. CASE i # 1
      <4>1. i - 1 \in 1..n /\ g[i - 1] = DaysOf(e[0] + 1, e[i - 1])
        BY <3>2
      <4>2. s[i] = DaysOf(e[i - 1] + 1, e[i]) /\ e[i - 1] <= e[i] /\ e[0] <= e[i - 1]
            /\ e[i - 1] \in Int /\ e[i] \in Int
        BY <1>1
      <4> DEFINE a == e[0]
                 b == e[i - 1]
                 c == e[i]
      <4> HIDE DEF a, b, c
      <4>4. DaysOf(a + 1, b) \o DaysOf(b + 1, c) = DaysOf(a + 1, c)
        <5>1. a \in Int /\ b \in Int /\ c \in Int /\ a <= b /\ b <= c
          BY <4>2, <1>0 DEF a, b, c
        <5>2. a + 1 \in Int /\ a + 1 <= b + 1
          BY <5>1
        <5> QED BY <5>1, <5>2, DaysJoin
      <4>3. DaysOf(e[0] + 1, e[i - 1]) \o DaysOf(e[i - 1] + 1, e[i]) = DaysOf(e[0] + 1, e[i])
        BY <4>4 DEF a, b, c
      <4> QED BY <3>2, <4>1, <4>2, <4>3
    <3> QED BY <3>1, <3>2
  <2> QED BY <2>1
<1>3. IsFlat(flat)
  BY <1>2
<1>4. \A i \in 1..n : flat[i] = g[i]
  <2> DEFINE Bad == {k \in 1..n : flat[k] # g[k]}
  <2>1. SUFFICES ASSUME Bad # {} PROVE FALSE
    OBVIOUS
  <2>2. Bad \in SUBSET Nat
    OBVIOUS
  <2>3. PICK k \in Bad : \A y \in Bad : k <= y
    BY <2>1, <2>2, Least
  <2>4. k \in 1..n /\ flat[k] = (IF k = 1 THEN s[k] ELSE flat[k - 1] \o s[k])
        /\ g[k] = (IF k = 1 THEN s[k] ELSE g[k - 1] \o s[k])
    BY <1>2, <1>3
  <2>5. k # 1 => k - 1 \in 1..n /\ k - 1 \notin Bad
    <3>2. k \in 1..n
      BY <2>4
    <3>1. k # 1 => k - 1 \in 1..n /\ ~(k <= k - 1)
      <4> HIDE DEF Bad
      <4> QED BY <3>2
    <3> QED BY <3>1, <2>3
  <2> QED BY <2>3, <2>4, <2>5
<1>5. FlattenSeq(s) = flat[n]
  BY DEF FlattenSeq
<1>6. n \in 1..n /\ g[n] = DaysOf(e[0] + 1, e[n])
  OBVIOUS
<1> HIDE DEF flat, g
<1> QED BY <1>4, <1>5, <1>6

\* The n pages of p end on the days e, each beginning the day after the last one,
\* from first to last; a page may be empty.
Contiguous(p, n, first, last) ==
    \E e \in [0..n -> Int] :
        /\ e[0] = first - 1 /\ e[n] = last
        /\ \A i \in 1..n : e[0] <= e[i - 1] /\ e[i - 1] <= e[i] /\ p[i] = <<e[i - 1] + 1, e[i]>>

\* chunk_range: the chunks of a range touch, whatever the limit on their days.
LEMMA ChunksContiguous ==
    ASSUME NEW first \in Int, NEW last \in Int, first <= last, MaxDays \in Int
    PROVE  LET p == Chunks(first, last, MaxDays) IN
           p \in Seq(Int \X Int) /\ Len(p) \in Nat \ {0} /\ Contiguous(p, Len(p), first, last)
<1> DEFINE span == IF MaxDays > 1 THEN MaxDays ELSE 1
           n == (last - first) \div span + 1
           end(k) == IF first + k * span - 1 < last THEN first + k * span - 1 ELSE last
           p == Chunks(first, last, MaxDays)
<1>1. span \in Nat \ {0}
  OBVIOUS
<1>2. p = [k \in 1..n |-> <<first + (k - 1) * span, end(k)>>]
  BY DEF Chunks
<1> HIDE DEF span
<1>3. n \in Nat \ {0} /\ (n - 1) * span <= last - first /\ last - first < (n - 1) * span + span
  BY <1>1
<1> HIDE DEF n, p
<1>4. \A k \in Nat : k * span \in Nat
  BY <1>1
<1>5. ASSUME NEW k \in 1..n PROVE (k - 1) * span \in Nat /\ (k - 1) * span <= (n - 1) * span
                                  /\ k * span = (k - 1) * span + span
  BY <1>1, <1>3
<1>6. ASSUME NEW k \in 0..n
      PROVE  /\ end(k) \in Int /\ first - 1 <= end(k)
             /\ (k < n => end(k) = first + k * span - 1)
             /\ (k = n => end(k) = last)
  <2> DEFINE x == k * span
             y == (n - 1) * span
  <2>1. k < n => x <= y
    BY <1>1, <1>3
  <2>2. k = n => x = y + span
    BY <1>1, <1>3
  <2>3. x \in Nat /\ y \in Nat /\ span \in Nat \ {0}
    BY <1>1, <1>3, <1>4
  <2>4. y <= last - first /\ last - first < y + span
    BY <1>3
  <2>5. end(k) = IF first + x - 1 < last THEN first + x - 1 ELSE last
    OBVIOUS
  <2> HIDE DEF x, y, end
  <2>6. end(k) \in Int /\ first - 1 <= end(k) /\ (k < n => end(k) = first + x - 1) /\ (k = n => end(k) = last)
    BY <2>1, <2>2, <2>3, <2>4, <2>5
  <2> QED BY <2>6 DEF x
<1> DEFINE e == [k \in 0..n |-> end(k)]
<1>7. \A k \in 0..n : e[k] = end(k)
  OBVIOUS
<1> HIDE DEF end
<1>8. e \in [0..n -> Int] /\ e[0] = first - 1 /\ e[n] = last
  <2>1. 0 \in 0..n /\ n \in 0..n /\ 0 < n /\ 0 * span = 0
    BY <1>1, <1>3
  <2> QED BY <2>1, <1>6
<1>9. ASSUME NEW k \in 1..n
      PROVE  e[0] <= e[k - 1] /\ e[k - 1] <= e[k] /\ p[k] = <<e[k - 1] + 1, e[k]>>
  <2>1. k - 1 \in 0..n /\ k \in 0..n /\ k - 1 < n
    BY <1>3
  <2>2. e[k - 1] = end(k - 1) /\ e[k] = end(k)
    BY <2>1
  <2>3. end(k - 1) = first + (k - 1) * span - 1 /\ end(k - 1) >= first - 1
    BY <2>1, <1>6
  <2>4. end(k) = IF k = n THEN last ELSE first + k * span - 1
    <3>1. k = n \/ k < n
      BY <1>3
    <3> QED BY <3>1, <2>1, <1>6
  <2>5. p[k] = <<first + (k - 1) * span, end(k)>>
    BY <1>2
  <2>6. (k - 1) * span \in Nat /\ (k - 1) * span <= last - first /\ k * span = (k - 1) * span + span
    BY <1>1, <1>3, <1>5
  <2>7. end(k - 1) <= end(k)
    BY <2>3, <2>4, <2>6, <1>1
  <2>8. first + (k - 1) * span = end(k - 1) + 1
    BY <2>3, <2>6
  <2> QED BY <2>2, <2>3, <2>5, <2>7, <2>8, <1>8
<1>10. p \in Seq(Int \X Int) /\ Len(p) = n
  <2>1. \A k \in 1..n : first + (k - 1) * span \in Int /\ end(k) \in Int
    BY <1>3, <1>5, <1>6
  <2> QED BY <1>2, <1>3, <2>1
<1> HIDE DEF e
<1>11. Contiguous(p, n, first, last)
  BY <1>8, <1>9 DEF Contiguous
<1> QED BY <1>3, <1>10, <1>11 DEF p

\* The pages of a fetch: chunks up to yesterday and the intraday page of today.
LEMMA WantedContiguous ==
    Wanted \in Seq(Int \X Int) /\ Len(Wanted) \in Nat \ {0} /\ Contiguous(Wanted, Len(Wanted), FirstDay, Today)
<1> DEFINE run == <<<<Today, Today>>>>
<1>1. FirstDay \in Int /\ Today \in Int /\ FirstDay <= Today /\ MaxDays \in Int
  BY AccessAssumption
<1>2. Wanted = (IF FirstDay <= Today - 1 THEN Chunks(FirstDay, Today - 1, MaxDays) ELSE <<>>) \o run
  <2>1. ~(Today < Today - 1) /\ Today <= Today
    BY <1>1
  <2> QED BY <1>1, <2>1, Zenon DEF Wanted, Pages
<1>3. run \in Seq(Int \X Int) /\ Len(run) = 1 /\ run[1] = <<Today, Today>>
  BY <1>1
<1> HIDE DEF run
<1>4. CASE FirstDay <= Today - 1
  <2> DEFINE p == Chunks(FirstDay, Today - 1, MaxDays)
             n == Len(p)
  <2>1. p \in Seq(Int \X Int) /\ n \in Nat \ {0} /\ Contiguous(p, n, FirstDay, Today - 1)
    BY <1>1, <1>4, ChunksContiguous
  <2>2. Wanted = p \o run
    BY <1>2, <1>4
  <2> HIDE DEF p
  <2>3. /\ Wanted \in Seq(Int \X Int) /\ Len(Wanted) = n + 1
        /\ \A i \in 1..n : Wanted[i] = p[i]
        /\ Wanted[n + 1] = <<Today, Today>>
    <3>1. /\ p \o run \in Seq(Int \X Int) /\ Len(p \o run) = n + 1
          /\ \A i \in 1..(n + 1) : (p \o run)[i] = IF i <= n THEN p[i] ELSE run[i - n]
      <4>1. /\ p \o run \in Seq(Int \X Int) /\ Len(p \o run) = Len(p) + Len(run)
            /\ \A i \in 1..(Len(p) + Len(run)) : (p \o run)[i] = IF i <= Len(p) THEN p[i] ELSE run[i - Len(p)]
        BY <2>1, <1>3, ConcatProperties
      <4> QED BY <4>1, <1>3
    <3>2. n + 1 \in 1..(n + 1) /\ ~(n + 1 <= n) /\ n + 1 - n = 1 /\ \A i \in 1..n : i \in 1..(n + 1) /\ i <= n
      BY <2>1
    <3> QED BY <3>1, <3>2, <2>2, <1>3
  <2> HIDE DEF n
  <2>4. PICK e \in [0..n -> Int] :
          /\ e[0] = FirstDay - 1 /\ e[n] = Today - 1
          /\ \A i \in 1..n : e[0] <= e[i - 1] /\ e[i - 1] <= e[i] /\ p[i] = <<e[i - 1] + 1, e[i]>>
    BY <2>1 DEF Contiguous
  <2> DEFINE f == [i \in 0..(n + 1) |-> IF i = n + 1 THEN Today ELSE e[i]]
  <2>5. f[n + 1] = Today /\ \A i \in 0..n : f[i] = e[i]
    BY <2>1
  <2>6. f \in [0..(n + 1) -> Int]
    BY <2>1, <1>1
  <2> HIDE DEF f
  <2>7. ASSUME NEW i \in 1..(n + 1)
        PROVE f[0] <= f[i - 1] /\ f[i - 1] <= f[i] /\ Wanted[i] = <<f[i - 1] + 1, f[i]>>
    <3>1. CASE i \in 1..n
      <4>1. i \in 0..n /\ i - 1 \in 0..n /\ 0 \in 0..n
        BY <3>1, <2>1
      <4> QED BY <4>1, <3>1, <2>3, <2>4, <2>5
    <3>2. CASE i = n + 1
      <4>1. i - 1 = n /\ n \in 0..n /\ 0 \in 0..n
        BY <3>2, <2>1
      <4>2. f[i - 1] = Today - 1 /\ f[0] = FirstDay - 1
        BY <4>1, <2>4, <2>5
      <4> QED BY <3>2, <4>2, <2>3, <2>5, <1>1
    <3> QED BY <3>1, <3>2, <2>1
  <2>8. f[0] = FirstDay - 1
    BY <2>1, <2>4, <2>5
  <2>9. Contiguous(Wanted, n + 1, FirstDay, Today)
    BY <2>5, <2>6, <2>7, <2>8 DEF Contiguous
  <2> QED BY <2>1, <2>3, <2>9
<1>5. CASE ~(FirstDay <= Today - 1)
  <2>1. FirstDay = Today
    BY <1>1, <1>5
  <2>2. Wanted = run
    <3>1. Wanted = <<>> \o run
      BY <1>2, <1>5
    <3> QED BY <3>1, <1>3, ConcatEmptySeq
  <2> DEFINE f == [i \in 0..1 |-> IF i = 1 THEN Today ELSE Today - 1]
  <2>3. f \in [0..1 -> Int] /\ f[0] = Today - 1 /\ f[1] = Today
    BY <1>1
  <2> HIDE DEF f
  <2>4. \A i \in 1..1 : f[0] <= f[i - 1] /\ f[i - 1] <= f[i] /\ Wanted[i] = <<f[i - 1] + 1, f[i]>>
    BY <2>2, <2>3, <1>1, <1>3
  <2>5. Contiguous(Wanted, 1, FirstDay, Today)
    BY <2>1, <2>3, <2>4 DEF Contiguous
  <2> QED BY <2>2, <2>5, <1>3
<1> QED BY <1>4, <1>5

\* A fetch that is done has every day of its range once and in order, whatever was
\* retried; one under way has as many pages to get as are missing.
THEOREM FetchHolds == SpecAccess => []FetchIsWhole
<1>1. AccessInv /\ DoneHasPages => FetchIsWhole
  <2> SUFFICES ASSUME AccessInv, DoneHasPages, NEW t \in Threads
               PROVE  /\ state[t] = "done" =>
                           FlattenSeq([k \in 1..Len(got[t]) |->
                             [d \in 1..(got[t][k][2] - got[t][k][1] + 1) |-> got[t][k][1] + d - 1]])
                           = [d \in 1..(Today - FirstDay + 1) |-> FirstDay + d - 1]
                      /\ state[t] \in {"ask", "granted", "sent"} =>
                           Len(got[t]) + left[t] + (IF state[t] = "ask" THEN 0 ELSE 1) = Requests
    BY DEF FetchIsWhole
  <2>1. state[t] \in {"ask", "granted", "sent"} =>
          Len(got[t]) + left[t] + (IF state[t] = "ask" THEN 0 ELSE 1) = Requests
    BY DEF AccessInv, PagesInv, InFlight
  <2>2. ASSUME state[t] = "done"
        PROVE  FlattenSeq([k \in 1..Len(got[t]) |->
                 [d \in 1..(got[t][k][2] - got[t][k][1] + 1) |-> got[t][k][1] + d - 1]])
               = [d \in 1..(Today - FirstDay + 1) |-> FirstDay + d - 1]
    <3> DEFINE n == Len(Wanted)
               s == [k \in 1..n |->
                       [d \in 1..(Wanted[k][2] - Wanted[k][1] + 1) |-> Wanted[k][1] + d - 1]]
    <3>1. Len(got[t]) = n /\ \A k \in 1..n : got[t][k] = Wanted[k]
      BY <2>2 DEF DoneHasPages
    <3>2. n \in Nat \ {0} /\ Contiguous(Wanted, n, FirstDay, Today)
      BY WantedContiguous
    <3> HIDE DEF n
    <3>3. PICK e \in [0..n -> Int] :
            /\ e[0] = FirstDay - 1 /\ e[n] = Today
            /\ \A i \in 1..n : e[0] <= e[i - 1] /\ e[i - 1] <= e[i] /\ Wanted[i] = <<e[i - 1] + 1, e[i]>>
      BY <3>2 DEF Contiguous
    <3>4. ASSUME NEW i \in 1..n PROVE s[i] = DaysOf(e[i - 1] + 1, e[i])
      <4>1. Wanted[i][1] = e[i - 1] + 1 /\ Wanted[i][2] = e[i]
        BY <3>3
      <4> QED BY <4>1 DEF DaysOf
    <3>5. Len(s) = n
      BY <3>2
    <3> HIDE DEF s
    <3>6. \A i \in 1..n : e[0] <= e[i - 1] /\ e[i - 1] <= e[i] /\ s[i] = DaysOf(e[i - 1] + 1, e[i])
      BY <3>3, <3>4
    <3>7. FlattenSeq(s) = DaysOf(e[0] + 1, e[n])
      BY <3>2, <3>3, <3>5, <3>6, FlattenDays
    <3>8. e[0] + 1 = FirstDay
      BY <3>3, AccessAssumption
    <3>9. FlattenSeq(s) = [d \in 1..(Today - FirstDay + 1) |-> FirstDay + d - 1]
      BY <3>3, <3>7, <3>8 DEF DaysOf
    <3>10. [k \in 1..Len(got[t]) |->
             [d \in 1..(got[t][k][2] - got[t][k][1] + 1) |-> got[t][k][1] + d - 1]] = s
      BY <3>1 DEF s
    <3> QED BY <3>9, <3>10
  <2> QED BY <2>1, <2>2
<1> QED BY <1>1, AccessCorrect, FetchComplete, PTL

-----------------------------------------------------------------------------
(* Types.                                                                   *)

\* The types of what the budget and the pages do not depend on.
RestTyped ==
    /\ file \in Files /\ token \in {NoToken, EnvToken} \union Nat /\ changes \in 0..MaxTokens
    /\ bearer \in [Threads -> {NoToken, EnvToken} \union Nat]
    /\ tick \in Nat /\ earlier \in Seq(Nat)

\* They hold at the start ...
LEMMA RestInit == InitAccess => RestTyped
  BY AccessAssumption DEF InitAccess, RestTyped

\* ... and every action keeps them.
LEMMA RestStep == AccessInv /\ RestTyped /\ [NextAccess]_accessVars => RestTyped'
<1> SUFFICES ASSUME AccessInv, RestTyped, [NextAccess]_accessVars PROVE RestTyped'
  OBVIOUS
<1>1. ASSUME NEW t \in Threads, Begin(t) \/ Slot(t) PROVE RestTyped'
  BY <1>1 DEF RestTyped, Begin, Slot
<1>2. ASSUME NEW t \in Threads, Send(t) PROVE RestTyped'
  <2>1. UNCHANGED <<file, token, changes, tick, earlier>>
        /\ (bearer' = [bearer EXCEPT ![t] = token] \/ bearer' = bearer)
    BY <1>2 DEF Send
  <2> QED BY <2>1 DEF RestTyped
<1>3. ASSUME NEW t \in Threads, Answer(t) PROVE RestTyped'
  <2>1. UNCHANGED <<file, token, changes, tick, earlier>> /\ bearer' = [bearer EXCEPT ![t] = NoToken]
    BY <1>3 DEF Answer
  <2> QED BY <2>1 DEF RestTyped
<1>4. CASE ChangeToken
  <2>1. now \in Nat /\ now \div DayLength \in Nat
    BY AccessAssumption DEF AccessInv, Inv, TypeOK
  <2>2. token' \in {NoToken, now \div DayLength} /\ changes < MaxTokens /\ changes' = changes + 1
        /\ UNCHANGED <<file, bearer, tick, earlier>>
    BY <1>4 DEF ChangeToken
  <2> QED BY <2>1, <2>2, AccessAssumption DEF RestTyped
<1>5. CASE NewContext
  <2>1. PICK n \in now..(now + CycleInterval + Grace) : tick' = n \div CycleInterval
    BY <1>5 DEF NewContext
  <2>2. n \in Nat /\ tick' \in Nat
    BY <2>1, AccessAssumption DEF AccessInv, Inv, TypeOK
  <2> DEFINE all == earlier \o stamps
  <2>3. all \in Seq(Nat)
    BY ConcatProperties DEF RestTyped, AccessInv, Inv, TypeOK
  <2> DEFINE n0 == Cardinality({k \in 1..Len(all) : all[k] <= now' - Window}) + 1
  <2>4. earlier' = SubSeq(all, n0, Len(all))
    BY <1>5 DEF NewContext
  <2>5. earlier' \in Seq(Nat)
    <3>1. Len(all) \in Nat /\ \A i \in 1..Len(all) : all[i] \in Nat
      BY <2>3
    <3>2. n0 \in Nat \ {0}
      <4> DEFINE old == {k \in 1..Len(all) : all[k] <= now' - Window}
      <4>1. IsFiniteSet(1..Len(all)) /\ old \in SUBSET (1..Len(all))
        BY <3>1, FS_Interval
      <4> HIDE DEF old
      <4>2. Cardinality(old) \in Nat
        BY <4>1, FS_Subset, FS_CardinalityType
      <4>3. n0 = Cardinality(old) + 1
        BY DEF old
      <4> DEFINE c == Cardinality(old)
      <4> HIDE DEF c, n0
      <4>4. c \in Nat /\ n0 = c + 1
        BY <4>2, <4>3 DEF c
      <4> QED BY <4>4
    <3> HIDE DEF all, n0
    <3>3. \A i \in n0..Len(all) : all[i] \in Nat
      BY <3>1, <3>2
    <3> QED BY <2>4, <3>1, <3>2, <3>3, SubSeqProperties
  <2>6. UNCHANGED <<file, token, changes, bearer>>
    BY <1>5 DEF NewContext
  <2> QED BY <2>2, <2>5, <2>6 DEF RestTyped
<1>6. CASE Pass \/ UNCHANGED accessVars
  BY <1>6 DEF RestTyped, Pass, own, accessVars
<1> QED BY <1>1, <1>2, <1>3, <1>4, <1>5, <1>6 DEF NextAccess

\* Every variable keeps its type; the status file and the token change by what
\* another process writes.
THEOREM AccessTyped == SpecAccess => []AccessTypeOK
<1>1. AccessInv /\ RestTyped => AccessTypeOK
  BY DEF AccessTypeOK, AccessInv, Inv, FetchTyped, States, RestTyped
<1> QED BY <1>1, AccessCorrect, RestInit, RestStep, PTL DEF SpecAccess
=============================================================================
