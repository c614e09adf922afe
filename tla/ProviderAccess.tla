---------------------------- MODULE ProviderAccess ----------------------------
(***************************************************************************)
(* The way to the provider, on top of the RequestBudget its threads share: *)
(* the gate that lets the adapter exist, the daily token, a fetch split    *)
(* into pages by the range the provider serves at once, and the retries of *)
(* the HTTP client.  A worker_context (worker/deps.py) has a budget and a  *)
(* client of its own, and every scheduler tick that runs opens a new one.  *)
(*                                                                         *)
(* Each thread fetches the candles of one instrument from FirstDay to      *)
(* Today: whole pages of past days, then the running day.  left[t] counts  *)
(* the pages not asked for.  A page is abstracted to the days it answers.  *)
(***************************************************************************)
EXTENDS RequestBudget, FiniteSets, SequencesExt

CONSTANTS
    FirstDay, Today, MaxDays,    \* the range asked for, and what one page may span
    MaxRetries, BackoffBase,     \* of get_json
    Hints,                       \* Retry-After values the provider may send
    DayLength,                   \* time units from one 03:30 IST to the next
    CycleInterval, Grace,        \* CYCLE_INTERVAL_SECONDS, misfire_grace_time
    PVIds, Blocking,             \* PV_IDS, DEFAULT_BLOCKING_IDS
    BranchRequired,              \* BRANCH_REQUIRED: the branches of an id that needs one
    Files,                       \* the status files the instance starts from
    Tokens,                      \* the tokens it starts from
    MaxTokens,                   \* bound: changes of the token
    Horizon                      \* bound: no context starts later than this before MaxTime

VARIABLES
    file,         \* the provider-validation status file
    token,        \* NoToken, EnvToken or the day, from 03:30 on, it was issued
    changes,      \* how often the token was changed
    state,        \* where a thread is in its fetch
    attempt,      \* throttled answers to its current page
    bearer,       \* the token of its request in flight
    got,          \* the pages answered to it
    tick,         \* the index of the last tick that ran a cycle
    earlier       \* the grants of earlier contexts that are in the last Window

own == <<file, token, changes, state, attempt, bearer, got, tick, earlier>>
accessVars == <<vars, own>>

NoToken == -2
EnvToken == -1

-----------------------------------------------------------------------------
\* load_status: every known item and no other, with an allowed status.
WellFormed(f) ==
    /\ DOMAIN f.items = PVIds
    /\ \A i \in PVIds : f.items[i].status \in {"OPEN", "CONFIRMED", "ACCEPTED_FALLBACK"}

\* What a resolved item must record.
Resolved(i, item) ==
    /\ item.status # "OPEN" /\ item.decided
    /\ item.status = "CONFIRMED" => item.evidence
    /\ item.status = "ACCEPTED_FALLBACK" => item.fallback
    /\ i \in DOMAIN BranchRequired => item.branch \in BranchRequired[i]

\* Slip: the list of blocking items is taken as the file gives it.
GateClearAsListed(f) ==
    WellFormed(f) /\ \A k \in DOMAIN f.ids : f.ids[k] \in PVIds => Resolved(f.ids[k], f.items[f.ids[k]])

\* evaluate, as assert_gate_clear calls it when the adapter is built.
GateClear(f) ==
    /\ WellFormed(f)
    /\ \A k \in DOMAIN f.ids : f.ids[k] \in PVIds => Resolved(f.ids[k], f.items[f.ids[k]])
    /\ f.ids = Blocking

\* The next 03:30 strictly after a token was issued on a day.
ExpiresAt(day) == (day + 1) * DayLength

\* auth_state; an env token has no issue time and is trusted.
AuthOK(tok) == tok # NoToken /\ (tok # EnvToken => now < ExpiresAt(tok))

\* _date_chunks: from first to last in spans of at most n days.
Chunks(first, last, n) ==
    LET span == IF n > 1 THEN n ELSE 1
    IN [k \in 1..((last - first) \div span + 1) |->
           <<first + (k - 1) * span,
             IF first + k * span - 1 < last THEN first + k * span - 1 ELSE last>>]

\* The requests of fetch_candles: the past from the historical endpoint, the
\* running day from the intraday one.
Pages(first, last, today) ==
    LET past == IF last < today - 1 THEN last ELSE today - 1
    IN (IF first <= past THEN Chunks(first, past, MaxDays) ELSE <<>>)
       \o (IF first <= today /\ today <= last THEN <<<<today, today>>>> ELSE <<>>)

Wanted == Pages(FirstDay, Today, Today)

ASSUME AccessAssumption ==
    /\ FirstDay \in Int /\ Today \in Int /\ MaxDays \in Int
    /\ FirstDay <= Today /\ Requests = Len(Wanted)
    /\ Tokens \subseteq {NoToken, EnvToken} \union Nat /\ MaxTokens \in Nat
    /\ MaxRetries \in Nat /\ BackoffBase \in Nat /\ DayLength \in Nat \ {0}
    /\ CycleInterval \in Nat \ {0} /\ Grace \in 0..(CycleInterval - 1)
    /\ \A k \in DOMAIN Blocking : Blocking[k] \in PVIds
    /\ \A n \in 0..MaxRetries : Hints \union {BackoffBase * 2^n} \subseteq Nat

-----------------------------------------------------------------------------
Ended(t) == state[t] \in {"done", "failed"}

InitAccess ==
    /\ Init
    /\ file \in Files /\ token \in Tokens /\ changes = 0
    /\ state = [t \in Threads |-> IF GateClear(file) THEN "idle" ELSE "failed"]
    /\ attempt = [t \in Threads |-> 0]
    /\ bearer = [t \in Threads |-> NoToken]
    /\ got = [t \in Threads |-> <<>>]
    /\ tick = 0 /\ earlier = <<>>

\* The fetch raises (ProviderAuthError, ProviderRateLimitError, ProviderError):
\* it returns no page, and asks for no other.
Raise(t) == /\ state' = [state EXCEPT ![t] = "failed"]
            /\ left' = [left EXCEPT ![t] = 0]
            /\ got' = [got EXCEPT ![t] = <<>>]
            /\ attempt' = [attempt EXCEPT ![t] = 0]
            /\ UNCHANGED <<now, stamps, head, wake, lag>>

\* fetch_ohlcv checks the token before the first request.
Begin(t) ==
    /\ state[t] = "idle"
    /\ IF AuthOK(token) THEN state' = [state EXCEPT ![t] = "ask"] /\ UNCHANGED <<vars, attempt, got>>
                        ELSE Raise(t)
    /\ UNCHANGED <<file, token, changes, bearer, tick, earlier>>

\* A round of the limiter: granted, or asleep until the next round.
Slot(t) ==
    /\ state[t] = "ask" /\ Acquire(t)
    /\ state' = IF left'[t] < left[t] THEN [state EXCEPT ![t] = "granted"] ELSE state
    /\ UNCHANGED <<file, token, changes, attempt, bearer, got, tick, earlier>>

\* The token is read after the limiter's wait, and sent at once.
Send(t) ==
    /\ state[t] = "granted"
    /\ IF AuthOK(token)
       THEN /\ state' = [state EXCEPT ![t] = "sent"]
            /\ bearer' = [bearer EXCEPT ![t] = token]
            /\ UNCHANGED <<vars, attempt, got>>
       ELSE Raise(t) /\ UNCHANGED bearer
    /\ UNCHANGED <<file, token, changes, tick, earlier>>

\* 200 with a well-formed body.
Page(t) ==
    /\ got' = [got EXCEPT ![t] = Append(@, Wanted[Requests - left[t]])]
    /\ attempt' = [attempt EXCEPT ![t] = 0]
    /\ state' = [state EXCEPT ![t] = IF left[t] = 0 THEN "done" ELSE "ask"]
    /\ UNCHANGED vars

\* Slip: a throttled page is not asked for again.
ThrottledForward(t) ==
    /\ attempt[t] < MaxRetries
    /\ attempt' = [attempt EXCEPT ![t] = @ + 1]
    /\ state' = [state EXCEPT ![t] = IF left[t] = 0 THEN "done" ELSE "ask"]
    /\ UNCHANGED <<vars, got>>

\* 429 or 503: the same page again after Retry-After or the backoff, until
\* the retries are spent.
Throttled(t) ==
    /\ IF attempt[t] < MaxRetries
       THEN /\ \E d \in Hints \union {BackoffBase * 2^attempt[t]} : wake' = [wake EXCEPT ![t] = now + d]
            /\ attempt' = [attempt EXCEPT ![t] = @ + 1]
            /\ left' = [left EXCEPT ![t] = @ + 1]
            /\ state' = [state EXCEPT ![t] = "ask"]
            /\ UNCHANGED <<now, stamps, head, lag, got>>
       ELSE Raise(t)

\* The provider answers; it knows when a token is no longer valid.
Answer(t) ==
    /\ state[t] = "sent"
    /\ IF bearer[t] # EnvToken /\ now >= ExpiresAt(bearer[t])
       THEN Raise(t)
       ELSE Page(t) \/ Throttled(t) \/ Raise(t)
    /\ bearer' = [bearer EXCEPT ![t] = NoToken]
    /\ UNCHANGED <<file, token, changes, tick, earlier>>

\* analytical-provider login, set-token and clear, at any time.
ChangeToken ==
    /\ changes < MaxTokens
    /\ token # EnvToken
    /\ token' \in {NoToken, now \div DayLength} /\ token' # token
    /\ changes' = changes + 1
    /\ UNCHANGED <<vars, file, state, attempt, bearer, got, tick, earlier>>

Pass == Advance /\ UNCHANGED own

\* A tick, at most Grace late, opens a context with a new budget; one that
\* finds a cycle running is skipped.
NewContext ==
    /\ GateClear(file) /\ \A t \in Threads : Ended(t)
    /\ \E n \in now..(now + CycleInterval + Grace) :
          /\ n \div CycleInterval > tick /\ n % CycleInterval <= Grace /\ n + Horizon <= MaxTime
          /\ now' = n /\ tick' = n \div CycleInterval
          /\ wake' = [t \in Threads |-> n]
    /\ stamps' = <<>> /\ head' = 1
    /\ left' = [t \in Threads |-> Requests]
    /\ state' = [t \in Threads |-> "idle"]
    /\ attempt' = [t \in Threads |-> 0]
    /\ got' = [t \in Threads |-> <<>>]
    /\ UNCHANGED lag
    /\ LET all == earlier \o stamps     \* in order: the oldest leave the window first
           old == {k \in 1..Len(all) : all[k] <= now' - Window}
       IN  earlier' = SubSeq(all, Cardinality(old) + 1, Len(all))
    /\ UNCHANGED <<file, token, changes, bearer>>

NextAccess ==
    \/ \E t \in Threads : Begin(t) \/ Slot(t) \/ Send(t) \/ Answer(t)
    \/ ChangeToken \/ Pass \/ NewContext

SpecAccess == InitAccess /\ [][NextAccess]_accessVars
FairAccess == /\ SpecAccess /\ WF_accessVars(Pass)
              /\ \A t \in Threads : WF_accessVars(Begin(t) \/ Slot(t) \/ Send(t) \/ Answer(t))

-----------------------------------------------------------------------------
\* The variables keep their types; grants lie in the past, in order.
AccessTypeOK ==
    /\ TypeOK
    /\ file \in Files /\ token \in {NoToken, EnvToken} \union Nat /\ changes \in 0..MaxTokens
    /\ state \in [Threads -> {"idle", "ask", "granted", "sent", "done", "failed"}]
    /\ attempt \in [Threads -> 0..MaxRetries]
    /\ bearer \in [Threads -> {NoToken, EnvToken} \union Nat]
    /\ tick \in Nat /\ earlier \in Seq(Nat)

\* A fetch that returns has every day it was asked for, once and in order,
\* whatever was throttled and retried on the way; one that raises spent no
\* grant on a page after the one it raised for (http.py get_json, candles.py).
FetchIsWhole ==
    \A t \in Threads :
        /\ state[t] = "done" => FlattenSeq([k \in 1..Len(got[t]) |-> [d \in 1..(got[t][k][2] - got[t][k][1] + 1) |-> got[t][k][1] + d - 1]])
                                    = [d \in 1..(Today - FirstDay + 1) |-> FirstDay + d - 1]
        /\ state[t] \in {"ask", "granted", "sent"} =>
              Len(got[t]) + left[t] + (IF state[t] = "ask" THEN 0 ELSE 1) = Requests

\* Nothing is asked of the provider before every item that blocks the phase
\* is resolved and on record, however the status file lists them (docs/11).
AskedOnlyWhenValidated ==
    stamps # <<>> => \A k \in DOMAIN Blocking : Resolved(Blocking[k], file.items[Blocking[k]])

\* Every fetch ends, however the sleepers race for freed slots, the provider
\* throttles and the token comes and goes.
FetchesEnd == \A t \in Threads : (state[t] = "idle") ~> Ended(t)

\* docs/02-ARCHITECTURE.md:323-326: the requests of one cycle fit the quota,
\* and then the rolling budget holds for what is sent to the provider.
CycleBudgetRule == Cardinality(Threads) * Requests * Window <= Quota * CycleInterval
RollingQuota ==
    LET all == earlier \o stamps
    IN CycleBudgetRule => \A i \in 1..Len(all) : i > Quota => all[i] - all[i - Quota] >= Window
=============================================================================
