--------------------------- MODULE MCProviderAccess ---------------------------
(* Two fetch threads; three days in two pages. *)
EXTENDS ProviderAccess, TLC
CONSTANTS t1, t2

MCHints == {0}
MCTokens == {EnvToken, 0}
MCBlocking == <<1, 2>>
MCBranches == 2 :> {"A"}

Open == [status |-> "OPEN", decided |-> FALSE, evidence |-> FALSE, fallback |-> FALSE, branch |-> "none"]
Confirmed == [Open EXCEPT !.status = "CONFIRMED", !.decided = TRUE, !.evidence = TRUE]
Accepted == [Open EXCEPT !.status = "ACCEPTED_FALLBACK", !.decided = TRUE, !.fallback = TRUE, !.branch = "A"]
File(ids, items) == [ids |-> ids, items |-> items]
\* Item 3 does not block.
MCFiles == {File(MCBlocking, <<Confirmed, Accepted, Open>>),
            File(<<2>>, <<Open, Accepted, Open>>),
            File(MCBlocking, <<Confirmed, [Accepted EXCEPT !.branch = "C"], Open>>),
            File(MCBlocking, <<[Confirmed EXCEPT !.evidence = FALSE], Accepted, Open>>),
            File(MCBlocking, <<Confirmed, Accepted>>)}
=============================================================================
