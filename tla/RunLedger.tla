------------------------------ MODULE RunLedger ------------------------------
(***************************************************************************)
(* What the analysis_runs table promises to its readers (docs/03-DATABASE  *)
(* 5.3: "exactly one row per execution cycle", "cycle_seq bigint UNIQUE    *)
(* NOT NULL, monotonic"), with nothing of how the writers coordinate:      *)
(* committed rows are numbered 1, 2, 3, ... in the order of their ids, a   *)
(* row is never removed or renumbered, and a row that has left RUNNING     *)
(* never changes again.                                                    *)
(***************************************************************************)
EXTENDS Integers

CONSTANT Statuses,     \* RunStatus
         Running       \* RunStatus.RUNNING

VARIABLE ledger        \* id -> [seq, status] of every committed row

Seqs(l) == {l[i].seq : i \in DOMAIN l}

\* The one number the next row may carry.
IsNextSeq(n, l) == /\ n \in Nat \ {0}
                   /\ n \notin Seqs(l)
                   /\ \A m \in 1..(n - 1) : m \in Seqs(l)

Init == ledger = [i \in {} |-> [seq |-> 1, status |-> Running]]

\* A row appears: open (RUNNING) or already closed.
Append(i, n, s) ==
    /\ \A j \in DOMAIN ledger : j < i
    /\ IsNextSeq(n, ledger)
    /\ ledger' = [j \in DOMAIN ledger \cup {i} |->
                    IF j = i THEN [seq |-> n, status |-> s] ELSE ledger[j]]

\* An open row is closed.
Close(i, s) ==
    /\ i \in DOMAIN ledger
    /\ ledger[i].status = Running
    /\ s # Running
    /\ ledger' = [ledger EXCEPT ![i].status = s]

Next == \/ \E i \in DOMAIN ledger' : /\ ledger'[i].status \in Statuses
                                     /\ Append(i, ledger'[i].seq, ledger'[i].status)
        \/ \E i \in DOMAIN ledger, s \in Statuses : Close(i, s)

Spec == Init /\ [][Next]_ledger
=============================================================================
