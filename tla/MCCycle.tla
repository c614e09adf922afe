------------------------------- MODULE MCCycle -------------------------------
(* Every way to ask for a cycle, and those that leave out a phase between. *)
EXTENDS Cycle
AllRequests == SUBSET {"INGEST", "ANALYZE", "SCORE"}
SomeRequests == {{"INGEST", "ANALYZE", "SCORE"}, {"INGEST", "SCORE"}, {"ANALYZE", "SCORE"}, {}}
=============================================================================
