----------------------------- MODULE MCBarStore -----------------------------
(* Two trading days of two or three minutes and a day after them that is   *)
(* none; the two callers of the backfill are alike.                        *)
EXTENDS BarStore, TLC
CONSTANTS cycle, command
Callers == Permutations({cycle, command})
=============================================================================
