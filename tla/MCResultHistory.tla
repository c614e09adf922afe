--------------------------- MODULE MCResultHistory ---------------------------
(* Two timeframes, two sessions, results from the first bar on or later. *)
EXTENDS ResultHistory
TwoTFs == <<"M5", "D1">>
OneTF == <<"D1">>
=============================================================================
