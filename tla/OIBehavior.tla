----------------------------- MODULE OIBehavior -----------------------------
(* Price direction against open-interest direction, as the analysis of a     *)
(* future and the pulse of an option chain both read it                      *)
(* (indicators/open_interest.py).                                            *)
EXTENDS Integers
Direction(delta, eps) == IF delta > eps THEN "UP" ELSE IF delta < -eps THEN "DOWN" ELSE "FLAT"
ClassifyOI(price, oi) ==
    CASE price = "FLAT" \/ oi = "FLAT" -> "INDETERMINATE"
      [] price = "UP" /\ oi = "UP" -> "LONG_BUILDUP"
      [] price = "DOWN" /\ oi = "UP" -> "SHORT_BUILDUP"
      [] price = "DOWN" /\ oi = "DOWN" -> "LONG_UNWINDING"
      [] price = "UP" /\ oi = "DOWN" -> "SHORT_COVERING"
=============================================================================
