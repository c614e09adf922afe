------------------------ MODULE MCInstrumentRegistry ------------------------
(* An index, a future and three options of two expiries. *)
EXTENDS InstrumentRegistry
I == [kind |-> "INDEX", und |-> "N", expiry |-> 0, weekly |-> FALSE, strike |-> 0, right |-> "-",
      index |-> <<>>]
Derived(kind, expiry, weekly, strike, right) ==
    [kind |-> kind, und |-> "N", expiry |-> expiry, weekly |-> weekly, strike |-> strike,
     right |-> right, index |-> I]
MCOrder == <<Derived("FUTURE", 2, FALSE, 0, "-"), I,
             Derived("OPTION", 2, FALSE, 1, "CE"), Derived("OPTION", 1, TRUE, 1, "CE")>>
=============================================================================
