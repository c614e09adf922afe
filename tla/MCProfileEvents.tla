--------------------------- MODULE MCProfileEvents ---------------------------
(* Four half-hours, the last one partial; a first day of two bars that may   *)
(* repeat or be missing, and a second of four.                              *)
EXTENDS ProfileEvents
Bar(open, low, high, close, vol) ==
    [open |-> open, low |-> low, high |-> high, close |-> close, vol |-> 60 * vol]
MCPrints == << {Bar(4, 3, 6, 5, 1), Bar(5, 5, 8, 6, 2)},
               {Bar(4, 3, 7, 5, 1), Bar(9, 8, 11, 10, 1), Bar(10, 10, 13, 13, 2)} >>
=============================================================================
