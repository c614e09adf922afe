---------------------------- MODULE MCOptionDesk ----------------------------
(* Six strikes, ten points apart, two expiries, a session of 150 minutes.    *)
EXTENDS OptionDesk
MCStrikes == {90, 100, 110, 120, 130, 140}
MCContracts == MCStrikes \X {"CE", "PE"}
MCDte == [near |-> 0, far |-> 7]
MCTime == <<12, 9, 7, 5, 4, 3, 2, 2, 1, 1, 1>>
Premium(spot) == [e \in DOMAIN MCDte |-> [c \in MCContracts |->
                     Intrinsic(c, spot) + MCTime[1 + Abs(c[1] - spot) \div 5] + (IF e = "far" THEN 4 ELSE 0)]]
At(ts, spot, written, silent) == [ts |-> ts, spot |-> spot, written |-> written, silent |-> silent, quiet |-> {}, premium |-> Premium(spot)]
\* The same with contracts whose ticks carry no interest.
Quiet(m, contracts) == [m EXCEPT !.quiet = contracts]
\* n more of each contract, and w more at the two walls.
Writes(ce, pe, call, put, w) == [c \in MCContracts |-> IF c \in {<<call, "CE">>, <<put, "PE">>} THEN w ELSE IF c[2] = "CE" THEN ce ELSE pe]
MCYesterday == [e \in DOMAIN MCDte |-> [c \in MCContracts |->
    IF c = <<140, "CE">> THEN [oi |-> <<>>, px |-> <<>>, vol |-> <<>>]
    ELSE [oi |-> <<<<-900, 50>>>>, px |-> <<<<-900, Premium(110)[e][c]>>>>, vol |-> <<<<-900, 5>>>>]]]
MCTapes == <<
    {At(20, 112, Writes(4, 4, 130, 100, 20), {}), Quiet(At(20, 107, Writes(-6, 3, 120, 110, 9), {<<140, "CE">>, <<90, "PE">>}), {<<110, "CE">>}),
     At(20, 118, Writes(3, -6, 130, 90, 12), {<<100, "PE">>})},
    {Quiet(At(75, 112, Writes(-8, -8, 120, 100, -4), {}), {<<100, "CE">>, <<120, "PE">>}), At(75, 124, Writes(-5, 6, 130, 110, 30), {<<140, "CE">>}),
     At(75, 98, Writes(9, -4, 110, 100, 25), {<<120, "CE">>, <<120, "PE">>})},
    {At(97, 115, Writes(2, 9, 130, 110, 8), {}), Quiet(At(97, 94, Writes(9, 2, 120, 90, -9), {<<90, "PE">>}), {<<130, "CE">>}),
     At(97, 133, Writes(-9, -9, 140, 120, -7), {<<110, "CE">>})},
    {Quiet(At(165, 121, Writes(-3, 2, 130, 110, 12), {}), {<<90, "CE">>, <<130, "PE">>})} >>
=============================================================================
