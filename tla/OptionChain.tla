----------------------------- MODULE OptionChain -----------------------------
(***************************************************************************)
(* One expiry's option chain (options/chain.py, decay.py).  A contract is  *)
(* <<strike, side>>; a leg is what the store knows of it.  Of Black-       *)
(* Scholes only what the screens tell apart is kept: a leg priced above    *)
(* its intrinsic value before the expiry has a decay, its time value.      *)
(***************************************************************************)
EXTENDS Integers, Sequences, FiniteSets, FiniteSetsExt

CE == "CE"
PE == "PE"
Sides == {CE, PE}
None == -9999                 \* Python's None, for prices, interests, strikes and changes
OrZero(v) == IF v = None THEN 0 ELSE v

Abs(x) == IF x < 0 THEN -x ELSE x
\* The strike nearest to x, the lower of two.
Nearest(S, x) == CHOOSE s \in S : \A r \in S : Abs(s - x) < Abs(r - x) \/ (Abs(s - x) = Abs(r - x) /\ s <= r)
Total(f) == MapThenSumSet(LAMBDA k : f[k], DOMAIN f)
\* The key of the largest value, the lowest of several; values are at least 0.
Hottest(f) == CHOOSE k \in DOMAIN f : \A j \in DOMAIN f : f[k] > f[j] \/ (f[k] = f[j] /\ k <= j)

StrikesOf(C) == {c[1] : c \in C}
\* The values of one side, by strike.
SideOf(f, side) == [s \in StrikesOf({c \in DOMAIN f : c[2] = side}) |-> f[<<s, side>>]]

Payout(at, ce, pe) == MapThenSumSet(LAMBDA k : IF at > k THEN ce[k] * (at - k) ELSE 0, DOMAIN ce)
                    + MapThenSumSet(LAMBDA k : IF k > at THEN pe[k] * (k - at) ELSE 0, DOMAIN pe)
MaxPain(S, ce, pe) ==
    IF S = {} THEN None
    ELSE CHOOSE s \in S : \A r \in S : Payout(s, ce, pe) < Payout(r, ce, pe) \/ (Payout(s, ce, pe) = Payout(r, ce, pe) /\ s <= r)

\* Which side draws the fresh interest: 1.3 times what the other does; and where.
Crowded(ce, pe) ==
    LET built(f) == [k \in {j \in DOMAIN f : f[j] > 0} |-> f[k]]
        c == Total(built(ce))
        p == Total(built(pe))
        hot(f) == IF DOMAIN built(f) = {} THEN None ELSE Hottest(built(f))
    IN  [side |-> CASE 10 * c > 13 * p -> "CALLS" [] 10 * p > 13 * c -> "PUTS" [] OTHER -> "BALANCED",
         call |-> hot(ce), put |-> hot(pe), callAdd |-> c, putAdd |-> p]

Intrinsic(c, s) == IF c[2] = CE THEN Max({0, s - c[1]}) ELSE Max({0, c[1] - s})

\* A leg of the chain: the session's shape, what its interest opened at, its decay.
ChainLeg(c, leg, spot, alive) ==
    LET ranged == None \notin {leg.open, leg.high, leg.low} /\ leg.high > leg.low
    IN  [ltp |-> leg.ltp, oi |-> leg.oi, change |-> leg.change, volume |-> leg.volume,
         openAtHigh |-> ranged /\ leg.open = leg.high,
         openAtLow |-> ranged /\ leg.open = leg.low,
         openingOI |-> IF None \in {leg.oi, leg.change} THEN None ELSE leg.oi - leg.change,
         theta |-> IF leg.ltp > 0 /\ alive /\ leg.ltp > Intrinsic(c, spot) THEN Intrinsic(c, spot) - leg.ltp ELSE None]

BuildChain(legs, spot, alive) ==
    LET strikes == StrikesOf(DOMAIN legs)
        oi(side) == SideOf([c \in DOMAIN legs |-> OrZero(legs[c].oi)], side)
        change(side) == SideOf([c \in DOMAIN legs |-> OrZero(legs[c].change)], side)
        hot == Crowded(change(CE), change(PE))
    IN  [spot |-> spot, strikes |-> strikes,
         legs |-> [c \in DOMAIN legs |-> ChainLeg(c, legs[c], spot, alive)],
         crowded |-> {c \in DOMAIN legs : c \in {<<hot.call, CE>>, <<hot.put, PE>>}},
         atm |-> Nearest(strikes, spot), hot |-> hot,
         maxPain |-> MaxPain(strikes, oi(CE), oi(PE)),
         callOI |-> Total(oi(CE)), putOI |-> Total(oi(PE))]

\* The premium lost since the open against what theta alone predicts, the
\* elapsed minutes being a fraction of theta's calendar day.  As expected:
\* within half a point or 0.3 of the prediction.
Minutes == 1440
DecayLeg(leg, atOpen, elapsed) ==
    LET expected == leg.theta * elapsed
        actual == leg.ltp - atOpen
        gap == Minutes * actual - expected
    IN  CASE None \in {leg.theta, leg.ltp, atOpen} -> "NO_DATA"
          [] 10 * Abs(gap) <= Max({5 * Minutes, 3 * Abs(expected)}) -> "AS_EXPECTED"
          [] OTHER -> IF gap < 0 THEN "DECAYING_FASTER" ELSE "OFFSET_BY_MOVE"
\* Theta of one lot, and of the straddle at the money when both legs have it.
PerLot(leg, lot) == IF None \in {leg.theta, lot} THEN None ELSE leg.theta * lot
PremiumDecay(chain, atOpen, elapsed, lot) ==
    LET atm == {PerLot(chain.legs[c], lot) : c \in {<<chain.atm, CE>>, <<chain.atm, PE>>} \cap DOMAIN chain.legs}
    IN  [states |-> [c \in DOMAIN chain.legs |-> DecayLeg(chain.legs[c], atOpen[c], elapsed)],
         straddle |-> IF None \in atm \/ ~({<<chain.atm, CE>>, <<chain.atm, PE>>} \subseteq DOMAIN chain.legs) THEN None
                      ELSE PerLot(chain.legs[<<chain.atm, CE>>], lot) + PerLot(chain.legs[<<chain.atm, PE>>], lot)]
=============================================================================
