------------------------------ MODULE Strategy ------------------------------
(***************************************************************************)
(* Option structures read off the chain's open interest                    *)
(* (options/strategy.py): six views are scored on the evidence, each view  *)
(* has its templates, and each suggestion states what it earns and loses   *)
(* at expiry.  Scores are counted in quarters; prices are whole points,    *)
(* P/L in half points.  A leg is [qty, c, ltp, far]: qty < 0 is sold.      *)
(***************************************************************************)
EXTENDS OptionChain, SequencesExt

CONSTANTS
    WingSteps,        \* wing_steps; wing_points is left unset
    NearExpiryDays,   \* near_expiry_days
    MaxSuggestions,   \* max_suggestions
    MinRewardRisk,    \* min_reward_risk, in hundredths
    Spread            \* how far from spot an expiry may end

Views == <<"RANGEBOUND", "LEAN_BULLISH", "LEAN_BEARISH", "TREND_BULLISH", "TREND_BEARISH", "VOL_EXPANSION">>
Step(S) == LET gaps == {b - a : <<a, b>> \in {q \in S \X S : q[1] < q[2]}} IN IF gaps = {} THEN 1 ELSE Min(gaps)

\* The evidence: each award is <<view, what for, quarters>>.
FlowAwards(ce, pe) ==
    CASE ce < 0 /\ pe > 0 -> {<<"TREND_BULLISH", "flow", 8>>, <<"LEAN_BULLISH", "flow", 2>>}
      [] pe < 0 /\ ce > 0 -> {<<"TREND_BEARISH", "flow", 8>>, <<"LEAN_BEARISH", "flow", 2>>}
      [] ce < 0 /\ pe < 0 -> {<<"VOL_EXPANSION", "flow", 8>>}
      [] ce > 0 /\ pe > 0 /\ 100 * Min({ce, pe}) >= 45 * Max({ce, pe}) -> {<<"RANGEBOUND", "flow", 6>>}
      [] pe > ce /\ ce >= 0 -> {<<"LEAN_BULLISH", "flow", 5>>}
      [] ce > pe /\ pe >= 0 -> {<<"LEAN_BEARISH", "flow", 5>>}
      [] OTHER -> {}
PcrAwards(ce, pe) ==
    CASE ce = 0 -> {}
      [] 100 * pe >= 115 * ce -> {<<"LEAN_BULLISH", "pcr", 3>>}
      [] 100 * pe <= 85 * ce -> {<<"LEAN_BEARISH", "pcr", 3>>}
      [] 90 * ce <= 100 * pe /\ 100 * pe <= 110 * ce -> {<<"RANGEBOUND", "pcr", 3>>}
      [] OTHER -> {}
PainAwards(off, step, dte) ==
    (CASE off <= -2 * step -> {<<"LEAN_BEARISH", "pain", 3>>}
       [] off >= 2 * step -> {<<"LEAN_BULLISH", "pain", 3>>}
       [] Abs(off) <= step -> {<<"RANGEBOUND", "pain", 3>>}
       [] OTHER -> {})
    \cup IF dte <= NearExpiryDays /\ Abs(off) >= 3 * step THEN {<<"VOL_EXPANSION", "pain", 6>>} ELSE {}
Awards(v) ==
    UNION {FlowAwards(v.ceNet, v.peNet), PcrAwards(v.ceOI, v.peOI), PainAwards(v.maxPain - v.spot, v.step, v.dte),
           CASE v.crowded = "PUTS" -> {<<"LEAN_BULLISH", "crowd", 2>>}
             [] v.crowded = "CALLS" -> {<<"LEAN_BEARISH", "crowd", 2>>} [] OTHER -> {},
           IF None \notin {v.support, v.resistance} /\ v.support < v.spot /\ v.spot < v.resistance /\ v.resistance - v.support >= 2 * v.step
           THEN {<<"RANGEBOUND", "walls", 4>>} ELSE {}}

\* The best view, the first of several; a decisive flow overrides a positional
\* read, and a clean one-sided write a merely neutral one.
Classify(v) ==
    LET score == [w \in Range(Views) |-> MapThenSumSet(LAMBDA a : a[3], {a \in Awards(v) : a[1] = w})]
        best(S) == S[CHOOSE i \in DOMAIN S : \A j \in DOMAIN S : 2 * score[S[i]] >= 2 * score[S[j]] + (IF i <= j THEN 0 ELSE 1)]
        label == best(Views)
        flows == SelectSeq(<<"TREND_BULLISH", "TREND_BEARISH", "VOL_EXPANSION">>, LAMBDA f : score[f] >= 8 /\ score[f] >= score[label] - 3)
        lean == best(<<"LEAN_BULLISH", "LEAN_BEARISH">>)
    IN  CASE score[label] = 0 -> "RANGEBOUND"
          [] flows # <<>> -> flows[1]
          [] OTHER -> IF label = "RANGEBOUND" /\ score[lean] >= 6 /\ score[lean] >= score[label] - 1 THEN lean ELSE label

\* What the book reads off the quotes of one expiry: [c -> [oi, change, ltp]].
MarketView(quotes, spot, dte) ==
    LET S == StrikesOf(DOMAIN quotes)
        oi(side) == SideOf([c \in DOMAIN quotes |-> OrZero(quotes[c].oi)], side)
        change(side) == SideOf([c \in DOMAIN quotes |-> OrZero(quotes[c].change)], side)
        wall(f) == IF Total(f) = 0 THEN None ELSE Hottest(f)
        v == [spot |-> spot, step |-> Step(S), dte |-> dte, atm |-> Nearest(S, spot),
              ceOI |-> Total(oi(CE)), peOI |-> Total(oi(PE)), ceNet |-> Total(change(CE)), peNet |-> Total(change(PE)),
              support |-> wall(oi(PE)), resistance |-> wall(oi(CE)), maxPain |-> MaxPain(S, oi(CE), oi(PE)),
              crowded |-> Crowded(change(CE), change(PE)).side]
    IN  v @@ [label |-> Classify(v)]

\* What the legs cost (< 0) or bring, and what they are worth at expiry with
\* the underlying at h half points.
NetPremium(legs) ==
    IF \E i \in DOMAIN legs : legs[i].ltp = None THEN None ELSE FoldLeft(LAMBDA sum, g : sum - g.qty * g.ltp, 0, legs)
Pnl(legs, h) ==
    FoldLeft(LAMBDA sum, g : sum + g.qty * Max({0, IF g.c[2] = CE THEN h - 2 * g.c[1] ELSE 2 * g.c[1] - h}), 2 * NetPremium(legs), legs)
\* How likely an expiry ends between, or in profit, in percent: for the
\* lognormal distribution stands the even one around spot.  Without a volatility
\* at the money, or with no time left, nothing is said.
Share(H, spot) == (100 * Cardinality(H \cap (2 * (spot - Spread))..(2 * (spot + Spread)))) \div (4 * Spread + 1)
Pop(legs, spot, iv) ==
    IF ~iv \/ NetPremium(legs) = None \/ \E i \in DOMAIN legs : legs[i].far THEN None
    ELSE Share({h \in (2 * (spot - Spread))..(2 * (spot + Spread)) : Pnl(legs, h) > 0}, spot)

\* add: what a suggestion states.
Suggestion(name, family, bias, legs, breakevens, profit, loss, pop) ==
    LET rr == IF None \in {profit, loss} \/ loss = 0 THEN None ELSE (200 * profit + Abs(loss)) \div (2 * Abs(loss))
    IN  [name |-> name, family |-> family, bias |-> bias, legs |-> legs, prem |-> NetPremium(legs),
         breakevens |-> breakevens, profit |-> profit, loss |-> loss, rewardRisk |-> rr, pop |-> pop,
         edge |-> IF None \in {pop, rr} THEN None ELSE pop * rr]
Credit(width, prem) == IF prem = None THEN <<None, None>> ELSE <<prem, width - prem>>
Debit(width, prem) == IF prem = None THEN <<None, None>> ELSE <<width + prem, -prem>>

\* Where the templates place their legs: the walls around the money, or else
\* two steps, and their wings.
Placing(quotes, v, iv) ==
    LET S == StrikesOf(DOMAIN quotes)
        wing == WingSteps * v.step
        res == Nearest(S, IF v.resistance # None /\ v.resistance > v.atm THEN v.resistance ELSE v.atm + 2 * v.step)
        sup == Nearest(S, IF v.support # None /\ v.support < v.atm THEN v.support ELSE v.atm - 2 * v.step)
    IN  [strikes |-> S, quotes |-> quotes, view |-> v, iv |-> iv, wing |-> wing, res |-> res, sup |-> sup,
         resWing |-> Nearest(S, res + wing), supWing |-> Nearest(S, sup - wing)]
Leg(x, qty, side, strike) ==
    [qty |-> qty, c |-> <<strike, side>>, far |-> FALSE,
     ltp |-> IF <<strike, side>> \in DOMAIN x.quotes THEN x.quotes[<<strike, side>>].ltp ELSE None]
Say(x, name, family, bias, legs, breakevens, pl) ==
    <<Suggestion(name, family, bias, legs, breakevens, pl[1], pl[2], Pop(legs, x.view.spot, x.iv))>>
Got(legs) == OrZero(NetPremium(legs))

\* Slip: a condor risks its narrower wing.
NarrowWing(a, b) == Min({a, b})
\* Only one side of a condor can be lost.
WiderWing(a, b) == Max({a, b})
RangeTemplates(x) ==
    LET atm == x.view.atm
        condor == <<Leg(x, -1, PE, x.sup), Leg(x, 1, PE, x.supWing), Leg(x, -1, CE, x.res), Leg(x, 1, CE, x.resWing)>>
        fly == <<Leg(x, -1, PE, atm), Leg(x, -1, CE, atm), Leg(x, 1, PE, x.supWing), Leg(x, 1, CE, x.resWing)>>
        strangle == <<Leg(x, -1, PE, x.sup), Leg(x, -1, CE, x.res)>>
    IN  Say(x, "IRON_CONDOR", "CONDOR_FLY", "NEUTRAL", condor, {x.sup - Got(condor), x.res + Got(condor)},
            Credit(WiderWing(x.resWing - x.res, x.sup - x.supWing), NetPremium(condor)))
        \o Say(x, "IRON_FLY", "CONDOR_FLY", "NEUTRAL", fly, {atm - Got(fly), atm + Got(fly)},
               Credit(WiderWing(Abs(x.resWing - atm), Abs(atm - x.supWing)), NetPremium(fly)))
        \o Say(x, "SHORT_STRANGLE", "STRANGLE_STRADDLE", "NEUTRAL", strangle, {x.sup - Got(strangle), x.res + Got(strangle)},
               <<NetPremium(strangle), None>>)

BullTemplates(x, trend) ==
    LET atm == x.view.atm
        short == Nearest(x.strikes, IF trend THEN atm ELSE Max({x.sup + x.view.step, atm - x.view.step}))
        long == Nearest(x.strikes, short - x.wing)
        spread == <<Leg(x, -1, PE, short), Leg(x, 1, PE, long)>>
        ratio == <<Leg(x, 1, CE, atm), Leg(x, -2, CE, x.res)>>
        debit == <<Leg(x, 1, CE, atm), Leg(x, -1, CE, x.res)>>
    IN  Say(x, "BULL_PUT_SPREAD", "VERTICAL", "BULLISH", spread, {short - Got(spread)}, Credit(Abs(short - long), NetPremium(spread)))
        \o Say(x, "CALL_RATIO_SPREAD_1X2", "RATIO", "BULLISH", ratio, {x.res + (x.res - atm) + Got(ratio)}, <<None, None>>)
        \o IF ~trend THEN <<>>
           ELSE Say(x, "BULL_CALL_SPREAD", "VERTICAL", "BULLISH", debit, {atm - Got(debit)}, Debit(Abs(x.res - atm), NetPremium(debit)))

BearTemplates(x, trend) ==
    LET atm == x.view.atm
        short == Nearest(x.strikes, IF trend THEN atm ELSE Min({x.res - x.view.step, atm + x.view.step}))
        long == Nearest(x.strikes, short + x.wing)
        spread == <<Leg(x, -1, CE, short), Leg(x, 1, CE, long)>>
        ratio == <<Leg(x, 1, PE, atm), Leg(x, -2, PE, x.sup)>>
        debit == <<Leg(x, 1, PE, atm), Leg(x, -1, PE, x.sup)>>
    IN  Say(x, "BEAR_CALL_SPREAD", "VERTICAL", "BEARISH", spread, {short + Got(spread)}, Credit(Abs(long - short), NetPremium(spread)))
        \o Say(x, "PUT_RATIO_SPREAD_1X2", "RATIO", "BEARISH", ratio, {x.sup - (atm - x.sup) - Got(ratio)}, <<None, None>>)
        \o IF ~trend THEN <<>>
           ELSE Say(x, "BEAR_PUT_SPREAD", "VERTICAL", "BEARISH", debit, {atm + Got(debit)}, Debit(Abs(atm - x.sup), NetPremium(debit)))

ExpansionTemplates(x) ==
    LET atm == x.view.atm
        c == Nearest(x.strikes, atm + x.wing)
        p == Nearest(x.strikes, atm - x.wing)
        straddle == <<Leg(x, 1, CE, atm), Leg(x, 1, PE, atm)>>
        strangle == <<Leg(x, 1, CE, c), Leg(x, 1, PE, p)>>
        paid(legs) == IF NetPremium(legs) = None THEN None ELSE -NetPremium(legs)
        priced(legs, E) == IF NetPremium(legs) = None THEN {} ELSE E
    IN  Say(x, "LONG_STRADDLE", "STRANGLE_STRADDLE", "NEUTRAL", straddle,
            priced(straddle, {atm + Got(straddle), atm - Got(straddle)}), <<None, paid(straddle)>>)
        \o Say(x, "LONG_STRANGLE", "STRANGLE_STRADDLE", "NEUTRAL", strangle,
               priced(strangle, {c + Got(strangle), p - Got(strangle)}), <<None, paid(strangle)>>)

\* The near expiry sold, the same strike of the far one bought.
Calendar(x, farQuotes, side, level) ==
    LET k == IF x.view.label = "RANGEBOUND" THEN x.view.atm ELSE Nearest(x.strikes, level)
        fk == <<Nearest(StrikesOf(DOMAIN farQuotes), k), side>>
        legs == <<Leg(x, -1, side, k),
                  [qty |-> 1, c |-> fk, far |-> TRUE, ltp |-> IF fk \in DOMAIN farQuotes THEN farQuotes[fk].ltp ELSE None]>>
    IN  <<Suggestion(IF side = CE THEN "CALL_CALENDAR" ELSE "PUT_CALENDAR", "CALENDAR", "NEUTRAL", legs, {}, None,
                     IF NetPremium(legs) # None /\ NetPremium(legs) < 0 THEN -NetPremium(legs) ELSE None,
                     IF x.iv THEN Share((2 * (k - x.wing))..(2 * (k + x.wing)), x.view.spot) ELSE None)>>

Suggestions(quotes, farQuotes, v, iv) ==
    LET x == Placing(quotes, v, iv)
    IN  (CASE v.label = "RANGEBOUND" -> RangeTemplates(x)
           [] v.label \in {"LEAN_BULLISH", "TREND_BULLISH"} -> BullTemplates(x, v.label = "TREND_BULLISH")
           [] v.label \in {"LEAN_BEARISH", "TREND_BEARISH"} -> BearTemplates(x, v.label = "TREND_BEARISH")
           [] v.label = "VOL_EXPANSION" -> ExpansionTemplates(x))
        \o IF DOMAIN farQuotes # {} /\ v.label \in {"RANGEBOUND", "LEAN_BULLISH", "LEAN_BEARISH"}
           THEN Calendar(x, farQuotes, CE, x.res) \o Calendar(x, farQuotes, PE, x.sup) ELSE <<>>

\* The book: too poor a reward left out, the best edge first, the rest last.
Ranked(kept) ==
    LET before(i, j) == kept[i].edge > kept[j].edge \/ (kept[i].edge = kept[j].edge /\ i < j)
        place(i) == 1 + Cardinality({j \in DOMAIN kept : before(j, i)})
    IN  [n \in 1..Min({MaxSuggestions, Len(kept)}) |-> kept[CHOOSE i \in DOMAIN kept : place(i) = n]]
BookOf(quotes, farQuotes, view, iv) ==
    [view |-> view,
     suggestions |-> Ranked(SelectSeq(Suggestions(quotes, farQuotes, view, iv),
         LAMBDA s : MinRewardRisk > 0 /\ s.rewardRisk # None => s.rewardRisk >= MinRewardRisk))]
StrategyBook(quotes, farQuotes, spot, dte, iv) == BookOf(quotes, farQuotes, MarketView(quotes, spot, dte), iv)
=============================================================================
