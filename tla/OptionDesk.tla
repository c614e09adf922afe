----------------------------- MODULE OptionDesk -----------------------------
(***************************************************************************)
(* The option screens of one underlying (api/services.py) over a session:  *)
(* the stream stores minutes of premium and open interest, a cycle         *)
(* analyses them and completes the underlying's M5 bars, the roll drops    *)
(* the near expiry.  Every screen is computed on read from those rows.     *)
(* Minute 0 is the session's open.                                         *)
(***************************************************************************)
EXTENDS OiPulse, Strategy

CONSTANTS
    Contracts,      \* <<strike, side>>, the same for both expiries
    Dte,            \* the days to each expiry
    Close,          \* the minute of the session's close
    Lot,
    Minutes0,       \* the rows the store holds from the day before
    Tapes           \* bound: for each step of the stream, the minutes that may be stored

VARIABLES
    now,
    steps,          \* how many minutes the stream has stored
    tape,           \* the rows of each contract of each expiry
    spots,          \* the underlying's M1 closes
    m5,             \* its last complete M5 close
    analysed,       \* the open_interest values of the last cycle
    tracked         \* the expiries that are still fetched
vars == <<now, steps, tape, spots, m5, analysed, tracked>>

Expiries == DOMAIN Dte
NoAnalysis == [oi |-> None, change |-> None]

Init ==
    /\ now = -10 /\ steps = 0 /\ spots = <<>> /\ m5 = None
    /\ tape = Minutes0
    /\ analysed = [e \in Expiries |-> [c \in Contracts |-> NoAnalysis]]
    /\ tracked = Expiries

\* A minute's rows reach the store; a silent contract has none, and one whose
\* ticks carried no interest has a premium only.
Store(m) ==
    /\ now' = m.ts /\ steps' = steps + 1
    /\ spots' = Append(spots, <<m.ts, m.spot>>)
    /\ tape' = [e \in Expiries |-> [c \in Contracts |->
                   IF c \in m.silent THEN tape[e][c]
                   ELSE [oi |-> IF c \in m.quiet THEN tape[e][c].oi
                           ELSE Append(tape[e][c].oi, <<m.ts, Max({0, OrZero(Last2(tape[e][c].oi)) + m.written[c]})>>),
                         px |-> Append(tape[e][c].px, <<m.ts, m.premium[e][c]>>),
                         vol |-> Append(tape[e][c].vol, <<m.ts, Abs(m.written[c])>>)]]]
    /\ UNCHANGED <<m5, analysed, tracked>>
Stream == steps < Len(Tapes) /\ \E m \in Tapes[steps + 1] : Store(m)

\* open_interest of the last two points.
Analysis(s) == IF Len(s) < 2 THEN NoAnalysis ELSE [oi |-> s[Len(s)][2], change |-> s[Len(s)][2] - s[Len(s) - 1][2]]
Cycle ==
    /\ spots # <<>>
    /\ m5' = Last2(spots)
    /\ analysed' = [e \in Expiries |-> [c \in Contracts |-> IF e \in tracked THEN Analysis(tape[e][c].oi) ELSE analysed[e][c]]]
    /\ UNCHANGED <<now, steps, tape, spots, tracked>>

Roll ==
    /\ tracked = Expiries /\ spots # <<>>
    /\ tracked' = Expiries \ {CHOOSE e \in Expiries : \A f \in Expiries : Dte[e] <= Dte[f]}
    /\ UNCHANGED <<now, steps, tape, spots, m5, analysed>>

Next == Stream \/ Cycle \/ Roll
Spec == Init /\ [][Next]_vars

-----------------------------------------------------------------------------
(* The screens.                                                            *)
Earliest(E) == CHOOSE e \in E : \A f \in E : Dte[e] <= Dte[f]
\* _pick_near_expiry: the earliest that is still tracked.
NearExpiry == Earliest(IF tracked # {} THEN tracked ELSE Expiries)

Since(s, t) == SelectSeq(s, LAMBDA row : row[1] >= t)
TapeSince(e, t) == [c \in Contracts |-> [oi |-> Since(tape[e][c].oi, t), px |-> Since(tape[e][c].px, t), vol |-> Since(tape[e][c].vol, t)]]
PulseOpen == Min({0, now - 60})
HasSpot == spots # <<>>
PulseSpot == Last2(spots)                          \* the latest bar, M1 or M5
ChainSpot == IF m5 # None THEN m5 ELSE Last2(spots)   \* M5 before M1

\* A leg as option_chain assembles it: today's bars, or else the last bar.
LegOf(e, c) ==
    LET today == Since(tape[e][c].px, 0)
        seen == {today[i][2] : i \in DOMAIN today}
        change == analysed[e][c].change
        oi == IF tape[e][c].oi # <<>> THEN Last2(tape[e][c].oi) ELSE analysed[e][c].oi
    IN  IF today = <<>>
        THEN [ltp |-> Last2(tape[e][c].px), volume |-> Last2(tape[e][c].vol), oi |-> oi, change |-> change,
              open |-> None, high |-> None, low |-> None]
        ELSE [ltp |-> Last2(today), volume |-> SumAtOrBefore(Since(tape[e][c].vol, 0), now), oi |-> oi, change |-> change,
              open |-> today[1][2], high |-> Max(seen), low |-> Min(seen)]
Chain(e) == BuildChain([c \in Contracts |-> LegOf(e, c)], ChainSpot, Dte[e] > 0 \/ now < Close)

Decay(e) ==
    LET today(c) == Since(tape[e][c].px, 0)
    IN  PremiumDecay(Chain(e), [c \in Contracts |-> IF today(c) = <<>> THEN None ELSE today(c)[1][2]], Max({0, now}), Lot)

Later(e) == {f \in Expiries : Dte[f] > Dte[e]}
\* atm_iv: a leg at the money has a time value, from which a volatility is implied.
AtmIv(chain) == \E side \in Sides : <<chain.atm, side>> \in DOMAIN chain.legs /\ chain.legs[<<chain.atm, side>>].theta # None
BookFrom(chain, e) ==
    StrategyBook(chain.legs, IF Later(e) = {} THEN <<>> ELSE Chain(Earliest(Later(e))).legs, chain.spot, Dte[e], AtmIv(chain))
Book(e) == BookFrom(Chain(e), e)

Pulse(e, up, down) == BuildPulse(TapeSince(e, PulseOpen), PulseSpot, PulseOpen, Close, now, up, down)

\* Slip: the last column is one step old.
MarksBefore(n, step) == [i \in 1..n |-> Min({now, Close}) - step * (n - i + 1)]
\* The columns of the ladder end now, or with the session.
LadderMarks(n, step) == [i \in 1..n |-> Min({now, Close}) - step * (n - i)]
Ladder(e, n, step, up, down) == BuildLadder(TapeSince(e, PulseOpen), LadderMarks(Max({2, n}), step), PulseSpot, up, down)
LtpTrace(e, c) == BuildLtpTrace(TapeSince(e, PulseOpen)[c], Since(spots, PulseOpen))

-----------------------------------------------------------------------------
\* Contracts the session has seen both a premium and an open interest of.
Live(e) == {c \in Contracts : Since(tape[e][c].px, 0) # <<>> /\ Since(tape[e][c].oi, PulseOpen) # <<>>}

\* What has to agree, for one expiry.
AgreeOn(e, chain, pulse, ladder, decay) ==
    LET movers == Movers(pulse, PulseSpot, {<<"ATM">>} \cup {"DEEP", "NEAR"} \X {"ITM", "OTM"}, 3)
    IN  /\ \A c \in Live(e) :
              LET own == LtpTrace(e, c)
                  x == chain.legs[c]
              IN  /\ x.ltp = pulse.legs[c].ltp /\ x.oi = pulse.legs[c].oi
                  /\ x.ltp = ladder[c][3].ltp /\ x.oi = ladder[c][3].oi
                  /\ x.ltp = own[Len(own)].ltp /\ x.oi = own[Len(own)].oi
        /\ \A c \in Contracts : decay.states[c] # "NO_DATA" => Since(tape[e][c].px, 0) # <<>>
        /\ Live(e) = Contracts =>
              /\ chain.callOI = pulse.ceOI /\ chain.putOI = pulse.peOI /\ chain.maxPain = pulse.maxPain
              /\ now > PulseOpen =>
                    LET end == pulse.trace[Len(pulse.trace)]
                    IN  /\ end.ceOI = pulse.ceOI /\ end.peOI = pulse.peOI /\ end.maxPain = pulse.maxPain
                        /\ end.ce = pulse.ceNet /\ end.pe = pulse.peNet
        /\ \A c \in movers.added :
              pulse.legs[c].session <= pulse.legs[<<IF c[2] = CE THEN pulse.hot.call ELSE pulse.hot.put, c[2]>>].session

\* The screens read the same rows by different code and agree: the chain, the
\* pulse, the last column of the ladder and the end of a contract's own trace
\* show one premium and one open interest; decay is stated for contracts that
\* traded; when every contract has a row of the session, the chain's totals and
\* max pain are those of the pulse and of the last mark of its trace; and no
\* mover beats the strike the pulse calls crowded.
ScreensAgree ==
    HasSpot /\ now <= Close =>
        \A e \in {NearExpiry} :
            AgreeOn(e, Chain(e), Pulse(e, None, None), Ladder(e, 3, 5, None, None), Decay(e))

\* The rows of interest up to t, and what is said of a mark.
AsOf(e, t) == [c \in Contracts |-> [oi |-> SelectSeq(Since(tape[e][c].oi, 0), LAMBDA row : row[1] <= t),
                                    px |-> <<>>, vol |-> <<>>]]
SaidOf(trace, k) == <<trace[k].ts, trace[k].ce, trace[k].pe, trace[k].turn>>
Stands(then, today) == \A k \in 1..(Len(then) - 1) : \E j \in DOMAIN today : SaidOf(today, j) = SaidOf(then, k)

\* What the trace has said of a mark stands: once the first hour is over, the
\* rows that came after a minute do not change what the trace said, by then, of
\* how much open interest either side had added.
TraceStands ==
    \A i \in 1..(Len(spots) - 1) :
        spots[i][1] >= 60 =>
            Stands(BuildTrace(AsOf(NearExpiry, spots[i][1]), 0, Min({spots[i][1], Close + Grace})),
                   Pulse(NearExpiry, None, None).trace)

-----------------------------------------------------------------------------
\* Where the P/L of the legs is decided: at their strikes and far outside.
Ends(legs) == {0, 1000} \cup {2 * legs[i].c[1] : i \in DOMAIN legs}
Highest(legs) == Max({Pnl(legs, h) : h \in Ends(legs)})
Lowest(legs) == Min({Pnl(legs, h) : h \in Ends(legs)})
\* The legs neither earn nor lose at b.
BreaksEven(legs, b) == Pnl(legs, 2 * b) = 0
\* The legs cancel at b, beyond all their strikes.
BeyondWings(legs, b) ==
    /\ b <= Min({legs[i].c[1] : i \in DOMAIN legs}) \/ b >= Max({legs[i].c[1] : i \in DOMAIN legs})
    /\ \A h \in {2 * b - 1, 2 * b + 1} : Pnl(legs, h) = Pnl(legs, 2 * b)

\* What has to hold of one suggestion.
TellsTruth(s) ==
    s.family # "CALENDAR" /\ s.prem # None =>
        /\ s.profit # None => Highest(s.legs) = 2 * s.profit
        /\ s.loss # None => Lowest(s.legs) = -2 * s.loss
        /\ s.family = "VERTICAL" =>
               \A h \in Ends(s.legs), k \in Ends(s.legs) :
                   h < k => IF s.bias = "BULLISH" THEN Pnl(s.legs, h) <= Pnl(s.legs, k) ELSE Pnl(s.legs, h) >= Pnl(s.legs, k)
        /\ s.name # "LONG_STRANGLE" => \A b \in s.breakevens : BeyondWings(s.legs, b) \/ BreaksEven(s.legs, b)

\* A suggestion tells the truth about its legs: the profit and the loss it
\* states are the most they can earn and lose, a bullish vertical never loses
\* by a rise nor a bearish one by a fall, and it breaks even where it says.
\* Excused are a long strangle (StrangleBreaksEven) and a price beyond the wings,
\* where the legs cancel: there the wing is nearer to its short strike than the
\* premium is high, as at the chain's edge (BreakevensAreReal).
PayoffsHold ==
    HasSpot => \A book \in {Book(NearExpiry)} :
        \A i \in DOMAIN book.suggestions : TellsTruth(book.suggestions[i])

\* docs/05-ANALYSIS-ENGINE.md:1401-1403: breakevens frame the band of profit or
\* loss.  Those of a long strangle are where its legs break even.
StrangleBreaksEven ==
    HasSpot => \A book \in {Book(NearExpiry)} : \A i \in DOMAIN book.suggestions :
        LET s == book.suggestions[i]
        IN  s.name = "LONG_STRANGLE" => \A b \in s.breakevens : BreaksEven(s.legs, b)

\* The same of every structure.  The code adds the premium to the short strike
\* whatever the wing is: where the wing is the short strike itself, the legs earn
\* at the breakeven it states and lose nowhere on that side.
BreakevensAreReal ==
    HasSpot => \A book \in {Book(NearExpiry)} : \A i \in DOMAIN book.suggestions :
        LET s == book.suggestions[i]
        IN  s.prem # None /\ s.name # "LONG_STRANGLE" => \A b \in s.breakevens : BreaksEven(s.legs, b)
=============================================================================
