------------------------------ MODULE MCPrices ------------------------------
(* Moves of a few points around a price of two hundred; the parameters are   *)
(* those of the code with every count of bars made short.                   *)
EXTENDS PriceViews
Move(gap, body, up, down, vol) == [gap |-> gap, body |-> body, up |-> up, down |-> down, vol |-> vol]
Up == Move(0, 6, 0, 0, 3)
Still == Move(0, 0, 0, 0, 1)
Fall == Move(4, -10, 1, 0, 2)
Hammer == Move(-4, 2, 0, 8, 2)
Rally == Move(-6, 12, 4, 2, 4)
Jump == Move(9, 6, 1, 1, 2)
Drop == Move(-9, -6, 1, 1, 2)
Star == Move(4, -2, 8, 0, 9)
Grave == Move(0, 0, 6, 0, 1)
Cross == Move(0, 0, 3, 3, 1)
Small == Move(-3, -2, 0, 0, 1)
MCMoves == <<{Up, Fall}, {Rally, Drop}, {Jump, Drop, Hammer}, {Jump, Small, Still}, {Jump, Fall}, {Drop, Cross},
             {Drop, Jump, Star}, {Grave, Hammer}, {Up}>>
MCCdl == [scan |-> 2, trend |-> 1, trendBp |-> 15, dojiPct |-> 10, marubozuPct |-> 90, wickMult |-> 2, oppWickPct |-> 15,
          starPct |-> 35, frozen |-> 2]
MCOb == [swing |-> 1, atr |-> 1, impulse |-> 1, bos |-> 2, maxAge |-> 60]
MCGc == [fast |-> 1, slow |-> 2, search |-> 3, recent |-> 10]
MCEma == [period |-> 2, slope |-> 1, flatBp |-> 0]
MCBoll == [period |-> 3, std |-> 1]
MCRsi == [period |-> 2, div |-> 3, minDelta |-> 1]
MCVol == [ma |-> 3, spike |-> 2, rvol |-> 2, flatPct |-> 5]
MCOI == [lookback |-> 1, priceBp |-> 5, oiBp |-> 10, oiAbs |-> 0]
MCFvg == [swing |-> 1, window |-> 6, scan |-> 90, max |-> 8, minBp |-> 3]
MCCrt == [scan |-> 3, midPct |-> 10, retestPct |-> 5, strongPct |-> 50, volPct |-> 120]
MCGann == [lookback |-> 260, cycles |-> {2, 3, 5, 7}, tol |-> 1, horizon |-> 4]
MCFade == [gapBp |-> 50, changeBp |-> 50, box |-> 2, bufferBp |-> 30, search |-> 90]
MCOrb == [rangeEnd |-> 2, breakStart |-> 4, breakEnd |-> 5, until |-> 6, targets |-> {50, 100}]
Profile(position, shape, inValue, complete) == [position |-> position, shape |-> shape, inValue |-> inValue, complete |-> complete]
MCProfiles == {Profile("ABOVE_VAH", "TREND_UP", FALSE, TRUE), Profile("BELOW_POC", "P_SHAPE", TRUE, FALSE), NoHit}
MCDates == <<3, 4, 7, 9, 10, 13, 14, 16, 17, 19>>
MCCal == [week |-> 3, month |-> 6, year |-> 12, grace |-> 1]
MCBands == [at |-> 1, near |-> 3, approaching |-> 8, accept |-> 2, reject |-> 3]
MCDay == [window |-> 3, widePct |-> 125, narrowPct |-> 75, range52 |-> 4, posBp |-> 5, least |-> 2]
MCGrid == [fold |-> 2, candles |-> 7, fvg |-> 9, crt |-> 8, minFvg |-> 7, minCrt |-> 4, limit |-> 1, nearBp |-> 100, recent |-> 4]
MCWeights == [whole |-> 60, down |-> 30, new |-> 10]
MCSectors == [whole |-> "BANKS", down |-> "OIL", new |-> "BANKS"]
=============================================================================
