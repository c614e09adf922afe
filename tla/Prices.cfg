SPECIFICATION Spec
CONSTANTS
    NoHit = NoHit
    NoTime = NoTime
    NoRead = NoRead
    Start = 200
    Axis = 400
    Moves <- MCMoves
    Cdl <- MCCdl
    Ob <- MCOb
    Gc <- MCGc
    Ema <- MCEma
    Boll <- MCBoll
    Rsi <- MCRsi
    Vol <- MCVol
    OI <- MCOI
    Fvg <- MCFvg
    Crt <- MCCrt
    Gann <- MCGann
    Fade <- MCFade
    Orb <- MCOrb
    Profiles <- MCProfiles
    Dates <- MCDates
    Cal <- MCCal
    OnDay = 3
    WeightPct <- MCWeights
    Sector <- MCSectors
    Hist = 2
    Bands <- MCBands
    Day <- MCDay
    Grid <- MCGrid
INVARIANTS
    ViewsAgree
    ViewsMirror
    SidesMirror
    ScoresBalance
PROPERTIES
    HistoryStands
    ViewsStand
CHECK_DEADLOCK FALSE
