------------------------- MODULE InstrumentRegistry -------------------------
(***************************************************************************)
(* The instrument registry (app/instruments): the sync of a provider       *)
(* master into instruments and provider_instrument_map, and the daily roll *)
(* that plans the tracked universe around the spot price.                  *)
(*                                                                         *)
(* A contract is a record [kind, und, expiry, weekly, strike, right]; its  *)
(* instrument is named by its contract key.  The exchange lists contracts  *)
(* under symbols, changes them, and gives the symbol of a delisted         *)
(* contract to a new one.  An instrument and its row in the map are        *)
(* activated and deactivated together, so one flag stands for both.        *)
(***************************************************************************)
EXTENDS Integers, SequencesExt

CONSTANTS
    Order,         \* the contracts there may be, in the order of their keys
    Symbols,       \* provider symbols
    Days,          \* days of a month: a monthly key names the month only
    MonthlyFutures, MaxExpiries, StrikeWindow,    \* UniverseConfig
    Spots,         \* spot prices; NoSpot if there is no bar of the index
    NoSpot, NoUnderlying,
    MaxChanges     \* bound of the exchange's changes

ASSUME ConfigAssumption ==
    /\ Order \in Seq(ToSet(Order))
    /\ {MonthlyFutures, MaxExpiries, StrikeWindow} \subseteq Nat /\ Days \in Nat \ {0}

VARIABLES
    listing,   \* the exchange: listed contract -> symbol
    today,
    reg,       \* the registry: contract key -> instrument
    synced,    \* no change of the listing since the last sync
    changes

vars == <<listing, today, reg, synced, changes>>

Contracts == ToSet(Order)
Fields == {"segment", "token", "underlying_symbol", "underlying_key", "expiry", "weekly",
           "lot_size", "tick_size", "option_type", "strike"}

\* build_contract_key: a weekly contract is named by its date, a monthly one by
\* its month.
Key(c) ==
    IF c.kind = "INDEX" THEN <<c.und, "INDEX">>
    ELSE <<c.und, c.kind, IF c.weekly THEN <<"day", c.expiry>> ELSE <<"month", c.expiry \div Days>>,
           c.strike, c.right>>

-----------------------------------------------------------------------------
(* The master file.                                                         *)

\* What kind of row needs which fields, _classify_one; an index has none of
\* those of a derivative.
Required(kind) ==
    CASE kind = "INDEX"  -> {"segment", "token"}
      [] kind = "FUTURE" -> {"segment", "underlying_symbol", "underlying_key", "expiry",
                             "weekly", "lot_size", "tick_size"}
      [] kind = "OPTION" -> {"segment", "underlying_symbol", "underlying_key", "expiry",
                             "weekly", "lot_size", "tick_size", "option_type", "strike"}
Forbidden(kind) ==
    CASE kind = "INDEX"  -> {"expiry", "strike"}
      [] kind = "FUTURE" -> {"strike"}
      [] kind = "OPTION" -> {}
Classified(row) ==
    Required(row.contract.kind) \subseteq row.has /\ Forbidden(row.contract.kind) \cap row.has = {}

\* normalise: the rows of the listing; a row may lack a field it needs.
MasterRows(flawed) ==
    {[contract |-> c, symbol |-> listing[c],
      has |-> IF c = flawed THEN Required(c.kind) \ {"lot_size", "token"} ELSE Required(c.kind)] :
        c \in DOMAIN listing}

\* validate: rows whose symbol or key appears twice are all quarantined.
Accepted(rows) ==
    LET ok == {r \in rows : Classified(r)}
    IN  {r \in ok : \A s \in ok \ {r} : s.symbol # r.symbol /\ Key(s.contract) # Key(r.contract)}

-----------------------------------------------------------------------------
(* sync_instruments                                                         *)

Put(f, k, x) == [i \in DOMAIN f \cup {k} |-> IF i = k THEN x ELSE f[i]]
Owners(g, symbol) == {k \in DOMAIN g : g[k].symbol = symbol}

\* _persist, upsert_instrument and upsert_provider_map: a symbol that belongs to
\* another instrument, active or not, quarantines the row.
PersistRow(st, row, und) ==
    LET k == Key(row.contract)
        new == [kind |-> row.contract.kind, und |-> und, symbol |-> row.symbol, active |-> TRUE,
                tracked |-> k \in DOMAIN st.reg /\ st.reg[k].tracked]
    IN  IF Owners(st.reg, row.symbol) \ {k} # {} THEN st
        ELSE [reg |-> Put(st.reg, k, new), seen |-> st.seen \cup {k}]

\* A derivative needs its underlying in the registry, as an index.
SyncRow(st, row) ==
    LET und == {k \in Owners(st.reg, listing[row.contract.index]) :
                   st.reg[k].kind = "INDEX" /\ k # Key(row.contract)}
    IN  IF row.contract.kind = "INDEX" THEN PersistRow(st, row, NoUnderlying)
        ELSE IF und = {} THEN st
        ELSE PersistRow(st, row, CHOOSE k \in und : TRUE)

\* One pass over rows in the order of their keys.
Pass(start, rows) ==
    LET RowOf(c) == CHOOSE r \in rows : r.contract = c
    IN  FoldLeft(LAMBDA st, c : IF c \in {r.contract : r \in rows} THEN SyncRow(st, RowOf(c)) ELSE st,
                 start, Order)

\* The indices come before what refers to them.
Persisted(rows) ==
    LET indices == {r \in rows : r.contract.kind = "INDEX"}
    IN  Pass(Pass([reg |-> reg, seen |-> {}], indices), rows \ indices)

\* Slip: what the master no longer lists stays active.
SyncedKeepsAbsent(rows) == Persisted(rows).reg

\* After the rows, every active instrument that was not among them is deactivated.
Synced(rows) ==
    LET end == Persisted(rows)
    IN  [k \in DOMAIN end.reg |->
            IF k \in end.seen THEN end.reg[k] ELSE [end.reg[k] EXCEPT !.active = FALSE]]

-----------------------------------------------------------------------------
(* plan_universe                                                            *)

\* The first n of a set of days.
Nearest(n, days) == {d \in days : Cardinality({e \in days : e < d}) < n}

Planned(rows, spot) ==
    LET later(kind) == {r \in rows : r.contract.kind = kind /\ r.contract.expiry > today}
        near(kind, n) == Nearest(n, {r.contract.expiry : r \in later(kind)})
    IN  {r \in rows : r.contract.kind = "INDEX"}
        \cup {r \in later("FUTURE") : r.contract.expiry \in near("FUTURE", MonthlyFutures)}
        \cup {r \in later("OPTION") :
                /\ r.contract.expiry \in near("OPTION", MaxExpiries)
                /\ spot # NoSpot
                /\ r.contract.strike \in (spot - StrikeWindow)..(spot + StrikeWindow)}

\* roll_universe: sync what is planned and nothing else, then track exactly it.
Rolled(rows, spot) ==
    LET plan == Planned(rows, spot)
        keys == {Key(r.contract) : r \in plan}
        g == Synced(Accepted(plan))
    IN  [k \in DOMAIN g |-> [g[k] EXCEPT !.tracked = k \in keys]]

-----------------------------------------------------------------------------
Flaws == DOMAIN listing \cup {NoUnderlying}     \* NoUnderlying: no row is flawed

Sync ==
    \E f \in Flaws :
        /\ reg' = Synced(Accepted(MasterRows(f)))
        /\ synced' = TRUE
        /\ UNCHANGED <<listing, today, changes>>

Roll ==
    \E f \in Flaws, spot \in Spots \cup {NoSpot} :
        /\ reg' = Rolled(MasterRows(f), spot)
        /\ synced' = TRUE
        /\ UNCHANGED <<listing, today, changes>>

\* POST /instruments with the symbol and the underlying that the catalogue shows.
CreateInstrument ==
    \E c \in DOMAIN listing :
        /\ Key(c) \notin DOMAIN reg /\ Owners(reg, listing[c]) = {}
        /\ c.kind # "INDEX" => Key(c.index) \in DOMAIN reg
        /\ reg' = Put(reg, Key(c),
             [kind |-> c.kind, symbol |-> listing[c], active |-> TRUE, tracked |-> TRUE,
              und |-> IF c.kind = "INDEX" THEN NoUnderlying ELSE Key(c.index)])
        /\ UNCHANGED <<listing, today, synced, changes>>

\* PATCH /instruments/{id}.
PatchTracked ==
    \E k \in DOMAIN reg :
        /\ reg' = [reg EXCEPT ![k].tracked = ~@]
        /\ UNCHANGED <<listing, today, synced, changes>>

\* What list_tracked and build_symbol_map give to cycles and to the stream.
Fetched == {k \in DOMAIN reg : reg[k].tracked /\ reg[k].active}

\* The exchange: a day passes and what expires leaves; a contract is listed
\* under a free symbol; a contract's symbol changes.
NextDay ==
    /\ changes < MaxChanges /\ changes' = changes + 1
    /\ today' = today + 1
    /\ listing' = [c \in {c \in DOMAIN listing : c.kind = "INDEX" \/ c.expiry >= today'} |-> listing[c]]
    /\ synced' = (listing' = listing /\ synced)
    /\ UNCHANGED reg
ListContract ==
    /\ changes < MaxChanges /\ changes' = changes + 1
    /\ \E c \in Contracts, s \in Symbols \ {listing[d] : d \in DOMAIN listing} :
         /\ c \in DOMAIN listing \/ c.expiry > today
         /\ c.kind # "INDEX"
         /\ listing' = Put(listing, c, s)
    /\ synced' = FALSE
    /\ UNCHANGED <<today, reg>>

\* The indices are listed from the beginning under names that do not change.
Init ==
    /\ \E ix \in [{c \in Contracts : c.kind = "INDEX"} -> Symbols] : IsInjective(ix) /\ listing = ix
    /\ today = 0 /\ reg = <<>> /\ synced = FALSE /\ changes = 0

Next == Sync \/ Roll \/ CreateInstrument \/ PatchTracked \/ NextDay \/ ListContract

Spec == Init /\ [][Next]_vars

-----------------------------------------------------------------------------
\* Until the exchange changes something again, every instrument that may be
\* fetched is listed, and under the very symbol it would be fetched with: after
\* any history of expiries, renamed and reused symbols, flawed rows and rolls,
\* no instrument is filled with the data of another.
SymbolsAreTheirs ==
    synced => \A k \in DOMAIN reg : reg[k].active =>
        \E c \in DOMAIN listing : Key(c) = k /\ listing[c] = reg[k].symbol

\* scheduler.py, run_universe_roll: "new weekly expiries are picked up".  Refuted
\* even by rolls with a flawless master: a contract that is given the symbol of a
\* dead one is quarantined by every roll and sync, for the dead one keeps its
\* symbol in the map.
PlannedAreFetched ==
    [][\A spot \in Spots :
          reg' = Rolled(MasterRows(NoUnderlying), spot) /\ reg' # reg =>
              {Key(r.contract) : r \in Planned(MasterRows(NoUnderlying), spot)} \subseteq Fetched']_vars
=============================================================================
